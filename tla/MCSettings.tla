---------------------------- MODULE MCSettings ----------------------------
(* Files and command lines of Settings for TLC. *)
EXTENDS Settings, TLC

\* A conversion, by the strings it changes.
In(table, s) == IF s \in DOMAIN table THEN table[s] ELSE s

MCUpper(s) == In([qc |-> "QC", on |-> "ON", en |-> "EN", fr |-> "FR", de |-> "DE", cad |-> "CAD",
                  head |-> "HEAD", Get |-> "GET"], s)
MCLower(s) == In([EN |-> "en", Upper |-> "upper"], s)
MCTrim(s) == In(" head " :> "head" @@ " " :> "" @@ " Upper " :> "Upper" @@ " fr" :> "fr", s)
MCCanonical(s) == In("x-language" :> "X-Language" @@ "user-agent" :> "User-Agent", s)

\* AddCookie drops what is not ASCII: nothing is left of a Japanese name.
MCCookieText(s) == In([nihon |-> "", igirisu |-> ""], s)
MCFieldText(s) == In(" fr" :> "fr", s)

MCWords == {"qc", "on", "en", "EN", "fr", " fr", "de", "cad", "nihon", "igirisu", " ", ""}

Value(value, contains, matches) ==
    [value |-> value, contains |-> contains, matches |-> matches, matchesRE |-> <<>>]

Axis(name, cookie, header, transform, values) ==
    [name |-> name, cookie |-> cookie, header |-> header, transform |-> transform,
     values |-> values]

Regions == <<Value("qc", <<>>, <<>>), Value("on", <<{"/en"}>>, <<>>)>>
Languages == <<Value("en", <<{"/en"}>>, <<>>), Value("fr", <<>>, <<{"/fr"}>>)>>

Countries == <<Value("nihon", <<>>, <<>>), Value("igirisu", <<>>, <<>>)>>

Region == Axis("region", "region", "", "upper", Regions)
Language == Axis("language", "", "X-Language", "", Languages)

Base == [sitemap |-> "file", axes |-> <<Region, Language>>]

\* One field each: values Validate rejects, corrects, or takes as they are.
Changes ==
    {"sitemap" :> s : s \in {"", " "}} \cup {"method" :> m : m \in {"Get", " head ", "POST"}}
    \cup {"workers" :> 0, "timeout" :> 0, "matchersOK" :> FALSE}
    \cup {"rps" :> r : r \in {-1, 1, 5}} \cup {"burst" :> b : b \in {-1, 3}}
    \cup {"maxAttempts" :> 0, "factor" :> 0, "maxConns" :> 2, "percent" :> 201, "percent" :> 125}
    \cup {"slowdown" :> TRUE, "slowFactor" :> 120, "slowTime" :> 10}
    \cup {"globalCookies" :> [region |-> "NB"],
          "globalHeaders" :> ("X-Language" :> "nb" @@ "x-language" :> "qc" @@ "User-Agent" :> "")}
    \cup {"axes" :> a : a \in
           {<<>>, <<[Region EXCEPT !.name = ""]>>, <<[Region EXCEPT !.cookie = ""]>>,
            <<[Region EXCEPT !.transform = "title"]>>, <<[Region EXCEPT !.values = <<>>]>>,
            <<[Language EXCEPT !.values = <<Value("en", <<>>, <<BadPattern>>)>>]>>,
            <<Region, [Language EXCEPT !.cookie = "region"]>>,
            <<Region, [Region EXCEPT !.name = "again"]>>,
            <<Region, [Region EXCEPT !.cookie = "again", !.values = <<@[2], @[1]>>]>>,
            <<[Region EXCEPT !.transform = " Upper "], Language>>,
            <<[Region EXCEPT !.values = <<Value(" ", <<>>, <<>>)>>], Language>>,
            <<[Region EXCEPT !.values = Countries], Language>>,
            <<Language, [Language EXCEPT !.name = "again", !.header = "x-language"]>>,
            <<Region, [Language EXCEPT !.header = "user-agent"]>>,
            <<Region, [Language EXCEPT !.header = "Host"]>>,
            <<[Language EXCEPT !.cookie = "language",
                              !.values = Append(@, Value(" fr", <<>>, <<>>))]>>,
            <<[Language EXCEPT !.transform = "lower",
                              !.values = Append(@, Value("EN", <<>>, <<>>))]>>}}

\* Every pair of changes.
MCFiles ==
    {[kind |-> "read", fields |-> a @@ b @@ Base] : a, b \in Changes}
    \cup {[kind |-> "read", fields |-> Base], [kind |-> "missing", fields |-> Base],
          [kind |-> "broken", fields |-> Base]}

Override(name, values) == [name |-> name, values |-> values]

MCOverrides ==
    {<<>>, <<Override("region", <<"on">>)>>,
     <<Override("language", <<"fr", "de">>), Override("region", <<"qc">>)>>,
     <<Override("region", <<"qc">>), Override("region", <<"on">>)>>,
     <<Override("region", <<"on", "de">>), Override("region", <<"de", "on", "qc">>)>>,
     <<Override("language", <<>>), Override("language", <<"fr">>)>>,
     <<Override("language", <<>>)>>, <<Override("currency", <<"cad">>)>>, <<Override("", <<>>)>>}

MCFlagSets ==
    {[sitemap |-> "", workers |-> 0, method |-> "", axes |-> o] : o \in MCOverrides}
    \cup {[sitemap |-> "flag", workers |-> 5, method |-> m, axes |-> o] :
            m \in {" head ", "PUT"}, o \in MCOverrides}
=============================================================================
