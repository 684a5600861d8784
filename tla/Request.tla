------------------------------ MODULE Request ------------------------------
(***************************************************************************)
(* From a combination of axis values to a request, and from a response to  *)
(* its cache state: buildJobInputs of cmd/main.go, the merging of          *)
(* internal/http/client.go and the rules of internal/config/config.go.     *)
(* Cookies and headers are functions from names to values; the value of a  *)
(* response header is the set of its words, in one case, {} when absent.   *)
(***************************************************************************)
EXTENDS Patterns, Naturals, FiniteSetsExt

CONSTANTS
    Upper(_), Lower(_), Trim(_),   \* strings.ToUpper, ToLower and TrimSpace
    Canonical(_),    \* http.CanonicalHeaderKey, by which an http.Header is indexed
    CookieText(_),   \* what AddCookie leaves of a cookie's value
    FieldText(_),    \* what the transport writes of a header's value
    Unsent           \* the header names the transport leaves out, such as Host

TransformValue(a, raw) ==
    LET transform == Lower(Trim(a.transform))
    IN  CASE transform = "upper" -> Upper(raw)
          [] transform = "lower" -> Lower(raw)
          [] OTHER -> raw

\* A header is indexed by its canonical name, a cookie by its name.
Key(kind, name) == IF kind = "header" THEN Canonical(name) ELSE name

With(axes, kind) == {i \in DOMAIN axes : axes[i][kind] # ""}

\* What the combination puts under each key, as cookies or as headers: the
\* last axis with a key has it.
buildJobInputs(axes, combo, kind) ==
    [n \in {Key(kind, axes[i][kind]) : i \in With(axes, kind)} |->
        LET i == Max({k \in With(axes, kind) : Key(kind, axes[k][kind]) = n})
        IN  TransformValue(axes[i], combo[i].value)]

\* The global headers are set in the order of a Go map: of two names that are
\* one header, either stays.
DefaultHeaders(c) ==
    LET names == DOMAIN c.globalHeaders
        keys == {Canonical(m) : m \in names}
    IN  {[n \in keys |-> c.globalHeaders[from[n]]] :
            from \in {f \in [keys -> names] : \A n \in keys : Canonical(f[n]) = n}}

buildDefaultCookies(in) == Restrict(in, DOMAIN in \ {""})

\* First the names of one function are set, then those of the other.
Merged(first, second) ==
    [n \in DOMAIN first \cup DOMAIN second |->
        IF n \in DOMAIN second THEN second[n] ELSE first[n]]

\* Plausible bug: the defaults win.
mergeDefaultsFirst(defaults, overrides) == Merged(overrides, defaults)

mergeCookies(defaults, overrides) == Merged(defaults, overrides)

Fallback(headers, name, value) ==
    IF value = "" \/ (name \in DOMAIN headers /\ headers[name] # "")
    THEN headers ELSE Merged(headers, [n \in {name} |-> value])

\* A header of the combination replaces the default of its key.
buildRequest(c, defaultHdrs, url, combo) ==
    LET merged == Merged(defaultHdrs, buildJobInputs(c.axes, combo, "header"))
        agent == Fallback(merged, "User-Agent", c.userAgent)
        cookies == mergeCookies(buildDefaultCookies(c.globalCookies),
                                buildJobInputs(c.axes, combo, "cookie"))
    IN  [url |-> url,
         headers |-> Fallback(agent, "Cache-Control", "no-cache"),
         cookies |-> [n \in DOMAIN cookies |-> CookieText(cookies[n])]]

\* The request as net/http writes it.
Wire(r) ==
    [r EXCEPT !.headers = [n \in DOMAIN r.headers \ Unsent |-> FieldText(r.headers[n])]]

\* The combinations forEachCombo makes for a URL.
Combos(c, u) ==
    LET applicable == [i \in DOMAIN c.axes |-> ApplicableValues(c.axes[i], u)]
    IN  {combo \in [DOMAIN c.axes -> UNION {{a[k] : k \in DOMAIN a} : a \in {applicable[i] : i \in DOMAIN applicable}}] :
            \A i \in DOMAIN combo : \E k \in DOMAIN applicable[i] : combo[i] = applicable[i][k]}
-----------------------------------------------------------------------------
(* Cache detection.                                                        *)

\* CacheRule.Match; regex has at most one expression.
Match(rule, value) ==
    /\ value # {}
    /\ \/ rule.equals = {} /\ rule.contains = {} /\ rule.regex = <<>>
       \/ rule.equals # {} /\ value = rule.equals
       \/ rule.contains # {} /\ rule.contains \subseteq value
       \/ Matches(rule.regex, value)

Equals(header, word, state) ==
    [header |-> header, equals |-> {word}, contains |-> {}, regex |-> <<>>, state |-> state]
Has(header, word, state) ==
    [header |-> header, equals |-> {}, contains |-> {word}, regex |-> <<>>, state |-> state]
Present(header, state) ==
    [header |-> header, equals |-> {}, contains |-> {}, regex |-> <<>>, state |-> state]

DefaultCacheRules ==
    <<Equals("CF-Cache-Status", "HIT", "hit"),
      Equals("CF-Cache-Status", "MISS", "miss"),
      Equals("CF-Cache-Status", "EXPIRED", "miss"),
      Equals("CF-Cache-Status", "REVALIDATED", "miss"),
      Equals("CF-Cache-Status", "BYPASS", "bypass"),
      Equals("CF-Cache-Status", "DYNAMIC", "bypass"),
      Has("CF-Cache-Status", "HIT", "hit"),
      Equals("X-Drupal-Dynamic-Cache", "HIT", "hit"),
      Equals("X-Drupal-Dynamic-Cache", "MISS", "miss"),
      Equals("X-Drupal-Dynamic-Cache", "UNCACHEABLE", "bypass"),
      Equals("X-Drupal-Cache", "HIT", "hit"),
      Equals("X-Drupal-Cache", "MISS", "miss"),
      Has("X-Cache", "HIT", "hit"),
      Has("X-Cache", "MISS", "miss"),
      Has("X-Cache", "BYPASS", "bypass"),
      Has("X-Cache-Status", "HIT", "hit"),
      Has("X-Cache-Status", "MISS", "miss"),
      Present("Age", "hit")>>

\* Plausible bug: the last match wins.
ClassifyLast(rules, get) ==
    LET used == IF rules = <<>> THEN DefaultCacheRules ELSE rules
        matching == {i \in DOMAIN used : Match(used[i], get[used[i].header])}
    IN  IF matching = {} THEN [state |-> "unknown", header |-> ""]
        ELSE [state |-> used[Max(matching)].state, header |-> used[Max(matching)].header]

\* The first rule that matches decides.
Classify(rules, get) ==
    LET used == IF rules = <<>> THEN DefaultCacheRules ELSE rules
        matching == {i \in DOMAIN used : Match(used[i], get[used[i].header])}
    IN  IF matching = {} THEN [state |-> "unknown", header |-> ""]
        ELSE [state |-> used[Min(matching)].state, header |-> used[Min(matching)].header]
=============================================================================
