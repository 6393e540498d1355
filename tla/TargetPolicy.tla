---------------------------- MODULE TargetPolicy ----------------------------
(***************************************************************************)
(* The allow list of upstream targets (proxy/target-policy.ts): how the    *)
(* entries of the two settings become rules, and which requests the rules  *)
(* allow.                                                                  *)
(*                                                                         *)
(* A path is the sequence of what stands after each of its slashes, and    *)
(* such a segment is a sequence of characters: "/a/" is <<<<"a">>, <<>>>>. *)
(* The characters that matter are ".", "*" and "%2f", which stands for     *)
(* every form of an encoded slash or backslash.  Text gives the characters *)
(* of a path, slashes included.  A host is a name and a port; DefaultPort  *)
(* is the port of a text that names none.                                  *)
(***************************************************************************)
EXTENDS Naturals, Sequences, SequencesExt, Settings

CONSTANTS DefaultPort,
          Characters    \* of a path, but for the slash

ASSUME CharactersAssumption == "/" \notin Characters

AllowedMethods == {"GET", "POST", "PUT", "PATCH", "DELETE"}

Text(path) == FlattenSeq([i \in DOMAIN path |-> <<"/">> \o path[i]])

-----------------------------------------------------------------------------
(* URL, external: the parser of node.                                      *)

Dot    == <<".">>
DotDot == <<".", ".">>

\* What the i-th segment of a path makes of the segments before it.
Step(done, path, i) ==
    LET last == i = Len(path)
        up   == IF done = <<>> THEN done ELSE Front(done)
    IN  CASE path[i] = Dot    -> IF last THEN Append(done, <<>>) ELSE done
          [] path[i] = DotDot -> IF last THEN Append(up, <<>>) ELSE up
          [] OTHER            -> Append(done, path[i])

\* new URL(...).pathname: dot segments are resolved.
Pathname(path) ==
    LET done[i \in 0 .. Len(path)] == IF i = 0 THEN <<>> ELSE Step(done[i - 1], path, i)
    IN  done[Len(path)]

\* Every URL has a path, if only "/".
IsUrl(url) == url.path \in Seq(Seq(Characters)) \ {<<>>}

SchemePort(scheme) == IF scheme = "https" THEN 443 ELSE 80

\* URL.host: the port is left out if it is that of the scheme.
UrlHost(url) ==
    [name |-> url.host.name,
     port |-> IF url.host.port = SchemePort(url.scheme) THEN DefaultPort ELSE url.host.port]

-----------------------------------------------------------------------------
(* The rules.                                                              *)

\* assertHost: both default ports are dropped, whatever the scheme will be.
AssertHost(host) ==
    IF host = Malformed THEN Thrown
    ELSE [name |-> host.name, port |-> IF host.port \in {443, 80} THEN DefaultPort ELSE host.port]

\* An entry of ALLOWED_TARGET_HOSTS may have no scheme and no path.
ParseHostEntry(entry) ==
    IF entry.scheme \/ entry.path # <<>> \/ entry.words # 1 \/ AssertHost(entry.host) = Thrown
    THEN Thrown
    ELSE [method |-> "*", host |-> AssertHost(entry.host), path |-> <<<<>>>>, prefix |-> TRUE]

Starred(path) == path # <<>> /\ Last(path) # <<>> /\ Last(Last(path)) = "*"

WithoutStar(path) ==
    IF Starred(path) THEN Append(Front(path), Front(Last(path))) ELSE path

\* An entry of ALLOWED_ROUTES: a method and a target, or only a target.
ParseRouteEntry(entry) ==
    LET path == WithoutStar(entry.path)
    IN  IF \/ entry.words > 2
           \/ entry.words = 2 /\ entry.method \notin AllowedMethods \cup {"*"}
           \/ entry.scheme
           \/ entry.path = <<>>
           \/ AssertHost(entry.host) = Thrown
           \/ \E i \in DOMAIN path : "*" \in ToSet(path[i])
        THEN Thrown
        ELSE [method |-> IF entry.words = 2 THEN entry.method ELSE "*",
              host   |-> AssertHost(entry.host),
              path   |-> Pathname(path),
              prefix |-> Starred(entry.path)]

\* The constructor: one entry that cannot be parsed stops the start.
RulesFromConfig(hosts, routes) ==
    LET rules == {ParseHostEntry(e) : e \in hosts} \cup {ParseRouteEntry(e) : e \in routes}
    IN  IF Thrown \in rules THEN Thrown ELSE rules

\* Mutant of MatchesPath: a prefix need not end at a segment.
MatchesText(rule, pathname) ==
    IF rule.prefix THEN IsPrefix(Text(rule.path), Text(pathname)) ELSE pathname = rule.path

MatchesPath(rule, pathname) ==
    LET text == Text(rule.path)
    IN  \/ pathname = rule.path
        \/ rule.prefix /\ rule.path = <<<<>>>>
        \/ rule.prefix /\ IsPrefix(IF Last(text) = "/" THEN text ELSE Append(text, "/"),
                                   Text(pathname))

\* The check of assertAllowed.
Allowed(rules, method, url) ==
    LET pathname == Pathname(url.path)
    IN  /\ \A i \in DOMAIN pathname : "%2f" \notin ToSet(pathname[i])
        /\ \E r \in rules :
              /\ r.host = UrlHost(url)
              /\ r.method \in {"*", method}
              /\ MatchesPath(r, pathname)
=============================================================================
