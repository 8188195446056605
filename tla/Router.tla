------------------------------- MODULE Router -------------------------------
(***************************************************************************)
(* http/Router.cpp: route() enters handlers, then deal() answers requests. *)
(* match() walks over the entries in the order of an unordered_map, which  *)
(* may be any, and over pattern and path with one pointer each; one action *)
(* is one pass of its inner loop.  The reference at the end knows no       *)
(* pointers: it cuts both at "/" and compares segments.                    *)
(*                                                                         *)
(* A pattern or path is a sequence of characters, as few of them as tell   *)
(* the branches apart.  A handler is named by its path and method.         *)
(***************************************************************************)
EXTENDS Naturals, Sequences

CONSTANTS Patterns,   \* what the user may pass to route()
          Paths,      \* req->path of the clients: on_recv has a broken request
                      \* dealt with too, whose path may still be empty
          Methods,    \* HttpMethod
          MaxRoutes   \* bound: calls of route()

ASSUME RouterAssumption == /\ Patterns \subseteq Seq(STRING)
                           /\ Paths \subseteq Seq(STRING)
                           /\ MaxRoutes \in Nat

VARIABLES
  entries,      \* entries_: the methods handled, by pattern
  routes,       \* number of calls of route()
  pc,           \* "setup", "idle", "next", "scan", "handler", "answered"
  req,          \* req->path and req->method
  todo,         \* patterns the iterator has not come to
  key,          \* it->first
  kp, vp,       \* the pointers into key and path, as indices
  matches,      \* matches, from names to values
  pathMatches,  \* req->path_matches
  result,       \* the handler that deal() has called, or 501
  fault         \* LOG_FATAL

scanVars == <<todo, key, kp, vp, matches>>
routerVars ==
  <<entries, routes, pc, req, scanVars, pathMatches, result, fault>>

NoMatches == <<>>
NotImplemented == <<>>

RouterInit ==
  /\ entries = <<>> /\ routes = 0
  /\ pc = "setup"
  /\ req = [path |-> <<>>, method |-> "none"]
  /\ todo = {} /\ key = <<>> /\ kp = 1 /\ vp = 1 /\ matches = NoMatches
  /\ pathMatches = NoMatches
  /\ result = NotImplemented
  /\ fault = "none"

\* A map written over another.
Over(f, g) == [x \in DOMAIN f \union DOMAIN g |->
                 IF x \in DOMAIN f THEN f[x] ELSE g[x]]

Put(f, x, y) == Over([z \in {x} |-> y], f)

At(where) == fault = "none" /\ pc = where
-----------------------------------------------------------------------------
(* route(), before the server runs; the one with a Service does nothing.   *)

Handled(p) == IF p \in DOMAIN entries THEN entries[p] ELSE {}

Route(p, m) ==
  /\ At("setup") /\ routes < MaxRoutes
  /\ routes' = routes + 1
  /\ IF m \in Handled(p)
     THEN fault' = "route: duplicate" /\ UNCHANGED entries
     ELSE entries' = Put(entries, p, Handled(p) \union {m}) /\ UNCHANGED fault
  /\ UNCHANGED <<pc, req, scanVars, pathMatches, result>>

Serve ==
  /\ At("setup")
  /\ pc' = "idle"
  /\ UNCHANGED <<entries, routes, req, scanVars, pathMatches, result, fault>>
-----------------------------------------------------------------------------
(* deal() and match().                                                     *)

FirstAt(s, from, c) ==
  LET at == {i \in from..Len(s) : s[i] = c}
  IN IF at = {} THEN Len(s) + 1 ELSE CHOOSE i \in at : \A j \in at : i <= j

\* Only the characters before a "?".
Path == SubSeq(req.path, 1, FirstAt(req.path, 1, "?") - 1)

\* A request of a new connection: each has an HttpRequest of its own.
Deal(path, m) ==
  /\ At("idle")
  /\ req' = [path |-> path, method |-> m]
  /\ pathMatches' = NoMatches
  /\ todo' = DOMAIN entries
  /\ pc' = "next"
  /\ UNCHANGED <<entries, routes, key, kp, vp, matches, result, fault>>

NextEntryKeeps ==             \* seeded defect: one map for all entries
  /\ At("next")
  /\ \E p \in todo : key' = p /\ todo' = todo \ {p}
  /\ kp' = 1 /\ vp' = 1
  /\ pc' = "scan"
  /\ UNCHANGED <<entries, routes, req, matches, pathMatches, result, fault>>

NextEntry ==
  /\ At("next")
  /\ \E p \in todo : key' = p /\ todo' = todo \ {p}
  /\ kp' = 1 /\ vp' = 1 /\ matches' = NoMatches
  /\ pc' = "scan"
  /\ UNCHANGED <<entries, routes, req, pathMatches, result, fault>>

\* No entry is left: 501.
NoHandler ==
  /\ At("next") /\ todo = {}
  /\ result' = NotImplemented
  /\ pc' = "answered"
  /\ UNCHANGED <<entries, routes, req, scanVars, pathMatches, fault>>

\* The loop runs while neither pointer is at its end and the characters agree.
Same == At("scan") /\ kp <= Len(key) /\ vp <= Len(Path) /\ key[kp] = Path[vp]

\* What follows a "/" of the pattern, "" at the end.
Ahead(i) == IF key[i] = "/" /\ i < Len(key) THEN key[i + 1] ELSE ""

\* "/*name": the value is all that is left; only a "/" may follow the name.
StarTrailing ==               \* seeded defect: not even that
  /\ Same /\ Ahead(kp) = "*"
  /\ LET end == FirstAt(key, kp + 2, "/") IN
       /\ IF end <= Len(key)
          THEN fault' = "match: * usage" ELSE UNCHANGED fault
       /\ matches' = Put(matches, SubSeq(key, kp + 2, end - 1),
                         SubSeq(Path, vp + 1, Len(Path)))
       /\ kp' = end
  /\ vp' = Len(Path) + 1
  /\ UNCHANGED <<entries, routes, pc, req, todo, key, pathMatches, result>>

Star ==
  /\ Same /\ Ahead(kp) = "*"
  /\ LET end == FirstAt(key, kp + 2, "/") IN
       /\ IF end < Len(key)
          THEN fault' = "match: * usage" ELSE UNCHANGED fault
       /\ matches' = Put(matches, SubSeq(key, kp + 2, end - 1),
                         SubSeq(Path, vp + 1, Len(Path)))
       /\ kp' = end
  /\ vp' = Len(Path) + 1
  /\ UNCHANGED <<entries, routes, pc, req, todo, key, pathMatches, result>>

\* "/:name" and "/{name}": the value is one segment.  The test for a "{"
\* before the name looks at the "/" and never holds, and the name is stored
\* with its ":" or its braces.
MatchField ==
  /\ Same /\ Ahead(kp) \in {":", "{"}
  /\ LET end  == FirstAt(key, kp + 1, "/")
         vend == FirstAt(Path, vp + 1, "/") IN
       /\ matches' = Put(matches, SubSeq(key, kp + 1, end - 1),
                         SubSeq(Path, vp + 1, vend - 1))
       /\ kp' = end /\ vp' = vend
  /\ UNCHANGED <<entries, routes, pc, req, todo, key, pathMatches,
                 result, fault>>

Literal ==
  /\ Same /\ Ahead(kp) \notin {"*", ":", "{"}
  /\ kp' = kp + 1 /\ vp' = vp + 1
  /\ UNCHANGED <<entries, routes, pc, req, todo, key, matches, pathMatches,
                 result, fault>>

\* The inner loop ends: both pointers at their ends make a match, which still
\* needs the method; otherwise the next entry is tried.
EndScan ==
  /\ At("scan") /\ ~Same
  /\ IF kp > Len(key) /\ vp > Len(Path) /\ req.method \in entries[key]
     THEN /\ pathMatches' = Over(matches, pathMatches)
          /\ pc' = "handler"
     ELSE pc' = "next" /\ UNCHANGED pathMatches
  /\ UNCHANGED <<entries, routes, req, scanVars, result, fault>>

\* deal() calls the handler.
Call ==
  /\ At("handler")
  /\ result' = <<key, req.method>>
  /\ pc' = "answered"
  /\ UNCHANGED <<entries, routes, req, scanVars, pathMatches, fault>>
-----------------------------------------------------------------------------
Match == \/ NextEntry \/ NoHandler
         \/ Star \/ MatchField \/ Literal \/ EndScan
         \/ Call

RouterNext == \/ \E p \in Patterns, m \in Methods : Route(p, m)
              \/ Serve
              \/ \E path \in Paths, m \in Methods : Deal(path, m)
              \/ Match

RouterSpec == RouterInit /\ [][RouterNext]_routerVars /\ WF_routerVars(Match)
-----------------------------------------------------------------------------
(* The reference.                                                          *)

\* Where "/" cuts s: first before it, then at each "/", at last behind it.
Cuts(s) ==
  LET cut[n \in 0..(Len(s) + 1)] ==
        IF n = 0 THEN 0 ELSE FirstAt(s, cut[n - 1] + 1, "/")
  IN cut

\* The number of segments, the segments, and all of s from one of them on.
Count(s) == CHOOSE n \in 1..(Len(s) + 1) :
              Cuts(s)[n - 1] <= Len(s) /\ Cuts(s)[n] = Len(s) + 1

Segment(s, n)   == SubSeq(s, Cuts(s)[n - 1] + 1, Cuts(s)[n] - 1)
FromThere(s, n) == SubSeq(s, Cuts(s)[n - 1] + 1, Len(s))

Starts(segment, c) == segment # <<>> /\ segment[1] = c
IsField(p, n) == n > 1 /\ \E c \in {":", "{"} : Starts(Segment(p, n), c)
IsStar(p, n)  == n > 1 /\ Starts(Segment(p, n), "*")

Fits(p, path, n) == IsField(p, n) \/ Segment(p, n) = Segment(path, n)

\* The place of the first "*" segment, behind the end if there is none.
StarAt(p) ==
  LET at == {n \in 1..Count(p) : IsStar(p, n)}
  IN IF at = {} THEN Count(p) + 1 ELSE CHOOSE n \in at : \A j \in at : n <= j

\* Pattern and path agree up to the "*", if there is one, or to their ends.
Leads(p, path) ==
  /\ IF StarAt(p) > Count(p) THEN Count(path) = Count(p)
                             ELSE Count(path) >= StarAt(p)
  /\ \A n \in 1..(StarAt(p) - 1) : Fits(p, path, n)

Matching(p, path) == Leads(p, path) /\ StarAt(p) >= Count(p)

\* A "*" segment with more behind it than a single "/".
Misused(p) ==
  /\ StarAt(p) < Count(p)
  /\ StarAt(p) + 1 < Count(p) \/ Segment(p, Count(p)) # <<>>

\* The segments that capture, and the values: one segment, or all that is left.
Capturing(p) == {n \in 1..Count(p) : IsStar(p, n) \/ IsField(p, n)}

ValueOf(p, path, n) ==
  IF IsStar(p, n) THEN FromThere(path, n) ELSE Segment(path, n)

\* The names by src/readme.md, "res" for "*res" and "param" for ":param", and by
\* the comment in match(), "param" for "{param}".
Documented(p, n) ==
  LET s == Segment(p, n)
  IN IF Starts(s, "{") /\ s[Len(s)] = "}" THEN SubSeq(s, 2, Len(s) - 1)
                                          ELSE Tail(s)

Right(p) == /\ p \in DOMAIN entries /\ Matching(p, Path)
            /\ req.method \in entries[p]
-----------------------------------------------------------------------------
(* Properties.                                                             *)

\* The handler of an entry sees its captures and nothing else, each under the
\* name it is documented to have or under that with its marker, as long as no
\* later one may have the same.  Which of the two is left open here.
Names(p, n) == {Documented(p, n), Segment(p, n)}

IsCapture(x, n) == x \in Names(key, n) /\ pathMatches[x] = ValueOf(key, Path, n)

SeesCaptures ==
  /\ \A x \in DOMAIN pathMatches : \E n \in Capturing(key) : IsCapture(x, n)
  /\ \A n \in Capturing(key) :
       \/ \E j \in Capturing(key) : j > n /\ Names(key, j) \cap Names(key, n) # {}
       \/ \E x \in DOMAIN pathMatches : IsCapture(x, n)

\* The handler that gets a request is one whose path and method the segments
\* of the request agree with, and it sees the captures of that path and none
\* of the entries that were tried before, in whatever order they were.  And
\* 501 means that there is no handler: an entry of the right path with other
\* methods, or one that begins like the path, does not hide it.
HandlerIsRight ==
  /\ pc = "handler" \/ (pc = "answered" /\ result # NotImplemented) =>
       Right(key) /\ SeesCaptures
  /\ pc = "answered" /\ result = NotImplemented =>
       pathMatches = NoMatches /\ ~\E p \in DOMAIN entries : Right(p)

\* What src/readme.md says of ":param": the handler finds the value of the field
\* in path_matches under "param".  (match() stores it under ":param".)
CapturesAsDocumented ==
  pc = "answered" /\ result # NotImplemented =>
    \A n \in Capturing(key) : Documented(key, n) \in DOMAIN pathMatches

\* A request ends the process only through an entry that misuses "*" and that
\* the request reaches the "*" of; such an entry that it gets past never
\* serves it.
FatalIffMisused ==
  /\ fault = "match: * usage" => Misused(key) /\ Leads(key, Path)
  /\ At("next") => \A p \in DOMAIN entries \ todo :
                     ~(Misused(p) /\ Leads(p, Path))
=============================================================================
