----------------------------- MODULE McpSessions -----------------------------
(***************************************************************************)
(* Sessions of the MCP endpoint over HTTP: the map of sessions, the tokens *)
(* they belong to, requests that wait for a session's lock, subscriptions  *)
(* to resources, and the one notification stream of a session, whose hints *)
(* are kept nowhere.  A resource is a history of events; that of a printer *)
(* may start again under another stream id (0 stands for none).            *)
(***************************************************************************)
EXTENDS Naturals, FiniteSets

CONSTANTS Sessions, NoSession,
          Tokens,          \* valid at first
          Exchanges,       \* HTTP requests being served
          Resources,
          MaxSessions,     \* sessions.len()
          MaxSubscriptions,
          PageSize,        \* events of one answer
          MaxHistory,      \* bound on the events of a resource
          MaxRestarts      \* bound on the stream ids of a resource

ASSUME SessionAssumption ==
  /\ NoSession \notin Sessions
  /\ {MaxSessions, MaxSubscriptions, PageSize} \subseteq Nat \ {0} /\ {MaxHistory, MaxRestarts} \subseteq Nat

VARIABLES
  valid,       \* tokens that still give access
  session,     \* Sessions -> its entry
  exchange,    \* Exchanges -> what it waits for
  resource,    \* Resources -> stream id and number of the last event
  listener     \* Sessions -> its GET stream: pending hints, what the client saw

sessionVars == <<valid, session, exchange, resource, listener>>

----------------------------------------------------------------------------
None == [state |-> "none", token |-> "none", ready |-> FALSE, cursors |-> [r \in {} |-> 0]]
Elsewhere == [pc |-> "idle", s |-> NoSession, token |-> "none"]
Origin == [stream |-> 0, after |-> 0]
Deaf == [open |-> FALSE, pending |-> {}, saw |-> [r \in Resources |-> Origin]]

SessionTypeOK ==
  /\ valid \subseteq Tokens
  /\ \A s \in Sessions :
       /\ session[s].state \in {"none", "open", "closed", "expired"}
       /\ DOMAIN session[s].cursors \subseteq Resources
       /\ Cardinality(DOMAIN session[s].cursors) <= MaxSubscriptions
       /\ listener[s].pending \subseteq Resources
  /\ Cardinality({s \in Sessions : session[s].state = "open"}) <= MaxSessions
  /\ resource \in [Resources -> [stream : 0..MaxRestarts, after : 0..MaxHistory]]

SessionInit ==
  /\ valid = Tokens
  /\ session = [s \in Sessions |-> None]
  /\ exchange = [x \in Exchanges |-> Elsewhere]
  /\ resource = [r \in Resources |-> Origin]
  /\ listener = [s \in Sessions |-> Deaf]

----------------------------------------------------------------------------
(* initialize: sessions that ended are dropped and one is added if there is room. *)
Open == {s \in Sessions : session[s].state = "open"}

Initialize(s, token) ==
  /\ token \in valid /\ session[s] = None
  /\ Cardinality(Open) < MaxSessions
  /\ session' = [session EXCEPT ![s].state = "open", ![s].token = token]
  /\ UNCHANGED <<valid, exchange, resource, listener>>

(* entry: a session of the map that was made for the same token. *)
FindSession(x, s, token) ==
  /\ exchange[x] = Elsewhere
  /\ token \in valid /\ s \in Open /\ session[s].token = token
  /\ exchange' = [exchange EXCEPT ![x] = [pc |-> "found", s |-> s, token |-> token]]
  /\ UNCHANGED <<valid, session, resource, listener>>

(* receive, under the session's lock: everything is looked at once more.   *)
MayHandle(x) == exchange[x].token \in valid /\ session[exchange[x].s].state = "open"

Handles(x) ==
  /\ exchange[x].pc = "found" /\ MayHandle(x)
  /\ exchange' = [exchange EXCEPT ![x] = Elsewhere]
  /\ UNCHANGED <<valid, resource, listener>>

Initialized(x) ==
  /\ Handles(x)
  /\ session' = [session EXCEPT ![exchange[x].s].ready = TRUE]

Ready(x) == session[exchange[x].s].ready
Cursors(x) == session[exchange[x].s].cursors

(* A subscription that is there keeps its cursor. *)
Subscribe(x, r) ==
  /\ Handles(x) /\ Ready(x)
  /\ r \in DOMAIN Cursors(x) \/ Cardinality(DOMAIN Cursors(x)) < MaxSubscriptions
  /\ session' = [session EXCEPT ![exchange[x].s].cursors =
       [q \in DOMAIN @ \cup {r} |-> IF q \in DOMAIN @ THEN @[q]
                                    ELSE [stream |-> resource[r].stream, after |-> 0]]]

Unsubscribe(x, r) ==
  /\ Handles(x) /\ Ready(x) /\ r \in DOMAIN Cursors(x)
  /\ session' = [session EXCEPT ![exchange[x].s].cursors = [q \in DOMAIN @ \ {r} |-> @[q]]]

(* Refused: no session any more, no credential any more, not ready, or one too many. *)
Refused(x) ==
  /\ exchange[x].pc = "found"
  /\ exchange' = [exchange EXCEPT ![x] = Elsewhere]
  /\ UNCHANGED <<valid, session, resource, listener>>

----------------------------------------------------------------------------
(* Variant of Rewound, hints taken for delivered. *)
CarriedOn(cursors) == cursors

(* listen: one stream at a time, and all cursors start over.  The printer's *)
(* stream id is forgotten with them.                                       *)
Rewound(cursors) == [r \in DOMAIN cursors |-> Origin]

Listen(x) ==
  LET s == exchange[x].s IN
  /\ exchange[x].pc = "found" /\ exchange[x].token \in valid /\ Ready(x)
  /\ ~listener[s].open
  /\ session' = [session EXCEPT ![s].cursors = Rewound(@)]
  /\ listener' = [listener EXCEPT ![s] = [Deaf EXCEPT !.open = TRUE]]
  /\ exchange' = [exchange EXCEPT ![x] = Elsewhere]
  /\ UNCHANGED <<valid, resource>>

StreamMayGoOn(s) ==
  listener[s].open /\ session[s].state = "open" /\ session[s].token \in valid

(* notifications: a page of the events behind the cursor, of all events    *)
(* under another stream id.  It ends later if the oldest were pruned.      *)
PagesAfter(r, cursor) ==
  LET start == IF resource[r].stream = cursor.stream THEN cursor.after ELSE 0
      end == IF start + PageSize < resource[r].after THEN start + PageSize ELSE resource[r].after IN
  {[stream |-> resource[r].stream, after |-> after] : after \in end..resource[r].after}

(* The cursor goes to the end of the page and the resource is hinted at if *)
(* that is a change, or if it was pruned or is back in the configuration   *)
(* (extra).  A resource that cannot be read stays as it is.  The hint that *)
(* a printer left the configuration names no events and is left out.       *)
PollSession(s) ==
  LET cursors == session[s].cursors IN
  /\ StreamMayGoOn(s) /\ listener[s].pending = {}
  /\ \E answered \in SUBSET DOMAIN cursors :
     \E extra \in SUBSET answered, next \in [answered -> UNION {PagesAfter(r, cursors[r]) : r \in answered}] :
       /\ \A r \in answered : next[r] \in PagesAfter(r, cursors[r])
       /\ session' = [session EXCEPT ![s].cursors =
            [r \in DOMAIN cursors |-> IF r \in answered THEN next[r] ELSE cursors[r]]]
       /\ listener' = [listener EXCEPT ![s].pending =
            extra \cup {r \in answered : next[r] # cursors[r]}]
  /\ UNCHANGED <<valid, exchange, resource>>

(* A hint is sent; the client reads the resource. *)
SendHint(s) ==
  /\ StreamMayGoOn(s)
  /\ \E r \in listener[s].pending :
       listener' = [listener EXCEPT ![s].pending = @ \ {r}, ![s].saw[r] = resource[r]]
  /\ UNCHANGED <<valid, session, exchange, resource>>

(* The stream ends, or breaks with the hints it had, and its permit is free. *)
EndListening(s) ==
  /\ listener[s].open
  /\ listener' = [listener EXCEPT ![s] = Deaf]
  /\ UNCHANGED <<valid, session, exchange, resource>>

----------------------------------------------------------------------------
Terminate(x) ==
  /\ exchange[x].pc = "found"
  /\ session' = [session EXCEPT ![exchange[x].s].state = "closed"]
  /\ exchange' = [exchange EXCEPT ![x] = Elsewhere]
  /\ UNCHANGED <<valid, resource, listener>>

SessionExpires(s) ==
  /\ s \in Open
  /\ session' = [session EXCEPT ![s].state = "expired"]
  /\ UNCHANGED <<valid, exchange, resource, listener>>

TokenEnds(token) ==
  /\ token \in valid /\ valid' = valid \ {token}
  /\ UNCHANGED <<session, exchange, resource, listener>>

(* An observer appends an event, and makes the row of a printer that is new. *)
Happens(r) ==
  /\ resource[r].after < MaxHistory
  /\ resource' = [resource EXCEPT ![r].after = @ + 1]
  /\ UNCHANGED <<valid, session, exchange, listener>>

StartsAgain(r) ==
  /\ resource[r].stream < MaxRestarts
  /\ resource' = [resource EXCEPT ![r] = [stream |-> @.stream + 1, after |-> 0]]
  /\ UNCHANGED <<valid, session, exchange, listener>>

SessionNext ==
  \/ \E s \in Sessions, token \in Tokens :
       \/ Initialize(s, token)
       \/ \E x \in Exchanges : FindSession(x, s, token)
  \/ \E x \in Exchanges : \/ Initialized(x) \/ Refused(x) \/ Listen(x) \/ Terminate(x)
                          \/ \E r \in Resources : Subscribe(x, r) \/ Unsubscribe(x, r)
  \/ \E s \in Sessions : \/ PollSession(s) \/ SendHint(s) \/ EndListening(s)
                         \/ SessionExpires(s)
  \/ \E token \in Tokens : TokenEnds(token)
  \/ \E r \in Resources : Happens(r) \/ StartsAgain(r)

SessionSpec == SessionInit /\ [][SessionNext]_sessionVars

----------------------------------------------------------------------------
(* http.rs listen and lib.rs notifications: hints are lost with a stream,  *)
(* but a client that listens has seen, or is about to be hinted at, all    *)
(* that the cursors of its subscriptions have passed.                      *)
NothingIsSkipped ==
  \A s \in Sessions : listener[s].open =>
    \A r \in DOMAIN session[s].cursors \ listener[s].pending :
      LET cursor == session[s].cursors[r]
          saw == listener[s].saw[r] IN
      cursor.after > 0 => \/ saw.stream = cursor.stream /\ saw.after >= cursor.after
                          \/ saw.stream > cursor.stream
=============================================================================
