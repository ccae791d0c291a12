----------------------------- MODULE EventFeeds -----------------------------
(***************************************************************************)
(* The durable log of events that the triggers of unified.rs number, and   *)
(* the server-sent event streams that read it a page at a time: a stream   *)
(* ends after its time or with its credential, what was sent on it may be  *)
(* lost with it, and the client comes back with the last id it received.   *)
(***************************************************************************)
EXTENDS Naturals, FiniteSets, Sequences, SequencesExt

CONSTANTS Followers,      \* clients that follow one pipeline or inspection
          PageLimit,      \* events of a page
          StreamPermits,  \* App.event_streams
          MaxEvents       \* bound on the log

ASSUME FeedAssumption == {PageLimit, StreamPermits} \subseteq Nat \ {0} /\ MaxEvents \in Nat

VARIABLES
  feed,         \* the log: is the event with this number one of the subject?
  imported,     \* numbers given to the history that was there before the log
  received,     \* Followers -> the numbers received, in order
  stream        \* Followers -> the connection: open, what it read, what it sent

feedVars == <<feed, imported, received, stream>>

NoStream == [open |-> FALSE, after |-> 0, events |-> <<>>, more |-> FALSE, sent |-> <<>>]

FeedTypeOK ==
  /\ feed \in Seq(BOOLEAN) /\ Len(feed) <= MaxEvents /\ imported \in 0..MaxEvents
  /\ \A f \in Followers : \A n \in DOMAIN received[f] : received[f][n] \in DOMAIN feed
  /\ \A f \in Followers : stream[f].open \in BOOLEAN /\ Len(stream[f].events) <= PageLimit

FeedInit ==
  /\ feed = <<>> /\ imported = 0
  /\ received = [f \in Followers |-> <<>>]
  /\ stream = [f \in Followers |-> NoStream]

(* unified_pipeline_events and inspection_events: the next page of the     *)
(* subject behind a cursor, and whether there is more.                     *)
Behind(after) == {n \in DOMAIN feed : feed[n] /\ n > after}
Ascends(q) == \A i, k \in DOMAIN q : i < k => q[i] < q[k]
InOrder(numbers) == CHOOSE q \in [1..Cardinality(numbers) -> numbers] : Ascends(q)
Page(after) ==
  LET rows == InOrder(Behind(after)) IN
  SubSeq(rows, 1, IF Len(rows) < PageLimit THEN Len(rows) ELSE PageLimit)
HasMore(after) == Cardinality(Behind(after)) > PageLimit

(* install: in the transaction that makes the triggers, and only the first *)
(* time, the events that are there already are numbered.                   *)
ImportHistory ==
  /\ feed = <<>> /\ imported = 0
  /\ \E old \in {<<TRUE>>, <<FALSE, TRUE>>} :
       Len(old) <= MaxEvents /\ feed' = old /\ imported' = Len(old)
  /\ UNCHANGED <<received, stream>>

(* A trigger numbers the event in the transaction that records it. *)
AppendEvent ==
  /\ Len(feed) < MaxEvents
  /\ \E mine \in BOOLEAN : feed' = Append(feed, mine)
  /\ UNCHANGED <<imported, received, stream>>

(* Variant of LastEventId, the header ignored. *)
CursorOfUrl(f) == 0

(* connect: Last-Event-ID goes before the cursor of the URL. *)
LastEventId(f) == IF received[f] = <<>> THEN 0 ELSE Last(received[f])

Connect(f) ==
  /\ ~stream[f].open /\ stream[f].sent = <<>>
  /\ Cardinality({g \in Followers : stream[g].open}) < StreamPermits
  /\ LET after == LastEventId(f) IN
     stream' = [stream EXCEPT ![f] = [open |-> TRUE, after |-> after, events |-> Page(after),
                                      more |-> HasMore(after), sent |-> <<>>]]
  /\ UNCHANGED <<feed, imported, received>>

SendEvent(f) ==
  /\ stream[f].open /\ stream[f].events # <<>>
  /\ stream' = [stream EXCEPT ![f].events = Tail(@), ![f].after = Head(stream[f].events),
                              ![f].sent = Append(@, Head(stream[f].events))]
  /\ UNCHANGED <<feed, imported, received>>

(* At once if there was more, else after a second. *)
ReadPage(f) ==
  /\ stream[f].open /\ stream[f].events = <<>>
  /\ LET after == stream[f].after IN
     stream' = [stream EXCEPT ![f].events = Page(after), ![f].more = HasMore(after)]
  /\ UNCHANGED <<feed, imported, received>>

ReceiveEvent(f) ==
  /\ stream[f].sent # <<>>
  /\ received' = [received EXCEPT ![f] = Append(@, Head(stream[f].sent))]
  /\ stream' = [stream EXCEPT ![f].sent = Tail(@)]
  /\ UNCHANGED <<feed, imported>>

(* stream-end, stream-error: what was sent before it still arrives. *)
EndStream(f) ==
  /\ stream[f].open
  /\ stream' = [stream EXCEPT ![f] = [NoStream EXCEPT !.sent = stream[f].sent]]
  /\ UNCHANGED <<feed, imported, received>>

(* The connection breaks, or the process dies. *)
BreakStream(f) ==
  /\ stream[f] # NoStream
  /\ stream' = [stream EXCEPT ![f] = NoStream]
  /\ UNCHANGED <<feed, imported, received>>

FeedNext ==
  \/ ImportHistory \/ AppendEvent
  \/ \E f \in Followers : \/ Connect(f) \/ SendEvent(f) \/ ReadPage(f) \/ ReceiveEvent(f)
                          \/ EndStream(f) \/ BreakStream(f)

FeedSpec == FeedInit /\ [][FeedNext]_feedVars

----------------------------------------------------------------------------
(* event_stream.rs connect: over any number of lost and renewed streams a  *)
(* client receives every event of its subject, each once, in the order of  *)
(* the log and without a gap.                                              *)
EachEventOnce ==
  \A f \in Followers :
    /\ Ascends(received[f])
    /\ \A i \in DOMAIN received[f] : received[f][i] \in Behind(0)
    /\ \A i \in DOMAIN received[f], n \in Behind(0) :
         n <= received[f][i] => \E k \in DOMAIN received[f] : received[f][k] = n
=============================================================================
