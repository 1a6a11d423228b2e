------------------------------ MODULE EventBus ------------------------------
(***************************************************************************)
(* The backend's consumers of Kafka topics: metering adds a usage tick to  *)
(* a counter, analytics adds to a metric, audit inserts a row. None of     *)
(* them looks whether it has handled an event before, each swallows an     *)
(* event it fails on, and offsets are committed some time after. A group   *)
(* that has committed nothing starts at the end of its topic               *)
(* (fromBeginning: false).                                                 *)
(*                                                                         *)
(* A topic is one partition, and an event its offset. The consumption      *)
(* processor, which moves money, is in WalletOps. The broker and the       *)
(* client library are external.                                            *)
(***************************************************************************)
EXTENDS Platform

CONSTANTS
    Groups,     \* consumer groups, each with its topic
    MaxLog      \* bound on the events of a topic

ASSUME BusAssumption == MaxLog \in Nat /\ None \notin Nat

VARIABLES
    log,        \* how many events each topic holds
    consumer,   \* the consumer of each group
    committed,  \* the offset each group has committed, None for none
    applied,    \* how often each event took effect (history)
    swallowed,  \* events a consumer failed on (history)
    missed,     \* events from before a group's first start, or lost with it (history)
    repeated,   \* events a consumer took up again (history)
    gfaults     \* faults so far

busVars == <<log, consumer, committed, applied, swallowed, missed, repeated, gfaults>>

-----------------------------------------------------------------------------
Offsets == 0..(MaxLog - 1)
Down == [up |-> FALSE, next |-> 0]

BusInit ==
    /\ log = [g \in Groups |-> 0]
    /\ consumer = [g \in Groups |-> Down]
    /\ committed = [g \in Groups |-> None]
    /\ applied = [g \in Groups |-> [e \in Offsets |-> 0]]
    /\ swallowed = [g \in Groups |-> {}]
    /\ missed = [g \in Groups |-> {}]
    /\ repeated = [g \in Groups |-> {}]
    /\ gfaults = 0

BusFault == gfaults < MaxFaults /\ gfaults' = gfaults + 1

\* sendEvent. One that fails is logged and forgotten: the topic never sees it.
SendEvent(g) ==
    /\ log[g] < MaxLog
    /\ log' = [log EXCEPT ![g] = @ + 1]
    /\ UNCHANGED <<consumer, committed, applied, swallowed, missed, repeated, gfaults>>

\* BROKEN: fromBeginning is taken for every start.
StartAtBeginning(g) == 0

StartAt(g) == IF committed[g] = None THEN log[g] ELSE committed[g]

\* createConsumer, subscribe, run: when the process starts, and when another one
\* takes the partition over.
RunConsumer(g) ==
    /\ ~consumer[g].up
    /\ consumer' = [consumer EXCEPT ![g] = [up |-> TRUE, next |-> StartAt(g)]]
    /\ IF committed[g] = None
       THEN /\ missed' = [missed EXCEPT ![g] = @ \cup {e \in Offsets : e < log[g]}]
            /\ UNCHANGED repeated
       ELSE /\ repeated' = [repeated EXCEPT ![g] =
                  @ \cup {e \in Offsets : committed[g] <= e /\ applied[g][e] > 0}]
            /\ UNCHANGED missed
    /\ UNCHANGED <<log, committed, applied, swallowed, gfaults>>

\* eachMessage: the event takes effect, or its error is caught and logged.
EachMessage(g) ==
    LET e == consumer[g].next IN
    /\ consumer[g].up /\ e < log[g]
    /\ consumer' = [consumer EXCEPT ![g].next = @ + 1]
    /\ \/ /\ applied' = [applied EXCEPT ![g][e] = @ + 1]
          /\ UNCHANGED <<swallowed, gfaults>>
       \/ /\ BusFault
          /\ swallowed' = [swallowed EXCEPT ![g] = @ \cup {e}]
          /\ UNCHANGED applied
    /\ UNCHANGED <<log, committed, missed, repeated>>

\* The events the handler has returned from.
Returned(g) == consumer[g].next

\* The library commits what was returned from, later and for several at a time.
CommitOffsets(g) ==
    /\ consumer[g].up /\ Returned(g) > 0 /\ Returned(g) <= log[g]
    /\ committed[g] # Returned(g)
    /\ committed' = [committed EXCEPT ![g] = Returned(g)]
    /\ UNCHANGED <<log, consumer, applied, swallowed, missed, repeated, gfaults>>

\* The process stops, or the group gives the partition to another one.
ConsumerStops(g) ==
    /\ consumer[g].up /\ BusFault
    /\ consumer' = [consumer EXCEPT ![g] = Down]
    /\ UNCHANGED <<log, committed, applied, swallowed, missed, repeated>>

BusNext ==
    \E g \in Groups :
        \/ SendEvent(g) \/ RunConsumer(g) \/ EachMessage(g)
        \/ CommitOffsets(g) \/ ConsumerStops(g)

BusSpec == BusInit /\ [][BusNext]_busVars

-----------------------------------------------------------------------------
BusTypeOK ==
    /\ log \in [Groups -> 0..MaxLog]
    /\ consumer \in [Groups -> [up : BOOLEAN, next : 0..MaxLog]]
    /\ committed \in [Groups -> 0..MaxLog \cup {None}]
    /\ applied \in [Groups -> [Offsets -> Nat]]
    /\ swallowed \in [Groups -> SUBSET Offsets]
    /\ missed \in [Groups -> SUBSET Offsets]
    /\ repeated \in [Groups -> SUBSET Offsets]
    /\ gfaults \in Nat

\* A tick is counted, a payment added and an audit row written once and in its
\* turn. An event takes effect again only if it came after the last committed
\* offset when a consumer stopped: it comes again, and nothing recognises it.
\* None is passed over: what a group has committed took effect, unless the
\* handler failed on it or it came before the group had committed anything.
TakesEffectOnce ==
    \A g \in Groups, e \in Offsets :
        /\ applied[g][e] > 1 => e \in repeated[g]
        /\ committed[g] # None /\ e < committed[g] =>
               applied[g][e] > 0 \/ e \in swallowed[g] \cup missed[g]
=============================================================================
