---------------------------- MODULE EventHandler ----------------------------
(***************************************************************************)
(* The event handler of a node: the channels of its clients (event-handler/*)
(* event-channel-manager.js, event-channel.js), the filters they register, *)
(* the indexes of filters by type, transaction and path, and the timers of *)
(* filters on transactions that the node does not know (index.js).         *)
(*                                                                         *)
(* The web sockets and their clients are the environment: a client may     *)
(* send any message at any time, leave, or fall silent.                    *)
(***************************************************************************)
EXTENDS EventTree, FiniteSets

CONSTANTS
  Channel,              \* channels, by their ids
  ClientFilterId,       \* ids that clients give to filters
  Tx,                   \* transactions that filters wait for
  Reported,             \* the transaction states that are reported
  MaxChannels,          \* MAX_NUM_EVENT_CHANNELS
  MaxFilters,           \* MAX_NUM_EVENT_FILTERS
  MaxFiltersPerChannel, \* MAX_NUM_EVENT_FILTERS_PER_CHANNEL
  MaxRegistrations      \* bound of the registrations of all filters

EventType == {"BLOCK_FINALIZED", "VALUE_CHANGED", "TX_STATE_CHANGED"}
Config == ({"BLOCK_FINALIZED"} \X {"any"}) \cup ({"VALUE_CHANGED"} \X Pattern)
            \cup ({"TX_STATE_CHANGED"} \X Tx)
EndState == {"FINALIZED", "REVERTED", "FAILED", "TIMED_OUT"}
TxState  == EndState \cup {"EXECUTED", "PENDING", "IN_BLOCK"}

EventHandlerAssumption ==
  /\ PathsAreAssumed
  /\ Filter = Channel \X ClientFilterId
  /\ {MaxChannels, MaxFilters, MaxFiltersPerChannel, MaxRegistrations} \subseteq Nat
  /\ Reported \subseteq TxState

VARIABLES
  channels,   \* this.channels
  socket,     \* the web socket of every channel
  isAlive,    \* the flag of the heartbeat
  silent,     \* clients that have gone without closing
  filters,    \* eventFilters, each with the number of its registration
  filterIds,  \* the eventFilterIds of every channel
  channelOf,  \* the keys of filterIdToChannelId
  ofType,     \* eventTypeToEventFilterIds
  ofTx,       \* txHashToEventFilterIdSet
  callback,   \* eventFilterIdToTimeoutCallback: the registration it was set for
  timers,     \* the timeouts that run, each of a filter and its registration
  txState,    \* what the node knows of a transaction
  told,       \* the last thing that the client was told of a filter
  serial      \* registrations so far

handlerVars == <<channels, socket, isAlive, silent, filters, filterIds, channelOf, ofType,
                 ofTx, callback, timers, txState, told, serial>>
vars == <<treeVars, handlerVars>>

Init ==
  /\ InitTree
  /\ channels = {}
  /\ socket = [c \in Channel |-> "new"]
  /\ isAlive = [c \in Channel |-> TRUE]
  /\ silent = {}
  /\ filters = <<>>
  /\ filterIds = [c \in Channel |-> {}]
  /\ channelOf = {}
  /\ ofType = [e \in EventType |-> {}]
  /\ ofTx = [t \in Tx |-> {}]
  /\ callback = [f \in Filter |-> 0] /\ timers = {}
  /\ txState = [t \in Tx |-> "none"]
  /\ told = [f \in Filter |-> "none"]
  /\ serial = 0

-----------------------------------------------------------------------------
(* Channels.                                                               *)

\* handleConnection.  Beyond the limit the socket is terminated at once, before a
\* close handler is attached to it.
Connect(c) ==
  /\ socket[c] = "new"
  /\ IF Cardinality(channels) >= MaxChannels
     THEN socket' = [socket EXCEPT ![c] = "closed"] /\ UNCHANGED channels
     ELSE socket' = [socket EXCEPT ![c] = "open"] /\ channels' = channels \cup {c}
  /\ UNCHANGED <<treeVars, isAlive, silent, filters, filterIds, channelOf, ofType, ofTx,
                 callback, timers, txState, told, serial>>

CanSend(c) == socket[c] = "open" /\ c \notin silent

-----------------------------------------------------------------------------
(* Filters.                                                                *)

HasRoomFor(c) ==
  /\ Cardinality(DOMAIN filters) < MaxFilters
  /\ Cardinality(filterIds[c]) < MaxFiltersPerChannel

\* Mutants for the runs: the state of a known transaction is not sent; the
\* transaction is sent for its state; no timeout is set.
ToldLater(config) == "none"
ToldTx(config) == config[2]
TimersAsBefore(f, n) == timers

\* What the client of a new filter is told: the state of a known transaction.
ToldAtFirst(config) == IF config[1] = "TX_STATE_CHANGED" THEN txState[config[2]] ELSE "none"

\* setFilterDeletionTimeout
TimersWith(f, n) == (timers \ {<<f, callback[f]>>}) \cup {<<f, n>>}

(***************************************************************************)
(* handleRegisterFilterMessage and registerFilter.  A refused registration *)
(* is answered with an error and changes nothing, an existing filter of    *)
(* that id included.                                                       *)
(***************************************************************************)
Register(c, id, config) ==
  LET f == <<c, id>>
      n == serial + 1
  IN  /\ CanSend(c) /\ HasRoomFor(c)
      /\ f \notin DOMAIN filters
      /\ serial < MaxRegistrations /\ serial' = n
      /\ filters' = [g \in DOMAIN filters \cup {f} |->
                       IF g = f THEN [config |-> config, serial |-> n] ELSE filters[g]]
      /\ filterIds' = [filterIds EXCEPT ![c] = @ \cup {f}]
      /\ channelOf' = channelOf \cup {f}
      /\ ofType' = [ofType EXCEPT ![config[1]] = @ \cup {f}]
      /\ IF config[1] = "VALUE_CHANGED" THEN RegisterEventFilterId(f, config[2])
                                        ELSE UNCHANGED treeVars
      /\ IF config[1] = "TX_STATE_CHANGED"
         THEN /\ ofTx' = [ofTx EXCEPT ![config[2]] = @ \cup {f}]
              /\ IF txState[config[2]] = "none"
                 THEN /\ timers' = TimersWith(f, n)
                      /\ callback' = [callback EXCEPT ![f] = n]
                 ELSE UNCHANGED <<timers, callback>>
         ELSE UNCHANGED <<ofTx, timers, callback>>
      /\ told' = [told EXCEPT ![f] = ToldAtFirst(config)]
      /\ UNCHANGED <<channels, socket, isAlive, silent, txState>>

\* Mutants for the runs: the timers of removed filters run on; they stay in the
\* index of their transaction.
TimersAfterAll(S) == timers
OfTxAfterNone(S) == ofTx

\* deregisterEventFilter, of every filter of S: the timeout is cleared,
TimersAfter(S) == timers \ {<<f, callback[f]>> : f \in S}

\* and the index of its transaction forgets it.
OfTxAfter(S) == [t \in Tx |-> ofTx[t] \ S]

\* deregisterFilter of every filter of S.
Deregister(S) ==
  /\ filters' = Without(filters, S)
  /\ filterIds' = [c \in Channel |-> filterIds[c] \ S]
  /\ channelOf' = channelOf \ S
  /\ ofType' = [e \in EventType |-> ofType[e] \ S]
  /\ ofTx' = OfTxAfter(S)
  /\ timers' = TimersAfter(S)
  /\ callback' = [f \in Filter |-> IF f \in S THEN 0 ELSE callback[f]]
  /\ DeregisterEventFilterIds(S \cap DOMAIN parsed)

\* handleDeregisterFilterMessage.  FILTER_DELETED is sent for an unknown id too.
DeregisterByUser(c, id) ==
  /\ CanSend(c)
  /\ Deregister({<<c, id>>} \cap DOMAIN filters)
  /\ told' = [told EXCEPT ![<<c, id>>] = "deleted"]
  /\ UNCHANGED <<channels, socket, isAlive, silent, txState, serial>>

\* The timeout of setFilterDeletionTimeout.
FilterTimesOut(f, n) ==
  /\ <<f, n>> \in timers
  /\ Deregister({f} \cap DOMAIN filters)
  /\ told' = [told EXCEPT ![f] = "deleted"]
  /\ UNCHANGED <<channels, socket, isAlive, silent, txState, serial>>

-----------------------------------------------------------------------------
(* Events of the node.                                                     *)

Transmitted(S, what) ==
  [f \in Filter |-> IF f \in S /\ f \in channelOf /\ f[1] \in channels THEN what ELSE told[f]]

(***************************************************************************)
(* emitTxStateChanged.  A running timeout is cleared, though it stays in   *)
(* the map; with an end state the filters go.                              *)
(***************************************************************************)
EmitTxStateChanged(t, after) ==
  /\ after # txState[t]
  /\ txState' = [txState EXCEPT ![t] = after]
  /\ IF after \in EndState
     THEN /\ Deregister(ofTx[t])
          /\ told' = [f \in Filter |-> IF f \in ofTx[t] THEN "deleted" ELSE told[f]]
     ELSE /\ timers' = timers \ {<<f, callback[f]>> : f \in ofTx[t]}
          /\ told' = Transmitted(ofTx[t], after)
          /\ UNCHANGED <<treeVars, filters, filterIds, channelOf, ofType, ofTx, callback>>
  /\ UNCHANGED <<channels, socket, isAlive, silent, serial>>

EmitBlockFinalized ==
  /\ told' = Transmitted(ofType["BLOCK_FINALIZED"], "event")
  /\ UNCHANGED <<treeVars, channels, socket, isAlive, silent, filters, filterIds, channelOf,
                 ofType, ofTx, callback, timers, txState, serial>>

EmitValueChanged(v) ==
  /\ told' = Transmitted(MatchEventFilterPath(v), "event")
  /\ UNCHANGED <<treeVars, channels, socket, isAlive, silent, filters, filterIds, channelOf,
                 ofType, ofTx, callback, timers, txState, serial>>

-----------------------------------------------------------------------------
(* The end of channels.                                                    *)

\* A mutant for the runs: the filters of the channel are kept.
ForgetChannel(c, state) ==
  /\ channels' = channels \ {c}
  /\ socket' = [socket EXCEPT ![c] = state]
  /\ UNCHANGED <<treeVars, isAlive, silent, filters, filterIds, channelOf, ofType, ofTx,
                 callback, timers, txState, told, serial>>

\* closeChannel
CloseChannel(c, state) ==
  /\ Deregister(filterIds[c])
  /\ channels' = channels \ {c}
  /\ socket' = [socket EXCEPT ![c] = state]
  /\ told' = [f \in Filter |-> IF f \in filterIds[c] THEN "closed" ELSE told[f]]
  /\ UNCHANGED <<isAlive, silent, txState, serial>>

\* The socket reports its end, on which the channel is closed, again if need be.
SocketCloses(c) ==
  /\ socket[c] = "terminated" \/ CanSend(c)
  /\ CloseChannel(c, "closed")

\* startIdleCheck: the channel has been idle, or open, for too long.
IdleCheck(c) ==
  /\ c \in channels
  /\ CloseChannel(c, "terminated")

FallsSilent(c) ==
  /\ CanSend(c)
  /\ silent' = silent \cup {c}
  /\ UNCHANGED <<treeVars, channels, socket, isAlive, filters, filterIds, channelOf, ofType,
                 ofTx, callback, timers, txState, told, serial>>

\* A mutant for the runs: the flag is never lowered.
AliveAfterAll == isAlive

\* startHeartbeat: a socket that answered since the last ping is pinged again.
AliveAfterPing == [c \in Channel |-> isAlive[c] /\ socket[c] # "open"]

Heartbeat ==
  /\ \E c \in Channel : socket[c] = "open"
  /\ socket' = [c \in Channel |->
                  IF socket[c] = "open" /\ ~isAlive[c] THEN "terminated" ELSE socket[c]]
  /\ isAlive' = AliveAfterPing
  /\ UNCHANGED <<treeVars, channels, silent, filters, filterIds, channelOf, ofType, ofTx,
                 callback, timers, txState, told, serial>>

HandlePong(c) ==
  /\ CanSend(c) /\ ~isAlive[c]
  /\ isAlive' = [isAlive EXCEPT ![c] = TRUE]
  /\ UNCHANGED <<treeVars, channels, socket, silent, filters, filterIds, channelOf, ofType,
                 ofTx, callback, timers, txState, told, serial>>

Next ==
  \/ \E c \in Channel : \/ Connect(c) \/ SocketCloses(c) \/ IdleCheck(c)
                        \/ FallsSilent(c) \/ HandlePong(c)
  \/ \E c \in Channel, id \in ClientFilterId, config \in Config : Register(c, id, config)
  \/ \E c \in Channel, id \in ClientFilterId : DeregisterByUser(c, id)
  \/ \E f \in Filter, n \in 1 .. MaxRegistrations : FilterTimesOut(f, n)
  \/ \E t \in Tx, after \in Reported : EmitTxStateChanged(t, after)
  \/ EmitBlockFinalized
  \/ \E v \in ValuePath : EmitValueChanged(v)
  \/ Heartbeat

Spec == Init /\ [][Next]_vars

(***************************************************************************)
(* The intervals and timeouts of the event loop go off, and a terminated   *)
(* socket reports that it is closed.  Nothing is assumed of clients.       *)
(***************************************************************************)
Fairness ==
  /\ WF_vars(Heartbeat)
  /\ \A c \in Channel : WF_vars(socket[c] = "terminated" /\ SocketCloses(c))
  /\ \A f \in Filter, n \in 1 .. MaxRegistrations : WF_vars(FilterTimesOut(f, n))

FairSpec == Spec /\ Fairness

-----------------------------------------------------------------------------
TypeOK ==
  /\ channels \subseteq Channel /\ silent \subseteq Channel
  /\ socket \in [Channel -> {"new", "open", "terminated", "closed"}]
  /\ isAlive \in [Channel -> BOOLEAN]
  /\ DOMAIN filters \subseteq Filter
  /\ \A f \in DOMAIN filters : /\ filters[f].config \in Config
                                /\ filters[f].serial \in 1 .. MaxRegistrations
  /\ filterIds \in [Channel -> SUBSET Filter] /\ channelOf \subseteq Filter
  /\ ofType \in [EventType -> SUBSET Filter] /\ ofTx \in [Tx -> SUBSET Filter]
  /\ callback \in [Filter -> 0 .. MaxRegistrations]
  /\ timers \subseteq Filter \X (1 .. MaxRegistrations)
  /\ txState \in [Tx -> TxState \cup {"none"}]
  /\ told \in [Filter -> TxState \cup {"none", "event", "deleted", "closed"}]
  /\ serial \in 0 .. MaxRegistrations

With(e) == {f \in DOMAIN filters : filters[f].config[1] = e}

(***************************************************************************)
(* The six indexes of a filter are changed at six places                   *)
(* (createAndRegisterEventFilter, registerFilter, deregisterEventFilter,   *)
(* deregisterFilter) and agree after each of them.                         *)
(***************************************************************************)
IndexesAgree ==
  /\ channelOf = DOMAIN filters
  /\ \A c \in Channel : filterIds[c] = {f \in DOMAIN filters : f[1] = c}
  /\ \A e \in EventType : ofType[e] = With(e)
  /\ \A t \in Tx : ofTx[t] = {f \in With("TX_STATE_CHANGED") : filters[f].config[2] = t}
  /\ parsed = [f \in With("VALUE_CHANGED") |-> filters[f].config[2]]

(***************************************************************************)
(* A filter has a channel that the node holds, however channels end:       *)
(* getChannelByEventFilterId is dereferenced when a filter is removed      *)
(* (emitTxStateChanged, closeChannel, startIdleCheck).                     *)
(***************************************************************************)
FiltersHaveChannels == \A f \in DOMAIN filters : f[1] \in channels /\ socket[f[1]] # "closed"

(***************************************************************************)
(* A timeout only ever removes the registration it was set for, not a      *)
(* later filter of the same id (setFilterDeletionTimeout).                 *)
(***************************************************************************)
TimersAreCurrent ==
  \A f \in Filter, n \in 1 .. MaxRegistrations :
    <<f, n>> \in timers => f \in DOMAIN filters /\ filters[f].serial = n

(***************************************************************************)
(* A filter on a transaction either waits for it with a timeout, or its    *)
(* client was told the state that the transaction has now (registerFilter, *)
(* emitTxStateChanged).                                                    *)
(***************************************************************************)
ToldIsCurrent ==
  \A f \in With("TX_STATE_CHANGED") :
    LET t == filters[f].config[2]
    IN  /\ told[f] = txState[t]
        /\ txState[t] = "none" => <<f, filters[f].serial>> \in timers

\* The channel of a client that has fallen silent is closed in the end, and its
\* filters are gone (startHeartbeat).
SilentAreClosed ==
  \A c \in Channel : c \in silent ~> c \notin channels /\ filterIds[c] = {}

\* A filter on a transaction that never comes is removed (setFilterDeletionTimeout).
NothingWaitsForEver ==
  \A f \in Filter : f \in DOMAIN filters /\ told[f] = "none" /\ f \in With("TX_STATE_CHANGED")
                      ~> f \notin With("TX_STATE_CHANGED") \/ told[f] # "none"
=============================================================================
