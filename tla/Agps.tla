-------------------------------- MODULE Agps --------------------------------
(***************************************************************************)
(* Data connections for assisted GPS (gps/gnss/Agps.cpp).                  *)
(*                                                                         *)
(* The modem asks for a data link ("ATL") by connection handle.  One state *)
(* machine per network interface collects the handles as subscribers and   *)
(* asks the framework once for the connection that serves them all.  The   *)
(* framework (AGnss.cpp behind HIDL, or NativeAgpsHandler.cpp) answers     *)
(* later, through messages to the adapter's queue; it may also lose the    *)
(* connection.  On the way of a success the adapter may first look up the  *)
(* PDN type in the modem profile, which answers later still.               *)
(***************************************************************************)
EXTENDS Integers, Sequences, FiniteSets

CONSTANTS
    Handles,           \* connection handles of the modem
    RequestTypes,      \* the AGPS types the modem asks for
    UseEmergencyPdn,   \* USE_EMERGENCY_PDN_FOR_EMERGENCY_SUPL of gps.conf
    PdnLookup,         \* is libloc_api_wds.so there to look up the PDN type?
    ApnMayBeBad,       \* may the framework give an APN that is refused?
    MaxRestarts,       \* bound: modem restarts
    MaxLookups,        \* bound: PDN lookups under way on an interface
    MaxQueued          \* bound: commands and reports queued when a request comes

Types == {"SUPL", "SUPL_ES", "WWAN"}
Nifs == {"agnss", "internet"}

ASSUME AgpsAssumption ==
    /\ RequestTypes \subseteq Types
    /\ UseEmergencyPdn \in BOOLEAN /\ PdnLookup \in BOOLEAN /\ ApnMayBeBad \in BOOLEAN
    /\ MaxRestarts \in Nat /\ MaxLookups \in Nat /\ MaxQueued \in Nat

VARIABLES
    created,   \* the interfaces that have a state machine
    state,     \* mState of each state machine
    subs,      \* mSubscriberList: each handle's entry, if any, and its mIsInactive
    type,      \* mAgpsType of each state machine
    fw,        \* commands the framework has not answered yet
    conn,      \* the framework's connection: its type, or "down"
    lookups,   \* PDN type lookups under way
    inbox,     \* the adapter's message queue: reports about connections
    modem,     \* what the modem was told last about each handle
    restarts   \* number of modem restarts so far

vars == <<created, state, subs, type, fw, conn, lookups, inbox, modem, restarts>>
framework == <<conn, lookups, inbox, restarts>>

States == {"RELEASED", "PENDING", "ACQUIRED", "RELEASING"}
Entries == {"none", "active", "inactive"}
FrameworkCommands == [cmd : {"REQUEST", "RELEASE"}, type : Types]
Reports == [what : {"open", "failed", "closed", "pdn"}, nif : Nifs]

TypeOK ==
    /\ created \subseteq Nifs
    /\ state \in [Nifs -> States]
    /\ subs \in [Nifs -> [Handles -> Entries]]
    /\ type \in [Nifs -> Types]
    /\ fw \in [Nifs -> Seq(FrameworkCommands)]
    /\ conn \in [Nifs -> Types \cup {"down"}]
    /\ lookups \in [Nifs -> Nat]
    /\ inbox \in Seq(Reports)
    /\ modem \in [Handles -> {"idle", "asked", "open", "closing"}]
    /\ restarts \in Nat

-----------------------------------------------------------------------------
(* The state machine *)

Subscribers(n) == {h \in Handles : subs[n][h] # "none"}
Active(n) == {h \in Handles : subs[n][h] = "active"}
Inactive(n) == {h \in Handles : subs[n][h] = "inactive"}

\* getAgpsStateMachine, behind the rewriting of emergency requests in requestATL
EffectiveType(t) == IF t = "SUPL_ES" /\ ~UseEmergencyPdn THEN "SUPL" ELSE t
NifOf(t) == IF t = "WWAN" THEN "internet" ELSE "agnss"

transitionState(n, s) == state' = [state EXCEPT ![n] = s]

\* requestOrReleaseDataConn, with the type the state machine has in this step;
\* "q" are the commands the framework has in this step
requestOrReleaseDataConn(n, cmd, t, q) ==
    fw' = [q EXCEPT ![n] = Append(@, [cmd |-> cmd, type |-> t])]

\* Faulty variant: a handle that is in the list is added anew.
addSubscriberAgain(n, h) == subs' = [subs EXCEPT ![n][h] = "active"]

\* addSubscriber: a handle that is in the list already keeps its entry
addSubscriber(n, h) ==
    subs' = IF h \in Subscribers(n) THEN subs ELSE [subs EXCEPT ![n][h] = "active"]

\* notifyEventToSubscriber tells the modem: open, or closed or refused
Granted(hs) == [h \in Handles |-> IF h \in hs /\ modem[h] = "asked" THEN "open" ELSE modem[h]]
Ended(hs) == [h \in Handles |-> IF h \in hs THEN "idle" ELSE modem[h]]

processAgpsEventSubscribe(n, h, t) ==
    /\ addSubscriber(n, h)
    /\ \/ /\ state[n] = "RELEASED"
          /\ requestOrReleaseDataConn(n, "REQUEST", t, fw)
          /\ transitionState(n, "PENDING")
          /\ modem' = [modem EXCEPT ![h] = "asked"]
       \/ /\ state[n] \in {"PENDING", "RELEASING"}
          /\ modem' = [modem EXCEPT ![h] = "asked"]
          /\ UNCHANGED <<state, fw>>
       \/ /\ state[n] = "ACQUIRED"
          /\ modem' = [modem EXCEPT ![h] = "open"]
          /\ UNCHANGED <<state, fw>>

\* Every subscriber waits for the close (mWaitForCloseComplete), so it only
\* turns inactive; the last active one releases the connection.
processAgpsEventUnsubscribe(n, h) ==
    /\ subs' = [subs EXCEPT ![n][h] = "inactive"]
    /\ \/ /\ state[n] \in {"PENDING", "ACQUIRED"} /\ Active(n) \subseteq {h}
          /\ transitionState(n, "RELEASING")
          /\ requestOrReleaseDataConn(n, "RELEASE", type[n], fw)
       \/ /\ state[n] = "RELEASING" \/ ~(Active(n) \subseteq {h})
          /\ UNCHANGED <<state, fw>>

processAgpsEventGranted(n) ==
    /\ UNCHANGED <<subs, fw>>
    /\ \/ /\ state[n] = "PENDING"
          /\ transitionState(n, "ACQUIRED")
          /\ modem' = Granted(Active(n))
       \/ /\ state[n] # "PENDING"
          /\ UNCHANGED <<state, modem>>

\* Faulty variant: the subscribers are deleted and not told.
dropAllUntold(n, q) ==
    /\ transitionState(n, "RELEASED")
    /\ subs' = [subs EXCEPT ![n] = [h \in Handles |-> "none"]]
    /\ fw' = q /\ UNCHANGED modem

\* all subscribers are told and deleted
dropAll(n, q) ==
    /\ transitionState(n, "RELEASED")
    /\ modem' = Ended(Subscribers(n))
    /\ subs' = [subs EXCEPT ![n] = [h \in Handles |-> "none"]]
    /\ fw' = q

\* the list of an interface without its inactive subscribers
Remaining(n) == [h \in Handles |-> IF subs[n][h] = "inactive" THEN "none" ELSE subs[n][h]]

\* Faulty variant: the connection is not requested for active subscribers.
finishWithoutRequest(n, q) ==
    /\ modem' = Ended(Inactive(n)) /\ fw' = q
    /\ transitionState(n, IF Active(n) = {} THEN "RELEASED" ELSE "PENDING")
    /\ subs' = [subs EXCEPT ![n] = Remaining(n)]

\* RELEASED or DENIED while releasing: the inactive subscribers are told and
\* deleted; active ones arrived meanwhile and need the connection anew
finishRelease(n, q) ==
    /\ modem' = Ended(Inactive(n))
    /\ subs' = [subs EXCEPT ![n] = Remaining(n)]
    /\ \/ /\ Active(n) # {}
          /\ transitionState(n, "PENDING")
          /\ requestOrReleaseDataConn(n, "REQUEST", type[n], q)
       \/ /\ Active(n) = {}
          /\ transitionState(n, "RELEASED")
          /\ fw' = q

noop(q) == fw' = q /\ UNCHANGED <<state, subs, modem>>

\* Faulty variants: a forced release is ignored; a refusal is, while releasing.
releasedWhileReleasing(n, q) ==
    \/ state[n] = "RELEASING" /\ finishRelease(n, q)
    \/ state[n] # "RELEASING" /\ noop(q)
deniedWhilePending(n, q) ==
    \/ state[n] = "PENDING" /\ dropAll(n, q)
    \/ state[n] # "PENDING" /\ noop(q)

processAgpsEventReleased(n, q) ==
    \/ state[n] = "ACQUIRED" /\ dropAll(n, q)
    \/ state[n] = "RELEASING" /\ finishRelease(n, q)
    \/ state[n] \in {"RELEASED", "PENDING"} /\ noop(q)

processAgpsEventDenied(n, q) ==
    \/ state[n] = "PENDING" /\ dropAll(n, q)
    \/ state[n] = "RELEASING" /\ finishRelease(n, q)
    \/ state[n] \in {"RELEASED", "ACQUIRED"} /\ noop(q)

-----------------------------------------------------------------------------
(* Messages of the modem *)

\* createAgpsStateMachines; the first for an interface counts
createAgpsStateMachines(n) ==
    /\ n \notin created
    /\ created' = created \cup {n}
    /\ UNCHANGED <<state, subs, type, fw, framework, modem>>

\* requestATL: the modem uses a handle anew when it was told of its end
requestATL(h, rt) ==
    LET t == EffectiveType(rt)
        n == NifOf(t)
    IN  /\ modem[h] = "idle" /\ Len(fw[n]) + Len(inbox) < MaxQueued
        /\ \/ /\ n \in created
              /\ type' = [type EXCEPT ![n] = t]
              /\ processAgpsEventSubscribe(n, h, t)
           \/ \* no state machine: the modem is told at once that it failed
              /\ n \notin created
              /\ UNCHANGED <<type, state, subs, fw, modem>>
        /\ UNCHANGED <<created, framework>>

\* releaseATL: the interface is found by the handle, the one for AGNSS first
releaseATL(h) ==
    /\ modem[h] \in {"asked", "open"}
    /\ modem' = [modem EXCEPT ![h] = "closing"]
    /\ \/ h \in Subscribers("agnss") /\ processAgpsEventUnsubscribe("agnss", h)
       \/ /\ h \notin Subscribers("agnss") /\ h \in Subscribers("internet")
          /\ processAgpsEventUnsubscribe("internet", h)
    /\ UNCHANGED <<created, type, framework>>

\* the modem restarts and forgets its handles; nothing calls handleModemSSR
modemRestart ==
    /\ restarts < MaxRestarts
    /\ restarts' = restarts + 1
    /\ modem' = [h \in Handles |-> "idle"]
    /\ UNCHANGED <<created, state, subs, type, fw, conn, lookups, inbox>>

-----------------------------------------------------------------------------
(* The framework (external), answering its commands in order *)

Report(what, n) == inbox' = Append(inbox, [what |-> what, nif |-> n])
NextCommand(n, cmd) == fw[n] # << >> /\ Head(fw[n]).cmd = cmd
Consumed(n) == [fw EXCEPT ![n] = Tail(@)]

\* dataConnOpenCommand
dataConnOpen(n) ==
    /\ NextCommand(n, "REQUEST")
    /\ fw' = Consumed(n)
    /\ conn' = [conn EXCEPT ![n] = Head(fw[n]).type]
    /\ Report("open", n)
    /\ UNCHANGED <<created, state, subs, type, lookups, modem, restarts>>

\* dataConnOpenCommand with an APN that fails the length check: the state
\* machine gets RELEASED on the caller's thread.  Pending, it does nothing;
\* releasing, it may send the next request.
dataConnBadApn(n) ==
    /\ ApnMayBeBad /\ NextCommand(n, "REQUEST")
    /\ conn' = [conn EXCEPT ![n] = Head(fw[n]).type]
    /\ processAgpsEventReleased(n, Consumed(n))
    /\ UNCHANGED <<created, type, lookups, inbox, restarts>>

\* dataConnFailedCommand
dataConnFailed(n) ==
    /\ NextCommand(n, "REQUEST")
    /\ fw' = Consumed(n)
    /\ Report("failed", n)
    /\ UNCHANGED <<created, state, subs, type, conn, lookups, modem, restarts>>

\* dataConnClosedCommand; without a connection the framework may stay silent
dataConnClosed(n) ==
    /\ NextCommand(n, "RELEASE")
    /\ fw' = Consumed(n)
    /\ conn' = [conn EXCEPT ![n] = "down"]
    /\ \/ Report("closed", n)
       \/ conn[n] = "down" /\ UNCHANGED inbox
    /\ UNCHANGED <<created, state, subs, type, lookups, modem, restarts>>

\* the network is lost
dataConnLost(n) ==
    /\ conn[n] # "down"
    /\ conn' = [conn EXCEPT ![n] = "down"]
    /\ Report("closed", n)
    /\ UNCHANGED <<created, state, subs, type, fw, lookups, modem, restarts>>

\* getPdnType of libloc_api_wds.so calls back: reportPdnTypeFromWds
reportPdnType(n) ==
    /\ lookups[n] > 0
    /\ lookups' = [lookups EXCEPT ![n] = @ - 1]
    /\ Report("pdn", n)
    /\ UNCHANGED <<created, state, subs, type, fw, conn, modem, restarts>>

-----------------------------------------------------------------------------
(* The adapter's message thread handles the head of its queue *)

Handle(what) ==
    /\ inbox # << >> /\ Head(inbox).what = what
    /\ inbox' = Tail(inbox)
    /\ UNCHANGED <<created, type, conn, restarts>>

\* AgpsMsgAtlOpenSuccess: the PDN type is looked up first if it can be
AtlOpenSuccess ==
    /\ Handle("open")
    /\ LET n == Head(inbox).nif
       IN  \/ /\ PdnLookup /\ lookups[n] < MaxLookups
              /\ lookups' = [lookups EXCEPT ![n] = @ + 1]
              /\ UNCHANGED <<state, subs, fw, modem>>
           \/ /\ ~PdnLookup
              /\ processAgpsEventGranted(n)
              /\ UNCHANGED lookups

ReportAtlPdn ==
    /\ Handle("pdn")
    /\ processAgpsEventGranted(Head(inbox).nif)
    /\ UNCHANGED lookups

AtlOpenFailed ==
    /\ Handle("failed")
    /\ processAgpsEventDenied(Head(inbox).nif, fw)
    /\ UNCHANGED lookups

AtlClosed ==
    /\ Handle("closed")
    /\ processAgpsEventReleased(Head(inbox).nif, fw)
    /\ UNCHANGED lookups

-----------------------------------------------------------------------------
Init ==
    /\ created = {}
    /\ state = [n \in Nifs |-> "RELEASED"]
    /\ subs = [n \in Nifs |-> [h \in Handles |-> "none"]]
    /\ type = [n \in Nifs |-> IF n = "internet" THEN "WWAN" ELSE "SUPL"]
    /\ fw = [n \in Nifs |-> << >>]
    /\ conn = [n \in Nifs |-> "down"]
    /\ lookups = [n \in Nifs |-> 0]
    /\ inbox = << >>
    /\ modem = [h \in Handles |-> "idle"]
    /\ restarts = 0

FrameworkAnswer(n) ==
    dataConnOpen(n) \/ dataConnBadApn(n) \/ dataConnFailed(n) \/ dataConnClosed(n)

HandleReport == AtlOpenSuccess \/ ReportAtlPdn \/ AtlOpenFailed \/ AtlClosed

Next ==
    \/ \E n \in Nifs : createAgpsStateMachines(n) \/ FrameworkAnswer(n)
                         \/ dataConnLost(n) \/ reportPdnType(n)
    \/ \E h \in Handles, t \in RequestTypes : requestATL(h, t)
    \/ \E h \in Handles : releaseATL(h)
    \/ modemRestart
    \/ HandleReport

\* The message thread runs; the framework answers every command, and the
\* lookup every question, as the code takes for granted.
Fairness ==
    /\ WF_vars(HandleReport)
    /\ \A n \in Nifs : WF_vars(FrameworkAnswer(n)) /\ WF_vars(reportPdnType(n))

Spec == Init /\ [][Next]_vars /\ Fairness

-----------------------------------------------------------------------------
(* Properties *)

\* The subscriber list and the state agree: the list is empty exactly in the
\* released state; while the connection is requested or held some subscriber
\* is active, and while it is being released one waits for the close.
SubscribersMatch(n) ==
    /\ state[n] = "RELEASED" <=> \A h \in Handles : subs[n][h] = "none"
    /\ state[n] \in {"PENDING", "ACQUIRED"} => \E h \in Handles : subs[n][h] = "active"
    /\ state[n] = "RELEASING" => \E h \in Handles : subs[n][h] = "inactive"

SubscribersMatchState == \A n \in Nifs : SubscribersMatch(n)

\* A handle the modem was told is open keeps its connection: some interface
\* holds it and counts the handle as active until the modem releases it or is
\* told of the end.  (A restarted modem uses its handles anew.)
OpenKeepsConnection ==
    restarts = 0 => \A h \in Handles : modem[h] = "open" =>
        \E n \in Nifs : state[n] = "ACQUIRED" /\ h \in Active(n)

\* A handle is subscribed on at most one interface, and only while the modem
\* has it in use, until the modem restarts.
SubscribersAreInUse ==
    restarts = 0 => \A h \in Handles :
        /\ modem[h] = "idle" => \A n \in Nifs : h \notin Subscribers(n)
        /\ ~(h \in Subscribers("agnss") /\ h \in Subscribers("internet"))

\* Once its reports are handled, an interface that counts its connection as
\* acquired has one ("We already have the data connection setup").
AcquiredIsConnected ==
    \A n \in Nifs : state[n] = "ACQUIRED" =>
        conn[n] # "down" \/ \E i \in DOMAIN inbox : inbox[i].nif = n

\* An interface that waits for the framework is waited for: a command, a
\* report or a lookup is still under way.
WaitingIsAnswered ==
    \A n \in Nifs : state[n] \in {"PENDING", "RELEASING"} =>
        \/ fw[n] # << >>
        \/ lookups[n] > 0
        \/ \E i \in DOMAIN inbox : inbox[i].nif = n

\* Every request of the modem is answered: the handle is opened, refused or,
\* should the modem release it first, closed.  A release comes to its end.
RequestsAnswered ==
    /\ \A h \in Handles : modem[h] = "asked" ~> modem[h] # "asked"
    /\ \A n \in Nifs : state[n] = "RELEASING" ~> state[n] # "RELEASING"

=============================================================================
