----------------------------- MODULE Agps_proofs -----------------------------
(***************************************************************************)
(* Proofs about the AGPS state machines, for any set of handles and any    *)
(* behaviour of the framework and the modem.                               *)
(***************************************************************************)
EXTENDS Agps, SequenceTheorems, TLAPS

\* the effective type is a type, and its interface an interface
LEMMA TypesAndNifs ==
    ASSUME NEW t \in Types
    PROVE  EffectiveType(t) \in Types /\ NifOf(t) \in Nifs
BY DEF EffectiveType, NifOf, Types, Nifs

\* one entry of a subscriber list replaced
LEMMA EntryReplaced ==
    ASSUME subs \in [Nifs -> [Handles -> Entries]],
           NEW n \in Nifs, NEW h \in Handles, NEW e \in Entries
    PROVE  /\ [subs EXCEPT ![n][h] = e] \in [Nifs -> [Handles -> Entries]]
           /\ \A m \in Nifs, k \in Handles :
                [subs EXCEPT ![n][h] = e][m][k] = IF m = n /\ k = h THEN e ELSE subs[m][k]
OBVIOUS

\* a command sent keeps the type of the command queues
LEMMA CommandSent ==
    ASSUME NEW q \in [Nifs -> Seq(FrameworkCommands)], NEW n \in Nifs,
           NEW cmd \in {"REQUEST", "RELEASE"}, NEW t \in Types,
           requestOrReleaseDataConn(n, cmd, t, q)
    PROVE  fw' \in [Nifs -> Seq(FrameworkCommands)]
<1>. DEFINE c == [cmd |-> cmd, type |-> t]
<1>1. c \in FrameworkCommands
  BY DEF FrameworkCommands
<1>2. Append(q[n], c) \in Seq(FrameworkCommands)
  BY <1>1, AppendProperties
<1>3. fw' = [q EXCEPT ![n] = Append(@, c)]
  BY DEF requestOrReleaseDataConn
<1>. HIDE DEF c
<1>. QED BY <1>2, <1>3

\* The variables that an event of a state machine may change.
EventTypes ==
    /\ state \in [Nifs -> States]
    /\ subs \in [Nifs -> [Handles -> Entries]]
    /\ fw \in [Nifs -> Seq(FrameworkCommands)]
    /\ modem \in [Handles -> {"idle", "asked", "open", "closing"}]

-----------------------------------------------------------------------------
(* What each event does, interface by interface and handle by handle.      *)

LEMMA SubscribeEffect ==
    ASSUME EventTypes, NEW n \in Nifs, NEW h \in Handles, NEW t \in Types,
           processAgpsEventSubscribe(n, h, t)
    PROVE  /\ EventTypes'
           /\ \A m \in Nifs : state'[m] =
                IF m = n /\ state[m] = "RELEASED" THEN "PENDING" ELSE state[m]
           /\ \A m \in Nifs, k \in Handles : subs'[m][k] =
                IF m = n /\ k = h /\ subs[m][k] = "none" THEN "active" ELSE subs[m][k]
           /\ \A k \in Handles : modem'[k] =
                IF k # h THEN modem[k] ELSE IF state[n] = "ACQUIRED" THEN "open" ELSE "asked"
<1>. USE DEF EventTypes
<1>1. state' \in [Nifs -> States]
  BY DEF processAgpsEventSubscribe, transitionState, States
<1>2. subs' \in [Nifs -> [Handles -> Entries]]
  <2>1. [subs EXCEPT ![n][h] = "active"] \in [Nifs -> [Handles -> Entries]]
    BY EntryReplaced DEF Entries
  <2>. QED
    BY <2>1 DEF processAgpsEventSubscribe, addSubscriber
<1>3. fw' \in [Nifs -> Seq(FrameworkCommands)]
  <2>1. fw' = fw \/ requestOrReleaseDataConn(n, "REQUEST", t, fw)
    BY DEF processAgpsEventSubscribe
  <2>. QED BY <2>1, CommandSent
<1>4. modem' \in [Handles -> {"idle", "asked", "open", "closing"}]
  BY DEF processAgpsEventSubscribe
<1>5. \A m \in Nifs, k \in Handles : subs'[m][k] =
        IF m = n /\ k = h /\ subs[m][k] = "none" THEN "active" ELSE subs[m][k]
  <2>1. "active" \in Entries
    BY DEF Entries
  <2>2. addSubscriber(n, h)
    BY DEF processAgpsEventSubscribe
  <2>. QED BY <2>1, <2>2, EntryReplaced DEF addSubscriber, Subscribers
<1>6. \A m \in Nifs : state'[m] =
        IF m = n /\ state[m] = "RELEASED" THEN "PENDING" ELSE state[m]
  BY DEF processAgpsEventSubscribe, transitionState
<1>7. \A k \in Handles : modem'[k] =
        IF k # h THEN modem[k] ELSE IF state[n] = "ACQUIRED" THEN "open" ELSE "asked"
  BY DEF processAgpsEventSubscribe
<1>. QED BY <1>1, <1>2, <1>3, <1>4, <1>5, <1>6, <1>7

\* the modem's part of releaseATL
ModemReleases(h) == modem' = [modem EXCEPT ![h] = "closing"]

LEMMA UnsubscribeEffect ==
    ASSUME EventTypes, type \in [Nifs -> Types], NEW n \in Nifs, NEW h \in Handles,
           ModemReleases(h),
           processAgpsEventUnsubscribe(n, h)
    PROVE  /\ EventTypes'
           /\ \A m \in Nifs : m # n => state'[m] = state[m]
           /\ \/ /\ state'[n] = "RELEASING"
                 /\ state[n] # "RELEASING" => \A k \in Handles : k # h => subs[n][k] # "active"
              \/ /\ state'[n] = state[n]
                 /\ \E k \in Handles : k # h /\ subs[n][k] = "active"
           /\ \A m \in Nifs, k \in Handles : subs'[m][k] =
                IF m = n /\ k = h THEN "inactive" ELSE subs[m][k]
           /\ \A k \in Handles : modem'[k] = IF k = h THEN "closing" ELSE modem[k]
<1>. USE DEF EventTypes
<1>1. state' \in [Nifs -> States]
  BY DEF processAgpsEventUnsubscribe, transitionState, States
<1>2. /\ subs' \in [Nifs -> [Handles -> Entries]]
      /\ \A m \in Nifs, k \in Handles : subs'[m][k] =
           IF m = n /\ k = h THEN "inactive" ELSE subs[m][k]
  <2>1. "inactive" \in Entries
    BY DEF Entries
  <2>. QED BY <2>1, EntryReplaced DEF processAgpsEventUnsubscribe
<1>3. fw' \in [Nifs -> Seq(FrameworkCommands)]
  <2>1. fw' = fw \/ requestOrReleaseDataConn(n, "RELEASE", type[n], fw)
    BY DEF processAgpsEventUnsubscribe
  <2>. QED BY <2>1, CommandSent
<1>4. /\ modem' \in [Handles -> {"idle", "asked", "open", "closing"}]
      /\ \A k \in Handles : modem'[k] = IF k = h THEN "closing" ELSE modem[k]
  BY DEF ModemReleases
<1>5. \A m \in Nifs : m # n => state'[m] = state[m]
  BY DEF processAgpsEventUnsubscribe, transitionState
<1>6. \/ /\ state'[n] = "RELEASING"
         /\ state[n] # "RELEASING" => \A k \in Handles : k # h => subs[n][k] # "active"
      \/ /\ state'[n] = state[n]
         /\ \E k \in Handles : k # h /\ subs[n][k] = "active"
  BY DEF processAgpsEventUnsubscribe, transitionState, Active
<1>. QED BY <1>1, <1>2, <1>3, <1>4, <1>5, <1>6

LEMMA GrantedEffect ==
    ASSUME EventTypes, NEW n \in Nifs, processAgpsEventGranted(n)
    PROVE  /\ EventTypes'
           /\ subs' = subs
           /\ \A m \in Nifs : state'[m] =
                IF m = n /\ state[m] = "PENDING" THEN "ACQUIRED" ELSE state[m]
           /\ \A k \in Handles : modem'[k] =
                IF state[n] = "PENDING" /\ subs[n][k] = "active" /\ modem[k] = "asked"
                THEN "open" ELSE modem[k]
<1>. USE DEF EventTypes, processAgpsEventGranted
<1>1. state' \in [Nifs -> States]
  BY DEF transitionState, States
<1>2. modem' \in [Handles -> {"idle", "asked", "open", "closing"}]
  BY DEF Granted
<1>3. \A m \in Nifs : state'[m] =
         IF m = n /\ state[m] = "PENDING" THEN "ACQUIRED" ELSE state[m]
  BY DEF transitionState
<1>4. \A k \in Handles : modem'[k] =
         IF state[n] = "PENDING" /\ subs[n][k] = "active" /\ modem[k] = "asked"
         THEN "open" ELSE modem[k]
  BY DEF Granted, Active
<1>. QED BY <1>1, <1>2, <1>3, <1>4

LEMMA DropAllEffect ==
    ASSUME EventTypes, NEW n \in Nifs, NEW q \in [Nifs -> Seq(FrameworkCommands)],
           dropAll(n, q)
    PROVE  /\ EventTypes'
           /\ \A m \in Nifs : state'[m] = IF m = n THEN "RELEASED" ELSE state[m]
           /\ \A m \in Nifs, k \in Handles : subs'[m][k] =
                IF m = n THEN "none" ELSE subs[m][k]
           /\ \A k \in Handles : modem'[k] =
                IF subs[n][k] # "none" THEN "idle" ELSE modem[k]
<1>. USE DEF EventTypes, dropAll
<1>1. /\ state' \in [Nifs -> States]
      /\ \A m \in Nifs : state'[m] = IF m = n THEN "RELEASED" ELSE state[m]
  BY DEF transitionState, States
<1>2. /\ subs' \in [Nifs -> [Handles -> Entries]]
      /\ \A m \in Nifs, k \in Handles : subs'[m][k] =
           IF m = n THEN "none" ELSE subs[m][k]
  BY DEF Entries
<1>3. /\ modem' \in [Handles -> {"idle", "asked", "open", "closing"}]
      /\ \A k \in Handles : modem'[k] =
           IF subs[n][k] # "none" THEN "idle" ELSE modem[k]
  BY DEF Ended, Subscribers
<1>. QED BY <1>1, <1>2, <1>3

LEMMA FinishReleaseEffect ==
    ASSUME EventTypes, type \in [Nifs -> Types], NEW n \in Nifs,
           NEW q \in [Nifs -> Seq(FrameworkCommands)], finishRelease(n, q)
    PROVE  /\ EventTypes'
           /\ \A m \in Nifs : m # n => state'[m] = state[m]
           /\ \/ state'[n] = "PENDING" /\ \E k \in Handles : subs[n][k] = "active"
              \/ state'[n] = "RELEASED" /\ \A k \in Handles : subs[n][k] # "active"
           /\ \A m \in Nifs, k \in Handles : subs'[m][k] =
                IF m = n /\ subs[m][k] = "inactive" THEN "none" ELSE subs[m][k]
           /\ \A k \in Handles : modem'[k] =
                IF subs[n][k] = "inactive" THEN "idle" ELSE modem[k]
<1>. USE DEF EventTypes, finishRelease, Remaining
<1>1. /\ state' \in [Nifs -> States]
      /\ \A m \in Nifs : m # n => state'[m] = state[m]
  BY DEF transitionState, States
<1>2. \/ state'[n] = "PENDING" /\ \E k \in Handles : subs[n][k] = "active"
      \/ state'[n] = "RELEASED" /\ \A k \in Handles : subs[n][k] # "active"
  BY DEF transitionState, Active
<1>3. /\ subs' \in [Nifs -> [Handles -> Entries]]
      /\ \A m \in Nifs, k \in Handles : subs'[m][k] =
           IF m = n /\ subs[m][k] = "inactive" THEN "none" ELSE subs[m][k]
  BY DEF Entries
<1>4. fw' \in [Nifs -> Seq(FrameworkCommands)]
  <2>1. fw' = q \/ requestOrReleaseDataConn(n, "REQUEST", type[n], q)
    OBVIOUS
  <2>. QED BY <2>1, CommandSent
<1>5. /\ modem' \in [Handles -> {"idle", "asked", "open", "closing"}]
      /\ \A k \in Handles : modem'[k] =
           IF subs[n][k] = "inactive" THEN "idle" ELSE modem[k]
  BY DEF Ended, Inactive
<1>. QED BY <1>1, <1>2, <1>3, <1>4, <1>5

-----------------------------------------------------------------------------
(* The queues *)

LEMMA CommandConsumed ==
    ASSUME fw \in [Nifs -> Seq(FrameworkCommands)], NEW n \in Nifs, fw[n] # << >>
    PROVE  /\ Head(fw[n]).type \in Types
           /\ Consumed(n) \in [Nifs -> Seq(FrameworkCommands)]
<1>1. /\ Head(fw[n]) \in FrameworkCommands
      /\ Tail(fw[n]) \in Seq(FrameworkCommands)
  BY HeadTailProperties
<1>2. Consumed(n) \in [Nifs -> Seq(FrameworkCommands)]
  BY <1>1 DEF Consumed
<1>. QED BY <1>1, <1>2 DEF FrameworkCommands

LEMMA ReportSent ==
    ASSUME inbox \in Seq(Reports), NEW n \in Nifs,
           NEW what \in {"open", "failed", "closed", "pdn"}, Report(what, n)
    PROVE  inbox' \in Seq(Reports)
<1>1. [what |-> what, nif |-> n] \in Reports
  BY DEF Reports
<1>. QED BY <1>1, AppendProperties DEF Report

LEMMA ReportHandled ==
    ASSUME inbox \in Seq(Reports), inbox # << >>
    PROVE  Head(inbox).nif \in Nifs /\ Tail(inbox) \in Seq(Reports)
<1>1. Head(inbox) \in Reports /\ Tail(inbox) \in Seq(Reports)
  BY HeadTailProperties
<1>. QED BY <1>1 DEF Reports

-----------------------------------------------------------------------------
(* Every step is an event of one state machine, or changes none. *)

\* RELEASED and DENIED drop all subscribers, finish a release, or do nothing.
Ending(n, q) ==
    \/ state[n] \in {"PENDING", "ACQUIRED"} /\ dropAll(n, q)
    \/ state[n] = "RELEASING" /\ finishRelease(n, q)
    \/ noop(q)

EventStep ==
    \/ \E n \in Nifs, h \in Handles, t \in Types :
          modem[h] = "idle" /\ processAgpsEventSubscribe(n, h, t)
    \/ \E n \in Nifs, h \in Handles :
          /\ subs[n][h] # "none"
          /\ ModemReleases(h)
          /\ processAgpsEventUnsubscribe(n, h)
    \/ \E n \in Nifs : processAgpsEventGranted(n)
    \/ \E n \in Nifs, q \in [Nifs -> Seq(FrameworkCommands)] : Ending(n, q)
    \/ modemRestart

LEMMA StepIsEvent ==
    ASSUME TypeOK, AgpsAssumption, [Next]_vars
    PROVE  EventStep
<1>. USE DEF TypeOK, EventStep
<1>0. /\ fw \in [Nifs -> Seq(FrameworkCommands)]
      /\ "agnss" \in Nifs /\ "internet" \in Nifs
  BY DEF Nifs
<1>1. ASSUME UNCHANGED <<state, subs, modem>>, fw' \in [Nifs -> Seq(FrameworkCommands)]
      PROVE  EventStep
  BY <1>0, <1>1 DEF Ending, noop
<1>2. ASSUME NEW h \in Handles, NEW t \in RequestTypes, requestATL(h, t)
      PROVE  EventStep
  <2>1. EffectiveType(t) \in Types /\ NifOf(EffectiveType(t)) \in Nifs
    BY TypesAndNifs DEF AgpsAssumption
  <2>. QED BY <1>0, <1>1, <1>2, <2>1 DEF requestATL
<1>3. ASSUME NEW h \in Handles, releaseATL(h)
      PROVE  EventStep
  BY <1>0, <1>3 DEF releaseATL, Subscribers, ModemReleases
<1>4. ASSUME NEW n \in Nifs, FrameworkAnswer(n)
      PROVE  EventStep
  <2>1. fw[n] # << >> /\ Consumed(n) \in [Nifs -> Seq(FrameworkCommands)]
    BY <1>0, <1>4, CommandConsumed
    DEF FrameworkAnswer, dataConnOpen, dataConnBadApn, dataConnFailed, dataConnClosed, NextCommand
  <2>2. CASE dataConnBadApn(n)
    BY <2>1, <2>2 DEF dataConnBadApn, processAgpsEventReleased, Ending
  <2>3. CASE dataConnOpen(n) \/ dataConnFailed(n) \/ dataConnClosed(n)
    BY <1>1, <2>1, <2>3 DEF dataConnOpen, dataConnFailed, dataConnClosed
  <2>. QED BY <1>4, <2>2, <2>3 DEF FrameworkAnswer
<1>5. ASSUME HandleReport
      PROVE  EventStep
  <2>1. inbox # << >> /\ Head(inbox).nif \in Nifs
    BY <1>5, ReportHandled
    DEF HandleReport, AtlOpenSuccess, ReportAtlPdn, AtlOpenFailed, AtlClosed, Handle
  <2>2. CASE AtlOpenSuccess
    BY <1>0, <1>1, <2>1, <2>2 DEF AtlOpenSuccess
  <2>3. CASE ReportAtlPdn
    BY <2>1, <2>3 DEF ReportAtlPdn
  <2>4. CASE AtlOpenFailed
    BY <1>0, <2>1, <2>4 DEF AtlOpenFailed, processAgpsEventDenied, Ending
  <2>5. CASE AtlClosed
    BY <1>0, <2>1, <2>5 DEF AtlClosed, processAgpsEventReleased, Ending
  <2>. QED BY <1>5, <2>2, <2>3, <2>4, <2>5 DEF HandleReport
<1>6. ASSUME NEW n \in Nifs,
             createAgpsStateMachines(n) \/ dataConnLost(n) \/ reportPdnType(n)
      PROVE  EventStep
  BY <1>0, <1>1, <1>6 DEF createAgpsStateMachines, dataConnLost, reportPdnType
<1>7. CASE UNCHANGED vars
  BY <1>0, <1>1, <1>7 DEF vars
<1>. QED BY <1>2, <1>3, <1>4, <1>5, <1>6, <1>7 DEF Next

LEMMA EndingKeepsTypes ==
    ASSUME EventTypes, type \in [Nifs -> Types], NEW n \in Nifs,
           NEW q \in [Nifs -> Seq(FrameworkCommands)], Ending(n, q)
    PROVE  EventTypes'
BY DropAllEffect, FinishReleaseEffect DEF Ending, noop, EventTypes

LEMMA EventKeepsTypes ==
    ASSUME EventTypes, type \in [Nifs -> Types], EventStep
    PROVE  EventTypes'
<1>1. CASE modemRestart
  BY <1>1 DEF modemRestart, EventTypes
<1>. QED BY <1>1, SubscribeEffect, UnsubscribeEffect, GrantedEffect, EndingKeepsTypes
         DEF EventStep

-----------------------------------------------------------------------------
(* Type correctness *)

\* Every reachable state has its types, whatever the modem and the framework do.
THEOREM TypeCorrect == Spec => []TypeOK
<1>. USE AgpsAssumption
<1>1. Init => TypeOK
  BY DEF Init, TypeOK, Nifs, States, Types, Entries
<1>2. ASSUME TypeOK, [Next]_vars
      PROVE  TypeOK'
  <2>. USE <1>2
  <2>1. EventTypes'
    BY StepIsEvent, EventKeepsTypes DEF TypeOK, EventTypes
  <2>2. created' \subseteq Nifs /\ restarts' \in Nat
    BY DEF TypeOK, Next, vars, createAgpsStateMachines, requestATL, releaseATL, modemRestart,
           FrameworkAnswer, dataConnOpen, dataConnBadApn, dataConnFailed, dataConnClosed,
           dataConnLost, reportPdnType, HandleReport, AtlOpenSuccess, ReportAtlPdn,
           AtlOpenFailed, AtlClosed, Handle, framework
  <2>3. type' \in [Nifs -> Types]
    <3>1. ASSUME NEW h \in Handles, NEW t \in RequestTypes, requestATL(h, t)
          PROVE  type' \in [Nifs -> Types]
      <4>1. EffectiveType(t) \in Types
        BY TypesAndNifs DEF AgpsAssumption
      <4>. QED BY <3>1, <4>1 DEF TypeOK, requestATL
    <3>. QED BY <3>1
      DEF TypeOK, Next, vars, createAgpsStateMachines, releaseATL, modemRestart,
          FrameworkAnswer, dataConnOpen, dataConnBadApn, dataConnFailed, dataConnClosed,
          dataConnLost, reportPdnType, HandleReport, AtlOpenSuccess, ReportAtlPdn,
          AtlOpenFailed, AtlClosed, Handle, framework
  <2>4. conn' \in [Nifs -> Types \cup {"down"}]
    <3>1. ASSUME NEW n \in Nifs, FrameworkAnswer(n)
          PROVE  conn' \in [Nifs -> Types \cup {"down"}]
      BY <3>1, CommandConsumed
      DEF TypeOK, FrameworkAnswer, dataConnOpen, dataConnBadApn, dataConnFailed,
          dataConnClosed, NextCommand
    <3>. QED BY <3>1
      DEF TypeOK, Next, vars, createAgpsStateMachines, requestATL, releaseATL, modemRestart,
          dataConnLost, reportPdnType, HandleReport, AtlOpenSuccess, ReportAtlPdn,
          AtlOpenFailed, AtlClosed, Handle, framework
  <2>5. lookups' \in [Nifs -> Nat]
    <3>1. CASE HandleReport
      <4>1. Head(inbox).nif \in Nifs
        BY <3>1, ReportHandled
        DEF TypeOK, HandleReport, AtlOpenSuccess, ReportAtlPdn, AtlOpenFailed, AtlClosed, Handle
      <4>. QED BY <3>1, <4>1
        DEF TypeOK, HandleReport, AtlOpenSuccess, ReportAtlPdn, AtlOpenFailed, AtlClosed
    <3>2. ASSUME NEW n \in Nifs, reportPdnType(n)
          PROVE  lookups' \in [Nifs -> Nat]
      BY <3>2 DEF TypeOK, reportPdnType
    <3>. QED BY <3>1, <3>2
      DEF TypeOK, Next, vars, createAgpsStateMachines, requestATL, releaseATL, modemRestart,
          FrameworkAnswer, dataConnOpen, dataConnBadApn, dataConnFailed, dataConnClosed,
          dataConnLost, framework
  <2>6. inbox' \in Seq(Reports)
    <3>. inbox \in Seq(Reports)
      BY DEF TypeOK
    <3>1. CASE HandleReport
      BY <3>1, ReportHandled
      DEF HandleReport, AtlOpenSuccess, ReportAtlPdn, AtlOpenFailed, AtlClosed, Handle
    <3>2. ASSUME NEW n \in Nifs,
                 FrameworkAnswer(n) \/ dataConnLost(n) \/ reportPdnType(n)
          PROVE  inbox' \in Seq(Reports)
      BY <3>2, ReportSent
      DEF FrameworkAnswer, dataConnOpen, dataConnBadApn, dataConnFailed, dataConnClosed,
          dataConnLost, reportPdnType
    <3>. QED BY <3>1, <3>2
      DEF Next, vars, createAgpsStateMachines, requestATL, releaseATL, modemRestart, framework
  <2>. QED BY <2>1, <2>2, <2>3, <2>4, <2>5, <2>6 DEF TypeOK, EventTypes
<1>. QED BY <1>1, <1>2, PTL DEF Spec

-----------------------------------------------------------------------------
(* The subscriber lists and the states agree *)

LEMMA EventKeepsMatch ==
    ASSUME EventTypes, type \in [Nifs -> Types], SubscribersMatchState, EventStep
    PROVE  SubscribersMatchState'
<1>. SUFFICES ASSUME NEW m \in Nifs PROVE SubscribersMatch(m)'
  BY DEF SubscribersMatchState
<1>0. SubscribersMatch(m)
  BY DEF SubscribersMatchState
<1>1. ASSUME NEW n \in Nifs, NEW h \in Handles, NEW t \in Types,
             processAgpsEventSubscribe(n, h, t)
      PROVE  SubscribersMatch(m)'
  <2>1. /\ state'[m] = IF m = n /\ state[m] = "RELEASED" THEN "PENDING" ELSE state[m]
        /\ \A k \in Handles : subs'[m][k] =
             IF m = n /\ k = h /\ subs[m][k] = "none" THEN "active" ELSE subs[m][k]
    BY <1>1, SubscribeEffect
  <2>. QED BY <1>0, <2>1 DEF SubscribersMatch
<1>2. ASSUME NEW n \in Nifs, NEW h \in Handles, subs[n][h] # "none",
             ModemReleases(h),
             processAgpsEventUnsubscribe(n, h)
      PROVE  SubscribersMatch(m)'
  <2>1. /\ \A i \in Nifs : i # n => state'[i] = state[i]
        /\ \/ /\ state'[n] = "RELEASING"
              /\ state[n] # "RELEASING" => \A k \in Handles : k # h => subs[n][k] # "active"
           \/ /\ state'[n] = state[n]
              /\ \E k \in Handles : k # h /\ subs[n][k] = "active"
        /\ \A i \in Nifs, k \in Handles : subs'[i][k] =
             IF i = n /\ k = h THEN "inactive" ELSE subs[i][k]
    BY <1>2, UnsubscribeEffect
  <2>2. CASE m # n
    BY <1>0, <2>1, <2>2 DEF SubscribersMatch
  <2>3. CASE m = n
    BY <1>0, <1>2, <2>1, <2>3 DEF SubscribersMatch
  <2>. QED BY <2>2, <2>3
<1>3. ASSUME NEW n \in Nifs, processAgpsEventGranted(n)
      PROVE  SubscribersMatch(m)'
  <2>1. /\ subs' = subs
        /\ state'[m] = IF m = n /\ state[m] = "PENDING" THEN "ACQUIRED" ELSE state[m]
    BY <1>3, GrantedEffect
  <2>. QED BY <1>0, <2>1 DEF SubscribersMatch
<1>4. ASSUME NEW n \in Nifs, NEW q \in [Nifs -> Seq(FrameworkCommands)], Ending(n, q)
      PROVE  SubscribersMatch(m)'
  <2>1. CASE dropAll(n, q)
    <3>1. /\ state'[m] = IF m = n THEN "RELEASED" ELSE state[m]
          /\ \A k \in Handles : subs'[m][k] = IF m = n THEN "none" ELSE subs[m][k]
      BY <2>1, DropAllEffect
    <3>. QED BY <1>0, <3>1 DEF SubscribersMatch
  <2>2. CASE finishRelease(n, q)
    <3>1. /\ m # n => state'[m] = state[m]
          /\ \/ state'[n] = "PENDING" /\ \E k \in Handles : subs[n][k] = "active"
             \/ state'[n] = "RELEASED" /\ \A k \in Handles : subs[n][k] # "active"
          /\ \A k \in Handles : subs'[m][k] =
               IF m = n /\ subs[m][k] = "inactive" THEN "none" ELSE subs[m][k]
      BY <2>2, FinishReleaseEffect
    <3>2. \A k \in Handles : subs[m][k] \in {"none", "active", "inactive"}
      BY DEF EventTypes, Entries
    <3>. QED BY <1>0, <3>1, <3>2 DEF SubscribersMatch
  <2>3. CASE noop(q)
    BY <1>0, <2>3 DEF noop, SubscribersMatch
  <2>. QED BY <1>4, <2>1, <2>2, <2>3 DEF Ending
<1>5. CASE modemRestart
  BY <1>0, <1>5 DEF modemRestart, SubscribersMatch
<1>. QED BY <1>1, <1>2, <1>3, <1>4, <1>5 DEF EventStep

\* The subscriber lists and the states agree in every reachable state.
THEOREM ListsMatchStates == Spec => []SubscribersMatchState
<1>. USE AgpsAssumption
<1>1. Init => SubscribersMatchState
  BY DEF Init, SubscribersMatchState, SubscribersMatch
<1>2. ASSUME TypeOK, SubscribersMatchState, [Next]_vars
      PROVE  SubscribersMatchState'
  BY <1>2, StepIsEvent, EventKeepsMatch DEF TypeOK, EventTypes
<1>. QED BY <1>1, <1>2, TypeCorrect, PTL DEF Spec

-----------------------------------------------------------------------------
(* The modem's view, while it does not restart *)

\* What the modem was told of a handle is what the state machines hold of it:
\* the inductive form of OpenKeepsConnection and SubscribersAreInUse.
View(h) ==
    /\ modem[h] = "idle" => \A n \in Nifs : subs[n][h] = "none"
    /\ modem[h] = "asked" => \E n \in Nifs :
            subs[n][h] = "active" /\ state[n] \in {"PENDING", "RELEASING"}
    /\ modem[h] = "open" => \E n \in Nifs : subs[n][h] = "active" /\ state[n] = "ACQUIRED"
    /\ modem[h] = "closing" => \E n \in Nifs : subs[n][h] = "inactive"
    /\ \A m, n \in Nifs : m # n => subs[m][h] = "none" \/ subs[n][h] = "none"

Views == \A h \in Handles : View(h)

LEMMA EventKeepsViews ==
    ASSUME EventTypes, type \in [Nifs -> Types], SubscribersMatchState, Views,
           EventStep, ~modemRestart
    PROVE  Views'
<1>. SUFFICES ASSUME NEW k \in Handles PROVE View(k)'
  BY DEF Views
<1>0. /\ View(k)
      /\ \A n \in Nifs : SubscribersMatch(n)
      /\ modem[k] \in {"idle", "asked", "open", "closing"}
      /\ \A n \in Nifs : subs[n][k] \in {"none", "active", "inactive"}
  BY DEF Views, SubscribersMatchState, EventTypes, Entries
<1>1. ASSUME NEW n \in Nifs, NEW h \in Handles, NEW t \in Types,
             modem[h] = "idle", processAgpsEventSubscribe(n, h, t)
      PROVE  View(k)'
  <2>1. /\ \A m \in Nifs : state'[m] =
             IF m = n /\ state[m] = "RELEASED" THEN "PENDING" ELSE state[m]
        /\ \A m \in Nifs : subs'[m][k] =
             IF m = n /\ k = h /\ subs[m][k] = "none" THEN "active" ELSE subs[m][k]
        /\ modem'[k] =
             IF k # h THEN modem[k] ELSE IF state[n] = "ACQUIRED" THEN "open" ELSE "asked"
    BY <1>1, SubscribeEffect
  <2>2. CASE k = h
    <3>1. \A m \in Nifs : subs[m][k] = "none"
      BY <1>0, <1>1, <2>2 DEF View
    <3>2. state[n] \in {"RELEASED", "PENDING", "ACQUIRED", "RELEASING"}
      BY DEF EventTypes, States
    <3>. QED BY <2>1, <2>2, <3>1, <3>2 DEF View
  <2>3. CASE k # h
    <3>1. \A m \in Nifs : subs[m][k] = "active" => state'[m] = state[m]
      BY <1>0, <2>1 DEF SubscribersMatch
    <3>. QED BY <1>0, <2>1, <2>3, <3>1 DEF View
  <2>. QED BY <2>2, <2>3
<1>2. ASSUME NEW n \in Nifs, NEW h \in Handles, subs[n][h] # "none",
             ModemReleases(h),
             processAgpsEventUnsubscribe(n, h)
      PROVE  View(k)'
  <2>1. /\ \A i \in Nifs : i # n => state'[i] = state[i]
        /\ \/ /\ state'[n] = "RELEASING"
              /\ state[n] # "RELEASING" => \A i \in Handles : i # h => subs[n][i] # "active"
           \/ /\ state'[n] = state[n]
              /\ \E i \in Handles : i # h /\ subs[n][i] = "active"
        /\ \A i \in Nifs, j \in Handles : subs'[i][j] =
             IF i = n /\ j = h THEN "inactive" ELSE subs[i][j]
        /\ \A j \in Handles : modem'[j] = IF j = h THEN "closing" ELSE modem[j]
    BY <1>2, UnsubscribeEffect
  <2>2. CASE k = h
    BY <1>0, <1>2, <2>1, <2>2 DEF View
  <2>3. CASE k # h
    <3>1. /\ modem'[k] = modem[k]
          /\ \A m \in Nifs : subs'[m][k] = subs[m][k]
      BY <2>1, <2>3
    <3>2. \A m \in Nifs : subs[m][k] = "active" =>
            state'[m] = state[m] \/ state[m] = "RELEASING"
      BY <2>1, <2>3
    <3>3. \A m \in Nifs : state[m] = "RELEASING" => state'[m] = "RELEASING"
      BY <2>1
    <3>. QED BY <1>0, <3>1, <3>2, <3>3 DEF View
  <2>. QED BY <2>2, <2>3
<1>3. ASSUME NEW n \in Nifs, processAgpsEventGranted(n)
      PROVE  View(k)'
  <2>1. /\ subs' = subs
        /\ \A m \in Nifs : state'[m] =
             IF m = n /\ state[m] = "PENDING" THEN "ACQUIRED" ELSE state[m]
        /\ modem'[k] = IF state[n] = "PENDING" /\ subs[n][k] = "active" /\ modem[k] = "asked"
                       THEN "open" ELSE modem[k]
    BY <1>3, GrantedEffect
  <2>. QED BY <1>0, <2>1 DEF View
<1>4. ASSUME NEW n \in Nifs, NEW q \in [Nifs -> Seq(FrameworkCommands)],
             state[n] \in {"PENDING", "ACQUIRED"}, dropAll(n, q)
      PROVE  View(k)'
  <2>1. /\ \A m \in Nifs : state'[m] = IF m = n THEN "RELEASED" ELSE state[m]
        /\ \A m \in Nifs : subs'[m][k] = IF m = n THEN "none" ELSE subs[m][k]
        /\ modem'[k] = IF subs[n][k] # "none" THEN "idle" ELSE modem[k]
    BY <1>4, DropAllEffect
  <2>. QED BY <1>0, <2>1 DEF View
<1>5. ASSUME NEW n \in Nifs, NEW q \in [Nifs -> Seq(FrameworkCommands)],
             state[n] = "RELEASING", finishRelease(n, q)
      PROVE  View(k)'
  <2>1. /\ \A m \in Nifs : m # n => state'[m] = state[m]
        /\ \/ state'[n] = "PENDING"
           \/ state'[n] = "RELEASED" /\ \A j \in Handles : subs[n][j] # "active"
        /\ \A m \in Nifs : subs'[m][k] =
             IF m = n /\ subs[m][k] = "inactive" THEN "none" ELSE subs[m][k]
        /\ modem'[k] = IF subs[n][k] = "inactive" THEN "idle" ELSE modem[k]
    BY <1>5, FinishReleaseEffect
  <2>2. CASE subs[n][k] = "inactive"
    BY <1>0, <2>1, <2>2 DEF View
  <2>3. CASE subs[n][k] # "inactive"
    BY <1>0, <1>5, <2>1, <2>3 DEF View
  <2>. QED BY <2>2, <2>3
<1>6. ASSUME NEW q \in [Nifs -> Seq(FrameworkCommands)], noop(q)
      PROVE  View(k)'
  BY <1>0, <1>6 DEF noop, View
<1>. QED BY <1>1, <1>2, <1>3, <1>4, <1>5, <1>6 DEF EventStep, Ending

\* Only a restart of the modem is counted.
LEMMA RestartsAreCounted ==
    ASSUME [Next]_vars
    PROVE  modemRestart \/ restarts' = restarts
<1>1. ASSUME NEW n \in Nifs, FrameworkAnswer(n)
      PROVE  restarts' = restarts
  BY <1>1 DEF FrameworkAnswer, dataConnOpen, dataConnBadApn, dataConnFailed, dataConnClosed
<1>2. ASSUME HandleReport
      PROVE  restarts' = restarts
  BY <1>2 DEF HandleReport, AtlOpenSuccess, ReportAtlPdn, AtlOpenFailed, AtlClosed, Handle
<1>3. ASSUME NEW h \in Handles, NEW t \in RequestTypes, requestATL(h, t)
      PROVE  restarts' = restarts
  BY <1>3 DEF requestATL, framework
<1>6. ASSUME NEW h \in Handles, releaseATL(h)
      PROVE  restarts' = restarts
  BY <1>6 DEF releaseATL, framework
<1>4. ASSUME NEW n \in Nifs, createAgpsStateMachines(n) \/ dataConnLost(n) \/ reportPdnType(n)
      PROVE  restarts' = restarts
  BY <1>4 DEF createAgpsStateMachines, dataConnLost, reportPdnType, framework
<1>5. CASE UNCHANGED vars
  BY <1>5 DEF vars
<1>. QED BY <1>1, <1>2, <1>3, <1>4, <1>5, <1>6 DEF Next

\* Until the modem restarts, a handle it was told is open keeps its
\* connection, and only handles in use are subscribed, on one interface each.
THEOREM OpenHandlesKeepTheirConnection ==
    Spec => [](OpenKeepsConnection /\ SubscribersAreInUse)
<1>. USE AgpsAssumption
<1>. DEFINE IInv == restarts = 0 => Views
<1>1. Init => IInv
  BY DEF Init, Views, View
<1>2. ASSUME TypeOK, SubscribersMatchState, IInv, [Next]_vars
      PROVE  IInv'
  <2>. SUFFICES ASSUME restarts' = 0 PROVE Views'
    OBVIOUS
  <2>1. restarts = 0 /\ ~modemRestart
    BY <1>2, RestartsAreCounted DEF TypeOK, modemRestart
  <2>. QED BY <1>2, <2>1, StepIsEvent, EventKeepsViews DEF TypeOK, EventTypes
<1>3. ASSUME IInv PROVE OpenKeepsConnection /\ SubscribersAreInUse
  BY <1>3 DEF Views, View, OpenKeepsConnection, SubscribersAreInUse, Subscribers, Active, Nifs
<1>. QED BY <1>1, <1>2, <1>3, TypeCorrect, ListsMatchStates, PTL DEF Spec

-----------------------------------------------------------------------------
(* The framework's connection, and the answers that are waited for *)

IsReport(i, what, n) == inbox[i] = [what |-> what, nif |-> n]
UnderWay(what, n) == \E i \in 1 .. Len(inbox) : IsReport(i, what, n)

\* A report that the connection is open is true, or that of its end follows.
OpenIsTrue(n) ==
    \A i \in 1 .. Len(inbox) : IsReport(i, "open", n) =>
        conn[n] # "down" \/ \E j \in i + 1 .. Len(inbox) : IsReport(j, "closed", n)
AcquiredIsOpen(n) == state[n] = "ACQUIRED" => conn[n] # "down" \/ UnderWay("closed", n)

LEMMA ReportIsLast ==
    ASSUME inbox \in Seq(Reports), NEW n \in Nifs,
           NEW what \in {"open", "failed", "closed", "pdn"}, Report(what, n)
    PROVE  /\ Len(inbox) \in Nat /\ Len(inbox') = Len(inbox) + 1
           /\ \A i \in 1 .. Len(inbox) : inbox'[i] = inbox[i]
           /\ inbox'[Len(inbox) + 1] = [what |-> what, nif |-> n]
<1>. DEFINE r == [what |-> what, nif |-> n]
<1>1. r \in Reports
  BY DEF Reports
<1>2. inbox' = Append(inbox, r)
  BY DEF Report
<1>. HIDE DEF r
<1>3. /\ Len(inbox) \in Nat /\ Len(inbox') = Len(inbox) + 1
      /\ \A i \in 1 .. Len(inbox) : inbox'[i] = inbox[i]
      /\ inbox'[Len(inbox) + 1] = r
  BY <1>1, <1>2, AppendProperties, LenProperties
<1>. QED BY <1>3 DEF r

LEMMA SentIsUnderWay ==
    ASSUME inbox \in Seq(Reports), NEW n \in Nifs,
           NEW what \in {"open", "failed", "closed", "pdn"}, Report(what, n),
           NEW w \in {"open", "failed", "closed", "pdn"}, NEW m \in Nifs
    PROVE  UnderWay(w, m)' <=> UnderWay(w, m) \/ (w = what /\ m = n)
<1>1. /\ Len(inbox) \in Nat /\ Len(inbox') = Len(inbox) + 1
      /\ \A i \in 1 .. Len(inbox) : inbox'[i] = inbox[i]
      /\ inbox'[Len(inbox) + 1] = [what |-> what, nif |-> n]
  BY ReportIsLast
<1>2. [what |-> w, nif |-> m] = [what |-> what, nif |-> n] <=> w = what /\ m = n
  OBVIOUS
<1>. QED BY <1>1, <1>2 DEF UnderWay, IsReport

LEMMA HandledIsTaken ==
    ASSUME inbox \in Seq(Reports), inbox # << >>, inbox' = Tail(inbox)
    PROVE  /\ Len(inbox) \in Nat \ {0} /\ Len(inbox') = Len(inbox) - 1
           /\ Head(inbox) = inbox[1]
           /\ \A i \in 1 .. Len(inbox') : inbox'[i] = inbox[i + 1]
           /\ \A w, m : UnderWay(w, m) => UnderWay(w, m)' \/ IsReport(1, w, m)
<1>1. /\ Len(inbox) \in Nat \ {0} /\ Len(inbox') = Len(inbox) - 1
      /\ Head(inbox) = inbox[1]
      /\ \A i \in 1 .. Len(inbox') : inbox'[i] = inbox[i + 1]
  BY HeadTailProperties
<1>2. ASSUME NEW w, NEW m, UnderWay(w, m), ~IsReport(1, w, m)
      PROVE  UnderWay(w, m)'
  <2>1. PICK i \in 1 .. Len(inbox) : IsReport(i, w, m)
    BY <1>2 DEF UnderWay
  <2>2. i - 1 \in 1 .. Len(inbox') /\ (i - 1) + 1 = i
    BY <1>1, <1>2, <2>1
  <2>3. IsReport(i - 1, w, m)'
    BY <1>1, <2>1, <2>2 DEF IsReport
  <2>. QED BY <2>2, <2>3 DEF UnderWay
<1>. QED BY <1>1, <1>2

\* Who handles the head of the queue.
LEMMA HandledReport ==
    ASSUME inbox \in Seq(Reports), NEW what, Handle(what)
    PROVE  /\ inbox # << >> /\ inbox' = Tail(inbox)
           /\ Head(inbox).nif \in Nifs
           /\ inbox[1] = [what |-> what, nif |-> Head(inbox).nif]
           /\ conn' = conn /\ type' = type
<1>1. inbox # << >> /\ inbox' = Tail(inbox) /\ Head(inbox).what = what /\ conn' = conn /\ type' = type
  BY DEF Handle
<1>2. Head(inbox) \in Reports /\ Head(inbox) = inbox[1]
  BY <1>1, HeadTailProperties
<1>. QED BY <1>1, <1>2 DEF Reports

LEMMA EndingAcquiresNone ==
    ASSUME EventTypes, type \in [Nifs -> Types], NEW n \in Nifs,
           NEW q \in [Nifs -> Seq(FrameworkCommands)], Ending(n, q)
    PROVE  \A m \in Nifs : state'[m] = "ACQUIRED" => state[m] = "ACQUIRED"
<1>1. CASE dropAll(n, q)
  BY <1>1, DropAllEffect
<1>2. CASE finishRelease(n, q)
  <2>1. \A m \in Nifs : m # n => state'[m] = state[m]
    BY <1>2, FinishReleaseEffect
  <2>2. state'[n] \in {"PENDING", "RELEASED"}
    BY <1>2, FinishReleaseEffect
  <2>. QED BY <2>1, <2>2
<1>3. CASE noop(q)
  BY <1>3 DEF noop
<1>. QED BY <1>1, <1>2, <1>3 DEF Ending

\* The framework's part in it: what a step does to connection and reports.
LEMMA ReportKeepsConnected ==
    ASSUME TypeOK, NEW m \in Nifs, OpenIsTrue(m), AcquiredIsOpen(m), state' = state,
           NEW n \in Nifs, NEW what \in {"open", "failed", "closed", "pdn"}, Report(what, n),
           m # n => conn'[m] = conn[m],
           m = n /\ what = "open" => conn'[m] # "down",
           m = n /\ what # "open" => conn'[m] = conn[m] \/ what = "closed"
    PROVE  OpenIsTrue(m)' /\ AcquiredIsOpen(m)'
<1>1. /\ Len(inbox) \in Nat /\ Len(inbox') = Len(inbox) + 1
      /\ \A i \in 1 .. Len(inbox) : inbox'[i] = inbox[i]
      /\ inbox'[Len(inbox) + 1] = [what |-> what, nif |-> n]
  <2>1. inbox \in Seq(Reports)
    BY DEF TypeOK
  <2>. QED BY <2>1, ReportIsLast
<1>2. conn'[m] # "down" \/ conn'[m] = conn[m] \/ (m = n /\ what = "closed")
  OBVIOUS
<1>3. ASSUME NEW i \in 1 .. Len(inbox'), IsReport(i, "open", m)', conn'[m] = "down"
      PROVE  \E j \in i + 1 .. Len(inbox') : IsReport(j, "closed", m)'
  <2>1. CASE i \in 1 .. Len(inbox) /\ m = n /\ what = "closed"
    <3>1. Len(inbox) + 1 \in i + 1 .. Len(inbox')
      BY <1>1, <2>1
    <3>. QED BY <1>1, <2>1, <3>1 DEF IsReport
  <2>2. CASE i \in 1 .. Len(inbox) /\ conn[m] = "down"
    <3>1. PICK j \in i + 1 .. Len(inbox) : IsReport(j, "closed", m)
      BY <1>1, <1>3, <2>2 DEF OpenIsTrue, IsReport
    <3>2. j \in i + 1 .. Len(inbox') /\ IsReport(j, "closed", m)'
      BY <1>1, <2>2, <3>1 DEF IsReport
    <3>. QED BY <3>2
  <2>3. CASE i = Len(inbox) + 1
    <3>1. what = "open" /\ m = n
      BY <1>1, <1>3, <2>3 DEF IsReport
    <3>. QED BY <1>3, <3>1
  <2>. QED BY <1>1, <1>2, <1>3, <2>1, <2>2, <2>3
<1>4. UnderWay("closed", m)' <=> UnderWay("closed", m) \/ (what = "closed" /\ m = n)
  <2>1. inbox \in Seq(Reports)
    BY DEF TypeOK
  <2>. QED BY <2>1, SentIsUnderWay
<1>5. AcquiredIsOpen(m)'
  BY <1>2, <1>4 DEF AcquiredIsOpen
<1>. QED BY <1>3, <1>5 DEF OpenIsTrue

LEMMA HandlingKeepsConnected ==
    ASSUME TypeOK, NEW m \in Nifs, OpenIsTrue(m), AcquiredIsOpen(m), NEW what, Handle(what),
           Head(inbox).nif = m /\ what = "closed" => state'[m] # "ACQUIRED",
           state'[m] = "ACQUIRED" => state[m] = "ACQUIRED" \/ (Head(inbox).nif = m /\ what = "open")
    PROVE  OpenIsTrue(m)' /\ AcquiredIsOpen(m)'
<1>1. /\ inbox # << >> /\ inbox' = Tail(inbox) /\ conn' = conn
      /\ inbox[1] = [what |-> what, nif |-> Head(inbox).nif]
  BY HandledReport DEF TypeOK
<1>2. /\ Len(inbox) \in Nat \ {0} /\ Len(inbox') = Len(inbox) - 1
      /\ \A i \in 1 .. Len(inbox') : inbox'[i] = inbox[i + 1]
      /\ \A w, k : UnderWay(w, k) => UnderWay(w, k)' \/ IsReport(1, w, k)
  BY <1>1, HandledIsTaken DEF TypeOK
<1>3. ASSUME NEW i \in 1 .. Len(inbox'), IsReport(i, "open", m)', conn[m] = "down"
      PROVE  \E j \in i + 1 .. Len(inbox') : IsReport(j, "closed", m)'
  <2>1. i + 1 \in 1 .. Len(inbox) /\ IsReport(i + 1, "open", m)
    BY <1>2, <1>3 DEF IsReport
  <2>2. PICK j \in i + 2 .. Len(inbox) : IsReport(j, "closed", m)
    BY <1>3, <2>1 DEF OpenIsTrue
  <2>3. j - 1 \in i + 1 .. Len(inbox') /\ (j - 1) + 1 = j /\ j - 1 \in 1 .. Len(inbox')
    BY <1>2, <2>2
  <2>4. IsReport(j - 1, "closed", m)'
    BY <1>2, <2>2, <2>3 DEF IsReport
  <2>. QED BY <2>3, <2>4
<1>4. ASSUME state'[m] = "ACQUIRED", conn[m] = "down"
      PROVE  UnderWay("closed", m)'
  <2>1. ~IsReport(1, "closed", m)
    BY <1>1, <1>4 DEF IsReport
  <2>2. UnderWay("closed", m)
    <3>1. CASE state[m] = "ACQUIRED"
      BY <1>4, <3>1 DEF AcquiredIsOpen
    <3>2. CASE Head(inbox).nif = m /\ what = "open"
      BY <1>1, <1>2, <1>4, <3>2 DEF OpenIsTrue, IsReport, UnderWay
    <3>. QED BY <1>4, <3>1, <3>2
  <2>. QED BY <1>2, <2>1, <2>2
<1>. QED BY <1>1, <1>3, <1>4 DEF OpenIsTrue, AcquiredIsOpen

\* Without a lookup of the PDN type none is under way and none is answered.
NoLookup(n) == lookups[n] = 0 /\ ~UnderWay("pdn", n)
Connected(n) == OpenIsTrue(n) /\ AcquiredIsOpen(n) /\ NoLookup(n)

LEMMA HandlingKeepsNoLookup ==
    ASSUME TypeOK, ~PdnLookup, NEW m \in Nifs, NoLookup(m), HandleReport
    PROVE  NoLookup(m)'
<1>1. inbox # << >> /\ inbox' = Tail(inbox) /\ lookups' = lookups
  BY DEF HandleReport, AtlOpenSuccess, ReportAtlPdn, AtlOpenFailed, AtlClosed, Handle
<1>2. /\ Len(inbox) \in Nat \ {0} /\ Len(inbox') = Len(inbox) - 1
      /\ \A i \in 1 .. Len(inbox') : inbox'[i] = inbox[i + 1]
  BY <1>1, HandledIsTaken DEF TypeOK
<1>. QED BY <1>1, <1>2 DEF NoLookup, UnderWay, IsReport

LEMMA HandlingConnects ==
    ASSUME TypeOK, ~PdnLookup, NEW m \in Nifs, \A n \in Nifs : Connected(n), HandleReport
    PROVE  OpenIsTrue(m)' /\ AcquiredIsOpen(m)'
<1>. DEFINE n == Head(inbox).nif
<1>0. /\ OpenIsTrue(m) /\ AcquiredIsOpen(m)
      /\ EventTypes /\ type \in [Nifs -> Types] /\ fw \in [Nifs -> Seq(FrameworkCommands)]
      /\ inbox \in Seq(Reports)
  BY DEF Connected, TypeOK, EventTypes
<1>1. ASSUME NEW what, Handle(what)
      PROVE  n \in Nifs /\ inbox # << >> /\ inbox[1] = [what |-> what, nif |-> n]
  BY <1>0, <1>1, HandledReport
<1>2. CASE AtlOpenSuccess
  <2>1. Handle("open") /\ processAgpsEventGranted(n)
    BY <1>2 DEF AtlOpenSuccess
  <2>2. state'[m] = "ACQUIRED" => state[m] = "ACQUIRED" \/ n = m
    BY <1>0, <1>1, <2>1, GrantedEffect
  <2>. QED BY <1>0, <2>1, <2>2, HandlingKeepsConnected
<1>3. CASE ReportAtlPdn
  <2>1. Handle("pdn")
    BY <1>3 DEF ReportAtlPdn
  <2>2. Len(inbox) \in Nat \ {0} /\ IsReport(1, "pdn", n) /\ n \in Nifs
    BY <1>0, <1>1, <2>1, HeadTailProperties DEF IsReport
  <2>3. UnderWay("pdn", n)
    BY <2>2 DEF UnderWay
  <2>. QED BY <2>2, <2>3 DEF Connected, NoLookup
<1>4. CASE AtlOpenFailed
  <2>1. Handle("failed") /\ processAgpsEventDenied(n, fw)
    BY <1>4 DEF AtlOpenFailed
  <2>2. n \in Nifs /\ Ending(n, fw)
    BY <1>1, <2>1 DEF processAgpsEventDenied, Ending
  <2>3. state'[m] = "ACQUIRED" => state[m] = "ACQUIRED"
    BY <1>0, <2>2, EndingAcquiresNone
  <2>. QED BY <1>0, <2>1, <2>3, HandlingKeepsConnected
<1>5. CASE AtlClosed
  <2>1. Handle("closed") /\ processAgpsEventReleased(n, fw)
    BY <1>5 DEF AtlClosed
  <2>2. n \in Nifs /\ Ending(n, fw)
    BY <1>1, <2>1 DEF processAgpsEventReleased, Ending
  <2>3. state'[m] = "ACQUIRED" => state[m] = "ACQUIRED"
    BY <1>0, <2>2, EndingAcquiresNone
  <2>4. state'[n] # "ACQUIRED"
    <3>1. CASE state[n] = "ACQUIRED" /\ dropAll(n, fw)
      BY <1>0, <2>2, <3>1, DropAllEffect
    <3>2. CASE state[n] # "ACQUIRED"
      BY <1>0, <2>2, <3>2, EndingAcquiresNone
    <3>. QED BY <2>1, <3>1, <3>2 DEF processAgpsEventReleased
  <2>. QED BY <1>0, <2>1, <2>3, <2>4, HandlingKeepsConnected
<1>. QED BY <1>2, <1>3, <1>4, <1>5 DEF HandleReport

\* A report that leaves the state machines alone.
LEMMA ReportConnects ==
    ASSUME TypeOK, NEW m \in Nifs, Connected(m), state' = state, lookups' = lookups,
           NEW n \in Nifs, NEW what \in {"open", "failed", "closed"}, Report(what, n),
           m # n => conn'[m] = conn[m],
           m = n /\ what = "open" => conn'[m] # "down",
           m = n /\ what = "failed" => conn'[m] = conn[m]
    PROVE  Connected(m)'
<1>1. OpenIsTrue(m)' /\ AcquiredIsOpen(m)'
  BY ReportKeepsConnected DEF Connected
<1>2. inbox \in Seq(Reports) /\ ~UnderWay("pdn", m)
  BY DEF TypeOK, Connected, NoLookup
<1>3. ~UnderWay("pdn", m)'
  BY <1>2, SentIsUnderWay
<1>. QED BY <1>1, <1>3 DEF Connected, NoLookup

LEMMA StepConnects ==
    ASSUME TypeOK, AgpsAssumption, ~PdnLookup, \A n \in Nifs : Connected(n), [Next]_vars,
           NEW m \in Nifs
    PROVE  Connected(m)'
<1>0. /\ Connected(m) /\ \A n \in Nifs : lookups[n] = 0
      /\ EventTypes /\ type \in [Nifs -> Types] /\ fw \in [Nifs -> Seq(FrameworkCommands)]
      /\ inbox \in Seq(Reports) /\ conn \in [Nifs -> Types \cup {"down"}]
      /\ "agnss" \in Nifs /\ "internet" \in Nifs
  BY DEF Connected, NoLookup, TypeOK, EventTypes, Nifs
<1>1. ASSUME UNCHANGED <<inbox, lookups>>,
             conn'[m] = conn[m] \/ conn'[m] # "down",
             state'[m] = "ACQUIRED" => state[m] = "ACQUIRED"
      PROVE  Connected(m)'
  <2>1. UnderWay("pdn", m)' = UnderWay("pdn", m) /\ UnderWay("closed", m)' = UnderWay("closed", m)
    BY <1>1 DEF UnderWay, IsReport
  <2>2. OpenIsTrue(m)'
    BY <1>0, <1>1 DEF Connected, OpenIsTrue, IsReport
  <2>3. AcquiredIsOpen(m)'
    BY <1>0, <1>1, <2>1 DEF Connected, AcquiredIsOpen
  <2>. QED BY <1>0, <1>1, <2>1, <2>2, <2>3 DEF Connected, NoLookup
<1>2. ASSUME NEW h \in Handles, NEW t \in RequestTypes, requestATL(h, t)
      PROVE  Connected(m)'
  <2>1. EffectiveType(t) \in Types /\ NifOf(EffectiveType(t)) \in Nifs
    BY TypesAndNifs DEF AgpsAssumption
  <2>2. state'[m] = "ACQUIRED" => state[m] = "ACQUIRED"
    BY <1>0, <1>2, <2>1, SubscribeEffect DEF requestATL
  <2>. QED BY <1>1, <1>2, <2>2 DEF requestATL, framework
<1>3. ASSUME NEW h \in Handles, releaseATL(h)
      PROVE  Connected(m)'
  <2>1. PICK n \in Nifs : processAgpsEventUnsubscribe(n, h)
    BY <1>0, <1>3 DEF releaseATL
  <2>2. state'[m] = "ACQUIRED" => state[m] = "ACQUIRED"
    BY <1>0, <2>1 DEF processAgpsEventUnsubscribe, transitionState, EventTypes
  <2>. QED BY <1>1, <1>3, <2>2 DEF releaseATL, framework
<1>4. ASSUME NEW n \in Nifs, dataConnOpen(n)
      PROVE  Connected(m)'
  <2>1. Head(fw[n]).type \in Types
    BY <1>0, <1>4, CommandConsumed DEF dataConnOpen, NextCommand
  <2>2. Head(fw[n]).type # "down"
    BY <2>1 DEF Types
  <2>. QED BY <1>0, <1>4, <2>2, ReportConnects DEF dataConnOpen
<1>5. ASSUME NEW n \in Nifs, dataConnBadApn(n)
      PROVE  Connected(m)'
  <2>1. Head(fw[n]).type \in Types /\ Consumed(n) \in [Nifs -> Seq(FrameworkCommands)]
    BY <1>0, <1>5, CommandConsumed DEF dataConnBadApn, NextCommand
  <2>2. Head(fw[n]).type # "down"
    BY <2>1 DEF Types
  <2>3. Ending(n, Consumed(n))
    BY <1>5 DEF dataConnBadApn, processAgpsEventReleased, Ending
  <2>4. state'[m] = "ACQUIRED" => state[m] = "ACQUIRED"
    BY <1>0, <2>1, <2>3, EndingAcquiresNone
  <2>5. conn'[m] = conn[m] \/ conn'[m] # "down"
    BY <1>0, <1>5, <2>2 DEF dataConnBadApn
  <2>. QED BY <1>1, <1>5, <2>4, <2>5 DEF dataConnBadApn
<1>6. ASSUME NEW n \in Nifs, dataConnFailed(n)
      PROVE  Connected(m)'
  BY <1>0, <1>6, ReportConnects DEF dataConnFailed
<1>7. ASSUME NEW n \in Nifs, dataConnClosed(n) \/ dataConnLost(n)
      PROVE  Connected(m)'
  <2>1. /\ UNCHANGED <<state, lookups>>
        /\ conn' = [conn EXCEPT ![n] = "down"]
        /\ Report("closed", n) \/ (conn[n] = "down" /\ UNCHANGED inbox)
    BY <1>7 DEF dataConnClosed, dataConnLost
  <2>2. m # n => conn'[m] = conn[m]
    BY <1>0, <2>1
  <2>3. CASE Report("closed", n)
    BY <1>0, <2>1, <2>2, <2>3, ReportConnects
  <2>4. CASE conn[n] = "down" /\ UNCHANGED inbox
    <3>1. conn'[m] = conn[m]
      BY <1>0, <2>1, <2>4
    <3>. QED BY <1>1, <2>1, <2>4, <3>1
  <2>. QED BY <2>1, <2>3, <2>4
<1>8. CASE HandleReport
  BY <1>0, <1>8, HandlingConnects, HandlingKeepsNoLookup DEF Connected
<1>9. ASSUME NEW n \in Nifs, createAgpsStateMachines(n) \/ reportPdnType(n)
      PROVE  Connected(m)'
  BY <1>0, <1>1, <1>9 DEF createAgpsStateMachines, reportPdnType, framework
<1>10. CASE modemRestart \/ UNCHANGED vars
  BY <1>1, <1>10 DEF modemRestart, vars
<1>. QED BY <1>2, <1>3, <1>4, <1>5, <1>6, <1>7, <1>8, <1>9, <1>10 DEF Next, FrameworkAnswer

\* Where the PDN type is not looked up, an interface that counts its
\* connection as acquired has one, or the report of its end is still to be
\* handled: whatever the framework answers or loses, and across restarts.
THEOREM AcquiredConnectionsAreUp ==
    ASSUME ~PdnLookup
    PROVE  Spec => []AcquiredIsConnected
<1>. USE AgpsAssumption
<1>. DEFINE IInv == \A n \in Nifs : Connected(n)
<1>1. Init => IInv
  BY DEF Init, Connected, OpenIsTrue, AcquiredIsOpen, NoLookup, UnderWay, IsReport
<1>2. ASSUME TypeOK, IInv, [Next]_vars
      PROVE  IInv'
  BY <1>2, StepConnects
<1>3. ASSUME TypeOK, IInv
      PROVE  AcquiredIsConnected
  <2>1. 1 .. Len(inbox) = DOMAIN inbox
    BY <1>3, LenProperties DEF TypeOK
  <2>2. ASSUME NEW n \in Nifs, UnderWay("closed", n)
        PROVE  \E i \in DOMAIN inbox : inbox[i].nif = n
    BY <2>1, <2>2 DEF UnderWay, IsReport
  <2>. QED BY <1>3, <2>2 DEF Connected, AcquiredIsOpen, AcquiredIsConnected
<1>. QED BY <1>1, <1>2, <1>3, TypeCorrect, PTL DEF Spec

-----------------------------------------------------------------------------
(* What a waiting interface waits for *)

HasRequest(n) == \E i \in 1 .. Len(fw[n]) : fw[n][i].cmd = "REQUEST"
LastIsRelease(n) == Len(fw[n]) > 0 /\ fw[n][Len(fw[n])].cmd = "RELEASE"

\* A pending machine waits for the answer of a request.
PendingWaits(n) == state[n] = "PENDING" =>
    HasRequest(n) \/ UnderWay("open", n) \/ UnderWay("failed", n)

\* A releasing machine waits for the answer of its release, which the framework
\* reports as long as there is a connection then, or for another that ends it.
EndIsDue(n) == conn[n] # "down" \/ HasRequest(n)
ReleasingWaits(n) == state[n] = "RELEASING" =>
    UnderWay("closed", n) \/ UnderWay("failed", n) \/ (LastIsRelease(n) /\ EndIsDue(n))

Waits(n) == PendingWaits(n) /\ ReleasingWaits(n)

LEMMA CommandIsLast ==
    ASSUME fw \in [Nifs -> Seq(FrameworkCommands)], NEW n \in Nifs,
           NEW cmd \in {"REQUEST", "RELEASE"}, NEW t \in Types,
           requestOrReleaseDataConn(n, cmd, t, fw)
    PROVE  /\ \A m \in Nifs : m # n => fw'[m] = fw[m]
           /\ HasRequest(n)' <=> HasRequest(n) \/ cmd = "REQUEST"
           /\ LastIsRelease(n)' <=> cmd = "RELEASE"
<1>. DEFINE c == [cmd |-> cmd, type |-> t]
<1>1. c \in FrameworkCommands /\ c.cmd = cmd
  BY DEF FrameworkCommands
<1>2. fw' = [fw EXCEPT ![n] = Append(@, c)]
  BY DEF requestOrReleaseDataConn
<1>. HIDE DEF c
<1>3. \A m \in Nifs : m # n => fw'[m] = fw[m]
  BY <1>2
<1>4. fw[n] \in Seq(FrameworkCommands) /\ fw'[n] = Append(fw[n], c)
  BY <1>2
<1>5. /\ Len(fw[n]) \in Nat /\ Len(fw'[n]) = Len(fw[n]) + 1
      /\ \A i \in 1 .. Len(fw[n]) : fw'[n][i] = fw[n][i]
      /\ fw'[n][Len(fw[n]) + 1] = c
  BY <1>1, <1>4, AppendProperties, LenProperties
<1>6. LastIsRelease(n)' <=> cmd = "RELEASE"
  BY <1>1, <1>5 DEF LastIsRelease
<1>7. HasRequest(n)' <=> HasRequest(n) \/ cmd = "REQUEST"
  BY <1>1, <1>5 DEF HasRequest
<1>. QED BY <1>3, <1>6, <1>7

LEMMA CommandIsTaken ==
    ASSUME fw \in [Nifs -> Seq(FrameworkCommands)], NEW n \in Nifs,
           NEW cmd \in {"REQUEST", "RELEASE"}, NextCommand(n, cmd), fw' = Consumed(n)
    PROVE  /\ \A m \in Nifs : m # n => fw'[m] = fw[m]
           /\ HasRequest(n) => cmd = "REQUEST" \/ HasRequest(n)'
           /\ LastIsRelease(n) /\ (cmd = "REQUEST" \/ HasRequest(n)) => LastIsRelease(n)'
<1>1. \A m \in Nifs : m # n => fw'[m] = fw[m]
  BY DEF Consumed
<1>2. /\ fw[n] \in Seq(FrameworkCommands) /\ fw[n] # << >> /\ fw'[n] = Tail(fw[n])
      /\ Head(fw[n]).cmd = cmd
  BY DEF Consumed, NextCommand
<1>3. /\ Len(fw[n]) \in Nat \ {0} /\ Len(fw'[n]) = Len(fw[n]) - 1
      /\ fw[n][1].cmd = cmd
      /\ \A i \in 1 .. Len(fw'[n]) : fw'[n][i] = fw[n][i + 1]
  BY <1>2, HeadTailProperties
<1>4. ASSUME NEW i \in 1 .. Len(fw[n]), i # 1
      PROVE  i - 1 \in 1 .. Len(fw'[n]) /\ fw'[n][i - 1] = fw[n][i]
  BY <1>3, <1>4
<1>5. ASSUME HasRequest(n), cmd # "REQUEST"
      PROVE  HasRequest(n)'
  <2>1. PICK i \in 1 .. Len(fw[n]) : fw[n][i].cmd = "REQUEST"
    BY <1>5 DEF HasRequest
  <2>2. i # 1
    BY <1>3, <1>5, <2>1
  <2>3. i - 1 \in 1 .. Len(fw'[n]) /\ fw'[n][i - 1].cmd = "REQUEST"
    BY <1>4, <2>1, <2>2
  <2>. QED BY <2>3 DEF HasRequest
<1>6. ASSUME LastIsRelease(n), cmd = "REQUEST" \/ HasRequest(n)
      PROVE  LastIsRelease(n)'
  <2>1. fw[n][Len(fw[n])].cmd = "RELEASE" /\ Len(fw[n]) \in 1 .. Len(fw[n])
    BY <1>3, <1>6 DEF LastIsRelease
  <2>2. Len(fw[n]) # 1
    BY <1>3, <1>6, <2>1 DEF HasRequest
  <2>3. fw'[n][Len(fw[n]) - 1].cmd = "RELEASE" /\ Len(fw[n]) - 1 \in 1 .. Len(fw'[n])
    BY <1>4, <2>1, <2>2
  <2>. QED BY <1>3, <2>3 DEF LastIsRelease
<1>. QED BY <1>1, <1>5, <1>6

\* An interface that a step leaves alone.
LEMMA WaitsAsBefore ==
    ASSUME NEW m \in Nifs, Waits(m), state'[m] = state[m], fw'[m] = fw[m], conn'[m] = conn[m],
           UnderWay("open", m) => UnderWay("open", m)',
           UnderWay("failed", m) => UnderWay("failed", m)',
           UnderWay("closed", m) => UnderWay("closed", m)'
    PROVE  Waits(m)'
<1>1. HasRequest(m)' = HasRequest(m) /\ LastIsRelease(m)' = LastIsRelease(m)
  BY DEF HasRequest, LastIsRelease
<1>. QED BY <1>1 DEF Waits, PendingWaits, ReleasingWaits, EndIsDue

\* The framework's answers.
LEMMA AnswerKeepsWaits ==
    ASSUME TypeOK, NEW m \in Nifs, Waits(m), NEW n \in Nifs,
           dataConnOpen(n) \/ dataConnFailed(n) \/ dataConnClosed(n)
    PROVE  Waits(m)'
<1>0. inbox \in Seq(Reports) /\ fw \in [Nifs -> Seq(FrameworkCommands)]
      /\ conn \in [Nifs -> Types \cup {"down"}] /\ state' = state
  BY DEF TypeOK, dataConnOpen, dataConnFailed, dataConnClosed
<1>1. CASE dataConnOpen(n)
  <2>1. /\ NextCommand(n, "REQUEST") /\ fw' = Consumed(n) /\ Report("open", n)
        /\ conn' = [conn EXCEPT ![n] = Head(fw[n]).type] /\ Head(fw[n]).type \in Types
    BY <1>0, <1>1, CommandConsumed DEF dataConnOpen, NextCommand
  <2>2. conn'[n] # "down"
    BY <1>0, <2>1 DEF Types
  <2>3. /\ UnderWay("open", m)' <=> UnderWay("open", m) \/ m = n
        /\ UnderWay("failed", m)' <=> UnderWay("failed", m)
        /\ UnderWay("closed", m)' <=> UnderWay("closed", m)
    BY <1>0, <2>1, SentIsUnderWay
  <2>4. CASE m # n
    <3>1. fw'[m] = fw[m] /\ conn'[m] = conn[m]
      BY <1>0, <2>1, <2>4, CommandIsTaken
    <3>. QED BY <1>0, <2>3, <3>1, WaitsAsBefore
  <2>5. CASE m = n
    <3>1. LastIsRelease(n) => LastIsRelease(n)'
      BY <1>0, <2>1, CommandIsTaken
    <3>. QED BY <1>0, <2>2, <2>3, <2>5, <3>1 DEF Waits, PendingWaits, ReleasingWaits, EndIsDue
  <2>. QED BY <2>4, <2>5
<1>2. CASE dataConnFailed(n)
  <2>1. /\ NextCommand(n, "REQUEST") /\ fw' = Consumed(n) /\ Report("failed", n)
        /\ conn' = conn
    BY <1>2 DEF dataConnFailed
  <2>3. /\ UnderWay("open", m)' <=> UnderWay("open", m)
        /\ UnderWay("failed", m)' <=> UnderWay("failed", m) \/ m = n
        /\ UnderWay("closed", m)' <=> UnderWay("closed", m)
    BY <1>0, <2>1, SentIsUnderWay
  <2>4. CASE m # n
    <3>1. fw'[m] = fw[m] /\ conn'[m] = conn[m]
      BY <1>0, <2>1, <2>4, CommandIsTaken
    <3>. QED BY <1>0, <2>3, <3>1, WaitsAsBefore
  <2>5. CASE m = n
    BY <2>3, <2>5 DEF Waits, PendingWaits, ReleasingWaits
  <2>. QED BY <2>4, <2>5
<1>3. CASE dataConnClosed(n)
  <2>1. /\ NextCommand(n, "RELEASE") /\ fw' = Consumed(n)
        /\ conn' = [conn EXCEPT ![n] = "down"]
        /\ Report("closed", n) \/ (conn[n] = "down" /\ UNCHANGED inbox)
    BY <1>3 DEF dataConnClosed
  <2>2. /\ UnderWay("open", m) => UnderWay("open", m)'
        /\ UnderWay("failed", m) => UnderWay("failed", m)'
        /\ UnderWay("closed", m) => UnderWay("closed", m)'
        /\ UnderWay("closed", n)' \/ conn[n] = "down"
    <3>1. CASE Report("closed", n)
      BY <1>0, <3>1, SentIsUnderWay
    <3>2. CASE conn[n] = "down" /\ UNCHANGED inbox
      BY <3>2 DEF UnderWay, IsReport
    <3>. QED BY <2>1, <3>1, <3>2
  <2>4. CASE m # n
    <3>1. fw'[m] = fw[m] /\ conn'[m] = conn[m]
      BY <1>0, <2>1, <2>4, CommandIsTaken
    <3>. QED BY <1>0, <2>2, <3>1, WaitsAsBefore
  <2>5. CASE m = n
    <3>1. /\ HasRequest(n) => HasRequest(n)'
          /\ LastIsRelease(n) /\ HasRequest(n) => LastIsRelease(n)'
      BY <1>0, <2>1, CommandIsTaken
    <3>. QED BY <1>0, <2>2, <2>5, <3>1 DEF Waits, PendingWaits, ReleasingWaits, EndIsDue
  <2>. QED BY <2>4, <2>5
<1>. QED BY <1>1, <1>2, <1>3

LEMMA LossKeepsWaits ==
    ASSUME TypeOK, NEW m \in Nifs, Waits(m), NEW n \in Nifs, dataConnLost(n)
    PROVE  Waits(m)'
<1>0. /\ inbox \in Seq(Reports) /\ conn \in [Nifs -> Types \cup {"down"}]
      /\ state' = state /\ fw' = fw /\ Report("closed", n)
      /\ conn' = [conn EXCEPT ![n] = "down"]
  BY DEF TypeOK, dataConnLost
<1>1. /\ UnderWay("open", m)' <=> UnderWay("open", m)
      /\ UnderWay("failed", m)' <=> UnderWay("failed", m)
      /\ UnderWay("closed", m)' <=> UnderWay("closed", m) \/ m = n
  BY <1>0, SentIsUnderWay
<1>2. CASE m # n
  BY <1>0, <1>1, <1>2, WaitsAsBefore
<1>3. CASE m = n
  <2>1. HasRequest(m)' = HasRequest(m)
    BY <1>0 DEF HasRequest
  <2>. QED BY <1>0, <1>1, <1>3, <2>1 DEF Waits, PendingWaits, ReleasingWaits
<1>. QED BY <1>2, <1>3

\* The modem's requests and releases.
LEMMA RequestKeepsWaits ==
    ASSUME TypeOK, AgpsAssumption, NEW m \in Nifs, Waits(m),
           NEW h \in Handles, NEW t \in RequestTypes, requestATL(h, t)
    PROVE  Waits(m)'
<1>. DEFINE e == EffectiveType(t)
            n == NifOf(e)
<1>0. /\ fw \in [Nifs -> Seq(FrameworkCommands)] /\ state \in [Nifs -> States]
      /\ conn' = conn /\ inbox' = inbox /\ e \in Types /\ n \in Nifs
  BY TypesAndNifs DEF TypeOK, requestATL, framework, AgpsAssumption
<1>1. \A w, k : UnderWay(w, k)' = UnderWay(w, k)
  BY <1>0 DEF UnderWay, IsReport
<1>2. CASE state' = state /\ fw' = fw
  BY <1>0, <1>1, <1>2, WaitsAsBefore
<1>3. CASE /\ state' = [state EXCEPT ![n] = "PENDING"]
           /\ requestOrReleaseDataConn(n, "REQUEST", e, fw)
  <2>. HIDE DEF e, n
  <2>1. CASE m # n
    <3>1. fw'[m] = fw[m] /\ state'[m] = state[m]
      BY <1>0, <1>3, <2>1, CommandIsLast
    <3>. QED BY <1>0, <1>1, <3>1, WaitsAsBefore
  <2>2. CASE m = n
    <3>1. HasRequest(n)' /\ state'[n] = "PENDING"
      BY <1>0, <1>3, CommandIsLast
    <3>. QED BY <2>2, <3>1 DEF Waits, PendingWaits, ReleasingWaits
  <2>. QED BY <2>1, <2>2
<1>. QED BY <1>2, <1>3 DEF requestATL, processAgpsEventSubscribe, transitionState

LEMMA ReleaseKeepsWaits ==
    ASSUME TypeOK, NEW m \in Nifs, Waits(m), Connected(m), NEW h \in Handles, releaseATL(h)
    PROVE  Waits(m)'
<1>0. /\ fw \in [Nifs -> Seq(FrameworkCommands)] /\ state \in [Nifs -> States]
      /\ type \in [Nifs -> Types] /\ conn' = conn /\ inbox' = inbox
  BY DEF TypeOK, releaseATL, framework
<1>1. \A w, k : UnderWay(w, k)' = UnderWay(w, k)
  BY <1>0 DEF UnderWay, IsReport
<1>2. PICK n \in Nifs : processAgpsEventUnsubscribe(n, h)
  BY DEF releaseATL, Nifs
<1>3. CASE state' = state /\ fw' = fw
  BY <1>0, <1>1, <1>3, WaitsAsBefore
<1>4. CASE /\ state[n] \in {"PENDING", "ACQUIRED"}
           /\ state' = [state EXCEPT ![n] = "RELEASING"]
           /\ requestOrReleaseDataConn(n, "RELEASE", type[n], fw)
  <2>0. type[n] \in Types
    BY <1>0
  <2>1. CASE m # n
    <3>1. fw'[m] = fw[m] /\ state'[m] = state[m]
      BY <1>0, <1>4, <2>0, <2>1, CommandIsLast
    <3>. QED BY <1>0, <1>1, <3>1, WaitsAsBefore
  <2>2. CASE m = n
    <3>1. /\ LastIsRelease(n)' /\ state'[n] = "RELEASING"
          /\ HasRequest(n) => HasRequest(n)'
      BY <1>0, <1>4, <2>0, CommandIsLast
    <3>2. UnderWay("open", n) => conn[n] # "down" \/ UnderWay("closed", n)
      <4>1. ASSUME NEW i \in 1 .. Len(inbox), IsReport(i, "open", n), conn[n] = "down"
            PROVE  UnderWay("closed", n)
        <5>1. PICK j \in i + 1 .. Len(inbox) : IsReport(j, "closed", n)
          BY <2>2, <4>1 DEF Connected, OpenIsTrue
        <5>2. Len(inbox) \in Nat
          BY LenProperties DEF TypeOK
        <5>. QED BY <5>1, <5>2 DEF UnderWay
      <4>. QED BY <4>1 DEF UnderWay
    <3>3. UnderWay("closed", n) \/ UnderWay("failed", n) \/ EndIsDue(n)
      BY <1>4, <2>2, <3>2 DEF Waits, PendingWaits, Connected, AcquiredIsOpen, EndIsDue
    <3>. QED BY <1>0, <1>1, <2>2, <3>1, <3>3 DEF Waits, PendingWaits, ReleasingWaits, EndIsDue
  <2>. QED BY <2>1, <2>2
<1>. QED BY <1>2, <1>3, <1>4 DEF processAgpsEventUnsubscribe, transitionState

\* The message thread's handling of a report.
LEMMA HandlingKeepsOthers ==
    ASSUME TypeOK, NEW what, Handle(what), NEW m \in Nifs, Waits(m), Head(inbox).nif # m,
           state'[m] = state[m], fw'[m] = fw[m]
    PROVE  Waits(m)'
<1>1. /\ inbox # << >> /\ inbox' = Tail(inbox) /\ conn' = conn
      /\ inbox[1] = [what |-> what, nif |-> Head(inbox).nif]
  BY HandledReport DEF TypeOK
<1>2. \A w : UnderWay(w, m) => UnderWay(w, m)' \/ IsReport(1, w, m)
  BY <1>1, HandledIsTaken DEF TypeOK
<1>3. \A w : ~IsReport(1, w, m)
  BY <1>1 DEF IsReport
<1>. QED BY <1>1, <1>2, <1>3, WaitsAsBefore

\* An end of the connection leaves the interface released, waiting for a new
\* request, or as it was.
LEMMA EndingKeepsWaits ==
    ASSUME TypeOK, NEW n \in Nifs, Ending(n, fw)
    PROVE  /\ \A m \in Nifs : m # n => state'[m] = state[m] /\ fw'[m] = fw[m]
           /\ \/ state'[n] = "RELEASED"
              \/ state'[n] = "PENDING" /\ HasRequest(n)'
              \/ state' = state /\ fw' = fw /\ noop(fw)
<1>0. /\ EventTypes /\ type \in [Nifs -> Types] /\ fw \in [Nifs -> Seq(FrameworkCommands)]
      /\ state \in [Nifs -> States] /\ type[n] \in Types
  BY DEF TypeOK, EventTypes
<1>1. CASE dropAll(n, fw)
  BY <1>0, <1>1 DEF dropAll, transitionState
<1>2. CASE finishRelease(n, fw)
  <2>1. CASE /\ state' = [state EXCEPT ![n] = "PENDING"]
             /\ requestOrReleaseDataConn(n, "REQUEST", type[n], fw)
    <3>1. /\ \A m \in Nifs : m # n => fw'[m] = fw[m]
          /\ HasRequest(n)'
      BY <1>0, <2>1, CommandIsLast
    <3>. QED BY <1>0, <2>1, <3>1
  <2>2. CASE state' = [state EXCEPT ![n] = "RELEASED"] /\ fw' = fw
    BY <1>0, <2>2
  <2>. QED BY <1>2, <2>1, <2>2 DEF finishRelease, transitionState
<1>3. CASE noop(fw)
  BY <1>3 DEF noop
<1>. QED BY <1>1, <1>2, <1>3 DEF Ending

LEMMA HandlingKeepsWaits ==
    ASSUME TypeOK, ~PdnLookup, NEW m \in Nifs, \A k \in Nifs : Connected(k) /\ Waits(k),
           HandleReport
    PROVE  Waits(m)'
<1>0. /\ Waits(m) /\ Connected(m)
      /\ EventTypes /\ inbox \in Seq(Reports) /\ fw \in [Nifs -> Seq(FrameworkCommands)]
  BY DEF TypeOK, EventTypes
<1>n. PICK n \in Nifs : n = Head(inbox).nif
  <2>1. inbox # << >>
    BY DEF HandleReport, AtlOpenSuccess, ReportAtlPdn, AtlOpenFailed, AtlClosed, Handle
  <2>. QED BY <1>0, <2>1, ReportHandled
<1>1. ASSUME NEW what, Handle(what)
      PROVE  /\ n \in Nifs /\ inbox # << >> /\ inbox[1] = [what |-> what, nif |-> n]
             /\ conn' = conn
             /\ what # "open" /\ UnderWay("open", m) => UnderWay("open", m)'
             /\ what # "failed" /\ UnderWay("failed", m) => UnderWay("failed", m)'
             /\ what # "closed" /\ UnderWay("closed", m) => UnderWay("closed", m)'
  <2>1. /\ n \in Nifs /\ inbox # << >> /\ inbox[1] = [what |-> what, nif |-> n]
        /\ conn' = conn /\ inbox' = Tail(inbox)
    BY <1>0, <1>1, <1>n, HandledReport
  <2>2. ASSUME NEW w, w # what, UnderWay(w, m)
        PROVE  UnderWay(w, m)'
    <3>1. UnderWay(w, m)' \/ IsReport(1, w, m)
      BY <1>0, <2>1, <2>2, HandledIsTaken
    <3>2. ~IsReport(1, w, m)
      BY <2>1, <2>2 DEF IsReport
    <3>. QED BY <3>1, <3>2
  <2>. QED BY <2>1, <2>2
<1>2. CASE AtlOpenSuccess
  <2>1. Handle("open") /\ processAgpsEventGranted(n)
    BY <1>n, <1>2 DEF AtlOpenSuccess
  <2>2. /\ fw' = fw
        /\ state'[m] = IF m = n /\ state[m] = "PENDING" THEN "ACQUIRED" ELSE state[m]
    BY <1>0, <1>1, <2>1, GrantedEffect DEF processAgpsEventGranted
  <2>3. CASE m # n
    BY <1>0, <1>n, <2>1, <2>2, <2>3, HandlingKeepsOthers
  <2>4. CASE m = n
    <3>1. HasRequest(m)' = HasRequest(m) /\ LastIsRelease(m)' = LastIsRelease(m)
      BY <2>2 DEF HasRequest, LastIsRelease
    <3>2. conn' = conn /\ (UnderWay("failed", m) => UnderWay("failed", m)')
          /\ (UnderWay("closed", m) => UnderWay("closed", m)')
      BY <1>1, <2>1
    <3>. QED BY <1>0, <2>2, <2>4, <3>1, <3>2 DEF Waits, PendingWaits, ReleasingWaits, EndIsDue
  <2>. QED BY <2>3, <2>4
<1>3. CASE ReportAtlPdn
  <2>1. Handle("pdn")
    BY <1>n, <1>3 DEF ReportAtlPdn
  <2>2. Len(inbox) \in Nat \ {0} /\ IsReport(1, "pdn", n) /\ n \in Nifs
    BY <1>0, <1>1, <2>1, HeadTailProperties DEF IsReport
  <2>3. UnderWay("pdn", n)
    BY <2>2 DEF UnderWay
  <2>. QED BY <2>2, <2>3 DEF Connected, NoLookup
<1>4. CASE AtlOpenFailed
  <2>1. Handle("failed") /\ processAgpsEventDenied(n, fw)
    BY <1>n, <1>4 DEF AtlOpenFailed
  <2>2. n \in Nifs /\ Ending(n, fw)
    BY <1>1, <2>1 DEF processAgpsEventDenied, Ending
  <2>3. CASE m # n
    BY <1>0, <2>1, <2>2, <2>3, <1>n, EndingKeepsWaits, HandlingKeepsOthers
  <2>4. CASE m = n
    <3>1. state'[n] \in {"RELEASED", "ACQUIRED"} \/ (state'[n] = "PENDING" /\ HasRequest(n)')
      <4>1. CASE state' = state /\ noop(fw)
        <5>1. CASE state[n] = "PENDING"
          BY <1>0, <2>1, <2>2, <5>1, DropAllEffect DEF processAgpsEventDenied
        <5>2. CASE state[n] = "RELEASING"
          BY <1>0, <2>1, <2>2, <4>1, <5>2 DEF processAgpsEventDenied, finishRelease, transitionState, EventTypes
        <5>. QED BY <2>2, <4>1, <5>1, <5>2 DEF EventTypes, TypeOK, States
      <4>. QED BY <2>2, <4>1, EndingKeepsWaits
    <3>. QED BY <2>4, <3>1 DEF Waits, PendingWaits, ReleasingWaits
  <2>. QED BY <2>3, <2>4
<1>5. CASE AtlClosed
  <2>1. Handle("closed") /\ processAgpsEventReleased(n, fw)
    BY <1>n, <1>5 DEF AtlClosed
  <2>0. /\ UnderWay("open", m) => UnderWay("open", m)'
        /\ UnderWay("failed", m) => UnderWay("failed", m)'
    <3>1. Handle("closed") /\ "closed" # "open" /\ "closed" # "failed"
      BY <2>1
    <3>. QED BY <1>1, <3>1
  <2>2. n \in Nifs /\ Ending(n, fw)
    BY <1>1, <2>1 DEF processAgpsEventReleased, Ending
  <2>3. CASE m # n
    BY <1>0, <2>1, <2>2, <2>3, <1>n, EndingKeepsWaits, HandlingKeepsOthers
  <2>4. CASE m = n /\ state[n] = "RELEASING"
    <3>1. finishRelease(n, fw)
      BY <2>1, <2>4 DEF processAgpsEventReleased
    <3>2. state'[n] # "RELEASING"
      BY <2>2, <3>1 DEF finishRelease, transitionState, TypeOK
    <3>3. state'[n] = "RELEASED" \/ (state'[n] = "PENDING" /\ HasRequest(n)')
      BY <2>2, <2>4, <3>2, EndingKeepsWaits
    <3>. QED BY <2>4, <3>3 DEF Waits, PendingWaits, ReleasingWaits
  <2>5. CASE m = n /\ state[n] # "RELEASING"
    <3>1. CASE state'[n] = "RELEASED" \/ (state'[n] = "PENDING" /\ HasRequest(n)')
      BY <2>5, <3>1 DEF Waits, PendingWaits, ReleasingWaits
    <3>2. CASE state' = state /\ fw' = fw
      <4>1. HasRequest(m)' = HasRequest(m)
        BY <3>2 DEF HasRequest
      <4>. QED BY <1>0, <2>0, <2>5, <3>2, <4>1 DEF Waits, PendingWaits, ReleasingWaits
    <3>. QED BY <2>2, <3>1, <3>2, EndingKeepsWaits
  <2>. QED BY <2>3, <2>4, <2>5
<1>. QED BY <1>2, <1>3, <1>4, <1>5 DEF HandleReport

\* Where the PDN type is not looked up and no APN is refused, an interface that
\* waits for the framework is always waited for: each pending request and each
\* release has its answer under way, whatever the framework answers and the
\* modem asks, releases or forgets meanwhile.
THEOREM WaitingInterfacesAreAnswered ==
    ASSUME ~PdnLookup, ~ApnMayBeBad
    PROVE  Spec => []WaitingIsAnswered
<1>. USE AgpsAssumption
<1>. DEFINE IInv == \A n \in Nifs : Connected(n) /\ Waits(n)
<1>1. Init => IInv
  BY DEF Init, Connected, OpenIsTrue, AcquiredIsOpen, NoLookup, UnderWay, IsReport,
         Waits, PendingWaits, ReleasingWaits
<1>2. ASSUME TypeOK, IInv, [Next]_vars
      PROVE  IInv'
  <2>. SUFFICES ASSUME NEW m \in Nifs PROVE Connected(m)' /\ Waits(m)'
    OBVIOUS
  <2>1. Connected(m)'
    BY <1>2, StepConnects
  <2>2. Waits(m) /\ Connected(m)
    BY <1>2
  <2>3. ASSUME NEW n \in Nifs, FrameworkAnswer(n)
        PROVE  Waits(m)'
    BY <1>2, <2>2, <2>3, AnswerKeepsWaits DEF FrameworkAnswer, dataConnBadApn
  <2>4. ASSUME UNCHANGED <<state, fw, conn, inbox>>
        PROVE  Waits(m)'
    <3>1. \A w : UnderWay(w, m)' = UnderWay(w, m)
      BY <2>4 DEF UnderWay, IsReport
    <3>. QED BY <2>2, <2>4, <3>1, WaitsAsBefore
  <2>5. ASSUME NEW n \in Nifs, createAgpsStateMachines(n) \/ reportPdnType(n)
        PROVE  Waits(m)'
    BY <1>2, <2>4, <2>5 DEF createAgpsStateMachines, reportPdnType, framework, Connected, NoLookup
  <2>6. CASE modemRestart \/ UNCHANGED vars
    BY <2>1, <2>4, <2>6 DEF modemRestart, vars
  <2>7. CASE HandleReport
    BY <1>2, <2>1, <2>7, HandlingKeepsWaits
  <2>8. CASE Next
    BY <1>2, <2>1, <2>2, <2>3, <2>5, <2>6, <2>7, <2>8, LossKeepsWaits, RequestKeepsWaits, ReleaseKeepsWaits
    DEF Next
  <2>. QED BY <1>2, <2>1, <2>6, <2>8
<1>3. ASSUME TypeOK, IInv
      PROVE  WaitingIsAnswered
  <2>1. 1 .. Len(inbox) = DOMAIN inbox
    BY <1>3, LenProperties DEF TypeOK
  <2>2. ASSUME NEW n \in Nifs, NEW w, UnderWay(w, n)
        PROVE  \E i \in DOMAIN inbox : inbox[i].nif = n
    BY <2>1, <2>2 DEF UnderWay, IsReport
  <2>3. ASSUME NEW n \in Nifs, HasRequest(n) \/ LastIsRelease(n)
        PROVE  fw[n] # << >>
    <3>1. fw[n] \in Seq(FrameworkCommands)
      BY <1>3 DEF TypeOK
    <3>. QED BY <2>3, <3>1 DEF HasRequest, LastIsRelease
  <2>. QED BY <1>3, <2>2, <2>3 DEF Waits, PendingWaits, ReleasingWaits, WaitingIsAnswered
<1>. QED BY <1>1, <1>2, <1>3, TypeCorrect, PTL DEF Spec

=============================================================================
