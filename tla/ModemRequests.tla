--------------------------- MODULE ModemRequests ---------------------------
(***************************************************************************)
(* What the modem asks of the phone (gps/gnss/GnssAdapter.cpp): network    *)
(* initiated (NI) location requests, which the user may have to confirm,   *)
(* and positions on demand (ODCPI).                                        *)
(*                                                                         *)
(* One message thread handles all requests, answers of the user and expiry *)
(* messages.  An NI request the user is asked about takes one of two slots,*)
(* and a thread of its own waits for the answer under the lock of the slot;*)
(* the message thread looks at slots without their locks and takes a lock  *)
(* only to store an answer, so that such a handler is several steps.  The  *)
(* ODCPI timer expires on the timer thread, which posts a message.         *)
(*                                                                         *)
(* Time is abstract: a time-out may happen whenever it is set.  Creating a *)
(* thread is assumed to succeed.                                           *)
(***************************************************************************)
EXTENDS Integers, SequencesExt

CONSTANTS
    MaxRequests,    \* bound: NI requests of the modem
    Loads           \* bound: what happens in a behaviour, see LoadsAssumption

NiRequests == 1 .. MaxRequests  \* the data that stands for a request
NULL == 0                       \* no request; no id
Slots == {"session", "sessionEs"}
Kinds == {"supl", "suplEs", "controlPlane"}     \* VOICE takes the way of SUPL
\* GnssNiNotification: its type, bIsInEmergency, PRIVACY_OVERRIDE
Notifications == [kind : Kinds, emergency : BOOLEAN, override : BOOLEAN]
UserResponses == {"accept", "deny", "noResponse"}
Responses == UserResponses \cup {"ignore"}

\* "ni" requests with these notifications and answers of the user, "odcpi"
\* requests, "crashes" restarts of the modem; may the client leave?  The rest is
\* configuration: NI is denied on an NFW lock (mSupportNfwControl, GPS_LOCK and
\* NI_SUPL_DENY_ON_NFW_LOCKED), SUPL_ES is NO, CP_MTLR_ES is 1.
ASSUME LoadsAssumption ==
    /\ MaxRequests \in Nat
    /\ \A l \in Loads :
         /\ l.ni \in 0 .. MaxRequests /\ l.odcpi \in Nat /\ l.crashes \in Nat
         /\ l.notifications \subseteq Notifications /\ l.says \subseteq UserResponses
         /\ {l.leaves, l.denyOnLock, l.suplEsNo, l.cpMtlrEs} \subseteq BOOLEAN

VARIABLES
    load,           \* the load of this behaviour
    inbox,          \* the adapter's message queue
    \* NI
    niClient,       \* is there a client with a gnssNiCb?
    slots,          \* mNiData.session and sessionEs
    reqIDCounter,   \* mNiData.reqIDCounter
    todo,           \* locked sections the handler of the message thread has left
    thread,         \* niThreadProc of a request
    taken,          \* the response it has taken from its slot
    sent,           \* number of NI requests so far
    idOf,           \* the id the client was asked with
    \* ODCPI
    odcpi,          \* the members of GnssAdapter, see TypeOK
    running,        \* is the LocTimer of mOdcpiTimer running?
    asked,          \* what the framework was last asked for
    emergencyCall,  \* what SystemStatus was last told
    \* history and bounds
    said,           \* what the user has answered
    answers,        \* informNiResponse: what the modem was told
    late,           \* slots with a response stored when their request was gone
    marks,          \* "overruled" by an emergency; "stale": such a response was there
    wants,          \* what the modem last asked for
    odcpiSent, crashes

niVars == <<niClient, slots, reqIDCounter, todo, thread, taken, sent, idOf,
            said, answers, late, marks>>
odcpiVars == <<odcpi, running, asked, emergencyCall, wants, odcpiSent, crashes>>
vars == <<load, inbox, niVars, odcpiVars>>

Notify(n, what) == [type |-> "notify", n |-> n, what |-> what]
Respond(id, resp) == [type |-> "respond", id |-> id, resp |-> resp]
Inform(n, resp) == [type |-> "inform", n |-> n, resp |-> resp]
Odcpi(op, emergency) == [type |-> "odcpi", op |-> op, emergency |-> emergency]
TimerExpired == [type |-> "timerExpired"]
EngineUp == [type |-> "engineUp"]

Messages ==
    [type : {"notify"}, n : NiRequests, what : Notifications]
      \cup [type : {"respond"}, id : Nat, resp : UserResponses]
      \cup [type : {"inform"}, n : NiRequests, resp : UserResponses]
      \cup [type : {"odcpi"}, op : {"start", "stop"}, emergency : BOOLEAN]
      \cup {TimerExpired, EngineUp}

NiTypeOK ==
    /\ niClient \in BOOLEAN
    /\ slots \in [Slots -> [rawRequest : NiRequests \cup {NULL}, reqID : Nat,
                            respRecvd : BOOLEAN, resp : Responses]]
    /\ reqIDCounter \in Nat /\ sent \in 0 .. load.ni
    /\ todo \in Seq([slot : Slots, resp : Responses])
    /\ thread \in [NiRequests -> {"none", "waiting", "timedOut", "leaving", "leavingEs", "ended"}]
    /\ taken \in [NiRequests -> Responses]
    /\ idOf \in [NiRequests -> Nat]
    /\ said \in [NiRequests -> UserResponses \cup {"none"}]
    /\ answers \in [NiRequests -> Seq(UserResponses)]
    /\ late \subseteq Slots
    /\ marks \in [NiRequests -> SUBSET {"overruled", "stale"}]

OdcpiTypeOK ==
    /\ odcpi \in [callback : BOOLEAN,       \* mOdcpiRequestCb is set
                  active : BOOLEAN,         \* mOdcpiStateMask & ODCPI_REQ_ACTIVE
                  requestActive : BOOLEAN,  \* mOdcpiRequestActive
                  emergency : BOOLEAN,      \* mOdcpiRequest.isEmergencyMode
                  timer : BOOLEAN]          \* mOdcpiTimer.mActive
    /\ running \in BOOLEAN /\ emergencyCall \in BOOLEAN
    /\ asked \in {"nothing", "normal", "emergency"}
    /\ wants \in {"nothing", "normal", "emergency"}
    /\ odcpiSent \in 0 .. load.odcpi /\ crashes \in 0 .. load.crashes

TypeOK ==
    /\ load \in Loads
    /\ inbox \in Seq(Messages)
    /\ NiTypeOK
    /\ OdcpiTypeOK

Init ==
    /\ load \in Loads
    /\ inbox = << >>
    /\ niClient = TRUE
    /\ slots = [s \in Slots |-> [rawRequest |-> NULL, reqID |-> NULL,
                                 respRecvd |-> FALSE, resp |-> "noResponse"]]
    /\ reqIDCounter = 0 /\ sent = 0
    /\ todo = << >>
    /\ thread = [n \in NiRequests |-> "none"]
    /\ taken = [n \in NiRequests |-> "noResponse"]
    /\ idOf = [n \in NiRequests |-> NULL]
    /\ said = [n \in NiRequests |-> "none"]
    /\ answers = [n \in NiRequests |-> << >>]
    /\ late = {} /\ marks = [n \in NiRequests |-> {}]
    /\ odcpi = [callback |-> FALSE, active |-> FALSE, requestActive |-> FALSE,
                emergency |-> FALSE, timer |-> FALSE]
    /\ running = FALSE /\ asked = "nothing" /\ emergencyCall = FALSE
    /\ wants = "nothing" /\ odcpiSent = 0 /\ crashes = 0

sendMsg(m) == inbox' = Append(inbox, m)

\* the message thread takes a message of this type when it is done with the last
Receive(type) ==
    /\ todo = << >> /\ inbox # << >> /\ Head(inbox).type = type
    /\ inbox' = Tail(inbox)

-----------------------------------------------------------------------------
(* NI: what comes from outside *)

\* requestNiNotifyEvent
ModemNotifies ==
    /\ sent < load.ni
    /\ \E w \in load.notifications : sendMsg(Notify(sent + 1, w))
    /\ sent' = sent + 1
    /\ UNCHANGED <<niClient, slots, reqIDCounter, todo, thread, taken, idOf, said,
                   answers, late, marks, odcpiVars>>

\* gnssNiResponseCommand, called by the client; an answer may come when nobody
\* waits for it any more
UserResponds(n) ==
    /\ idOf[n] # NULL /\ said[n] = "none"
    /\ \E r \in load.says :
         /\ sendMsg(Respond(idOf[n], r))
         /\ said' = [said EXCEPT ![n] = r]
    /\ UNCHANGED <<niClient, slots, reqIDCounter, todo, thread, taken, sent, idOf,
                   answers, late, marks, odcpiVars>>

\* the client is removed, or sets callbacks without gnssNiCb
NiClientLeaves ==
    /\ niClient /\ load.leaves /\ todo = << >>
    /\ niClient' = FALSE
    /\ UNCHANGED <<inbox, slots, reqIDCounter, todo, thread, taken, sent, idOf, said,
                   answers, late, marks, odcpiVars>>

-----------------------------------------------------------------------------
(* NI: the message thread *)

informNiResponse(n, resp) == answers' = [answers EXCEPT ![n] = Append(@, resp)]

\* any SUPL NI non-ES session is ignored if a SUPL NI ES is accepted
IgnoreSession ==
    IF slots["session"].rawRequest # NULL
    THEN <<[slot |-> "session", resp |-> "ignore"]>> ELSE << >>

\* the decision on an NI request by configuration, or to ask the user
Verdict(w) ==
    CASE w.kind # "controlPlane" /\ ~w.emergency /\ ~w.override /\ load.denyOnLock -> "deny"
      [] w.kind = "suplEs" /\ ~w.emergency /\ ~load.suplEsNo -> "deny"
      [] w.kind = "controlPlane" /\ w.emergency /\ load.cpMtlrEs -> "accept"
      [] OTHER -> "ask"

\* may the request have a slot?
SlotIsFree(slot) ==
    /\ slots["sessionEs"].rawRequest = NULL
    /\ slot = "session" => slots["session"].rawRequest = NULL

\* the request is saved in its slot, its thread started and the client called
Ask(n, slot) ==
    LET id == reqIDCounter + 1 IN
    /\ reqIDCounter' = id
    /\ slots' = [slots EXCEPT ![slot].rawRequest = n, ![slot].reqID = id]
    /\ thread' = [thread EXCEPT ![n] = "waiting"]
    /\ idOf' = [idOf EXCEPT ![n] = id]
    /\ marks' = [marks EXCEPT ![n] = IF slot \in late THEN {"stale"} ELSE {}]

requestNiNotify(n, kind) ==
    LET slot == IF kind = "suplEs" THEN "sessionEs" ELSE "session" IN
    \/ /\ ~niClient /\ kind = "suplEs"
       /\ informNiResponse(n, "accept")
       /\ todo' = IgnoreSession
       /\ UNCHANGED <<slots, reqIDCounter, thread, idOf, marks>>
    \/ /\ niClient /\ SlotIsFree(slot)
       /\ Ask(n, slot)
       /\ UNCHANGED <<todo, answers>>
    \/ \* nobody to ask, or another request in progress: never answered
       /\ IF niClient THEN ~SlotIsFree(slot) ELSE kind # "suplEs"
       /\ UNCHANGED <<slots, reqIDCounter, todo, thread, idOf, answers, marks>>

\* MsgReportNiNotify
HandleNotify ==
    /\ Receive("notify")
    /\ LET m == Head(inbox) IN
       \/ /\ Verdict(m.what) = "ask"
          /\ requestNiNotify(m.n, m.what.kind)
       \/ /\ Verdict(m.what) # "ask"
          /\ informNiResponse(m.n, Verdict(m.what))
          /\ UNCHANGED <<slots, reqIDCounter, todo, thread, idOf, marks>>
    /\ UNCHANGED <<niClient, taken, sent, said, late, odcpiVars>>

\* variant: any answer is for the request in the slot
MatchesAny(id, slot) == slots[slot].rawRequest # NULL

\* is this the id of the request in the slot?
Matches(id, slot) == slots[slot].reqID = id /\ slots[slot].rawRequest # NULL

\* MsgGnssNiResponse of a client: the slot is looked up without its lock
HandleRespond ==
    /\ Receive("respond")
    /\ LET m == Head(inbox) IN
       todo' = CASE niClient /\ Matches(m.id, "sessionEs") ->
                      (IF m.resp = "accept" THEN IgnoreSession ELSE << >>)
                        \o <<[slot |-> "sessionEs", resp |-> m.resp]>>
                 [] niClient /\ Matches(m.id, "session") /\ ~Matches(m.id, "sessionEs") ->
                      <<[slot |-> "session", resp |-> m.resp]>>
                 [] OTHER -> << >>
    /\ UNCHANGED <<niClient, slots, reqIDCounter, thread, taken, sent, idOf, said,
                   answers, late, marks, odcpiVars>>

\* then the response is stored under the lock, and the thread is signalled
StoreResponse ==
    /\ todo # << >>
    /\ LET t == Head(todo)
           n == slots[t.slot].rawRequest
       IN
       /\ slots' = [slots EXCEPT ![t.slot].resp = t.resp, ![t.slot].respRecvd = TRUE]
       /\ marks' = IF t.resp = "ignore" /\ n # NULL
                   THEN [marks EXCEPT ![n] = @ \cup {"overruled"}] ELSE marks
       /\ late' = IF n = NULL THEN late \cup {t.slot} ELSE late
    /\ todo' = Tail(todo)
    /\ UNCHANGED <<inbox, niClient, reqIDCounter, thread, taken, sent, idOf, said,
                   answers, odcpiVars>>

\* MsgGnssNiResponse of the thread
HandleInform ==
    /\ Receive("inform")
    /\ informNiResponse(Head(inbox).n, Head(inbox).resp)
    /\ UNCHANGED <<niClient, slots, reqIDCounter, todo, thread, taken, sent, idOf, said,
                   late, marks, odcpiVars>>

-----------------------------------------------------------------------------
(* NI: niThreadProc *)

SlotOf(n) == CHOOSE s \in Slots : slots[s].rawRequest = n

\* variant: pthread_cond_wait
WaitForEver(n) == FALSE

\* pthread_cond_timedwait gives up, and is to have the lock again
TimedWaitExpires(n) ==
    /\ thread[n] = "waiting" /\ ~slots[SlotOf(n)].respRecvd
    /\ thread' = [thread EXCEPT ![n] = "timedOut"]
    /\ UNCHANGED <<inbox, niClient, slots, reqIDCounter, todo, taken, sent, idOf, said,
                   answers, late, marks, odcpiVars>>

\* The locked section after the wait: the flag is reset, and the request taken
\* from the slot with its response, or freed with it when it is to be ignored.
TakeResponse(n) ==
    LET s == SlotOf(n)
        resp == IF thread[n] = "timedOut" THEN "noResponse" ELSE slots[s].resp
    IN
    /\ \/ thread[n] = "waiting" /\ slots[s].respRecvd
       \/ thread[n] = "timedOut"
    /\ slots' = [slots EXCEPT ![s].resp = resp, ![s].respRecvd = FALSE,
                              ![s].rawRequest = NULL]
    /\ late' = late \ {s}
    /\ taken' = [taken EXCEPT ![n] = resp]
    /\ thread' = [thread EXCEPT ![n] = IF s = "session" THEN "leaving" ELSE "leavingEs"]
    /\ UNCHANGED <<inbox, niClient, reqIDCounter, todo, sent, idOf, said, answers, marks,
                   odcpiVars>>

\* without the lock: the id of the slot is cleared, and the response sent
Leave(n) ==
    /\ thread[n] \in {"leaving", "leavingEs"}
    /\ slots' = [slots EXCEPT ![IF thread[n] = "leaving" THEN "session" ELSE "sessionEs"].reqID = NULL]
    /\ thread' = [thread EXCEPT ![n] = "ended"]
    /\ IF taken[n] = "ignore" THEN UNCHANGED inbox ELSE sendMsg(Inform(n, taken[n]))
    /\ UNCHANGED <<niClient, reqIDCounter, todo, taken, sent, idOf, said, answers, late, marks,
                   odcpiVars>>

-----------------------------------------------------------------------------
(* ODCPI *)

\* initOdcpi: the callback of Gnss is set, and the modem told to send requests
\* (LOC_API_ADAPTER_BIT_REQUEST_WIFI)
InitOdcpi ==
    /\ ~odcpi.callback /\ load.odcpi > 0 /\ todo = << >>
    /\ odcpi' = [odcpi EXCEPT !.callback = TRUE]
    /\ UNCHANGED <<inbox, niVars, running, asked, emergencyCall, wants, odcpiSent, crashes>>

\* requestOdcpiEvent; the modem starts for a kind, and stops what it started
ModemAsks ==
    /\ odcpi.callback /\ odcpiSent < load.odcpi
    /\ odcpiSent' = odcpiSent + 1
    /\ \E e \in BOOLEAN :
         \/ /\ sendMsg(Odcpi("start", e))
            /\ wants' = IF e THEN "emergency" ELSE "normal"
         \/ /\ wants # "nothing"
            /\ sendMsg(Odcpi("stop", e))
            /\ wants' = "nothing"
    /\ UNCHANGED <<niVars, odcpi, running, asked, emergencyCall, crashes>>

\* fireOdcpiRequest: Gnss takes both kinds, and starts only
fireOdcpiRequest(op, emergency) ==
    asked' = IF op = "stop" THEN asked ELSE IF emergency THEN "emergency" ELSE "normal"

\* variant: an emergency waits for the timer as well
PassedOnInTurn(emergency) == ~odcpi.active /\ ~odcpi.timer

\* a START that is passed on at once: nothing is active and no timer runs, or it
\* is an emergency and what is active is not
PassedOn(emergency) ==
    \/ ~odcpi.active /\ ~odcpi.timer
    \/ ~odcpi.emergency /\ emergency

\* requestOdcpi
HandleOdcpi ==
    /\ Receive("odcpi")
    /\ LET e == Head(inbox).emergency IN
       \/ /\ Head(inbox).op = "start" /\ PassedOn(e)
          /\ fireOdcpiRequest("start", e)
          /\ odcpi' = [odcpi EXCEPT !.active = TRUE, !.timer = TRUE, !.emergency = e]
          /\ running' = TRUE
          /\ emergencyCall' = (e \/ emergencyCall)
       \/ /\ Head(inbox).op = "start" /\ ~PassedOn(e)
          /\ odcpi' = [odcpi EXCEPT !.requestActive = @ \/ odcpi.timer, !.emergency = e]
          /\ UNCHANGED <<running, asked, emergencyCall>>
       \/ /\ Head(inbox).op = "stop"
          /\ fireOdcpiRequest("stop", e)
          /\ odcpi' = [odcpi EXCEPT !.active = FALSE]
          /\ emergencyCall' = (~e /\ emergencyCall)
          /\ UNCHANGED running
    /\ UNCHANGED <<niVars, wants, odcpiSent, crashes>>

\* OdcpiTimer::timeOutCallback, on the timer thread
TimerExpires ==
    /\ running
    /\ running' = FALSE
    /\ sendMsg(TimerExpired)
    /\ UNCHANGED <<niVars, odcpi, asked, emergencyCall, wants, odcpiSent, crashes>>

\* odcpiTimerExpire: an active request is asked again
HandleTimerExpired ==
    /\ Receive("timerExpired")
    /\ IF odcpi.active
       THEN /\ fireOdcpiRequest("start", odcpi.emergency)
            /\ running' = TRUE
            /\ UNCHANGED odcpi
       ELSE /\ odcpi' = [odcpi EXCEPT !.timer = FALSE]
            /\ running' = FALSE
            /\ UNCHANGED asked
    /\ UNCHANGED <<niVars, emergencyCall, wants, odcpiSent, crashes>>

\* the modem restarts, and wants nothing any more
Crash ==
    /\ crashes < load.crashes
    /\ crashes' = crashes + 1
    /\ wants' = "nothing"
    /\ sendMsg(EngineUp)
    /\ UNCHANGED <<niVars, odcpi, running, asked, emergencyCall, odcpiSent>>

\* restartSessions
HandleEngineUp ==
    /\ Receive("engineUp")
    /\ odcpi' = [odcpi EXCEPT !.requestActive = FALSE]
    /\ UNCHANGED <<niVars, running, asked, emergencyCall, wants, odcpiSent, crashes>>

-----------------------------------------------------------------------------
MessageThread ==
    /\ \/ HandleNotify \/ HandleRespond \/ StoreResponse \/ HandleInform
       \/ HandleOdcpi \/ HandleTimerExpired \/ HandleEngineUp
    /\ UNCHANGED load

NiThread(n) == (TakeResponse(n) \/ Leave(n)) /\ UNCHANGED load
NiTimeout(n) == TimedWaitExpires(n) /\ UNCHANGED load
TimerThread == TimerExpires /\ UNCHANGED load

Environment ==
    /\ \/ ModemNotifies \/ NiClientLeaves \/ InitOdcpi \/ ModemAsks \/ Crash
       \/ \E n \in NiRequests : UserResponds(n)
    /\ UNCHANGED load

Next ==
    \/ MessageThread \/ TimerThread \/ Environment
    \/ \E n \in NiRequests : NiThread(n) \/ NiTimeout(n)

\* Threads run while they have something to do, and time passes.
Fairness ==
    /\ WF_vars(MessageThread) /\ WF_vars(TimerThread)
    /\ \A n \in NiRequests : WF_vars(NiThread(n)) /\ WF_vars(NiTimeout(n))

Spec == Init /\ [][Next]_vars /\ Fairness

-----------------------------------------------------------------------------
(* Properties *)

\* The modem gets at most one answer to a request, and what it is told of one the
\* user was asked about is what the user said of that request, or that there was
\* no response: never the answer to another request, although ids, flags and
\* slots are used again and read without their locks.  Not so after a response
\* that was stored just when its request had timed out: it stays, and answers
\* the next request of the slot.
NiAnswersAreRight ==
    /\ TypeOK
    /\ \A n \in NiRequests :
         /\ Len(answers[n]) <= 1
         /\ answers[n] # << >> /\ thread[n] # "none" /\ "stale" \notin marks[n] =>
              answers[n][1] \in {said[n], "noResponse"}

\* A request the user was asked about is answered in the end, with or without
\* the user, and its slot given back; only one that an accepted emergency
\* overrules goes without an answer.
NiRequestsEnd ==
    \A n \in NiRequests :
        thread[n] = "waiting" ~>
            /\ thread[n] = "ended"
            /\ answers[n] # << >> \/ marks[n] # {}

\* all messages are handled, and the modem has not restarted
Settled == inbox = << >> /\ todo = << >> /\ crashes = 0

\* The timer of a request that is active is running, or its expiry is on its
\* way: the framework is asked again and again while the modem wants a position.
OdcpiIsAskedAgain ==
    /\ odcpi.active => odcpi.timer
    /\ odcpi.timer => running \/ \E i \in 1 .. Len(inbox) : inbox[i] = TimerExpired
    /\ running => odcpi.timer

\* Once the messages are handled the framework has been asked for what the modem
\* wants, and is not asked again for what it does not want; an emergency is asked
\* for as such, and SystemStatus knows of the call.  Not so after a START within
\* the time of the timer after a STOP, which sets mOdcpiRequestActive only, and
\* after a restart of the modem.
OdcpiFollowsModem ==
    /\ OdcpiIsAskedAgain
    /\ odcpi.active /\ odcpi.emergency => asked = "emergency" /\ emergencyCall
    /\ Settled => /\ odcpi.active => wants # "nothing"
                  /\ ~odcpi.requestActive =>
                       /\ wants # "nothing" => odcpi.active
                       /\ wants = "emergency" => asked = "emergency"

=============================================================================
