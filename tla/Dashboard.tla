------------------------------ MODULE Dashboard ------------------------------
(***************************************************************************)
(* The controls of one receiver on the dashboard.  A form has two sliders, *)
(* a "Safe state" button and a line for the result.  Moving a slider sends *)
(* both after 150 ms of rest, or at once when it is released.  A form has  *)
(* one request under way; what is asked for meanwhile is sent after it.    *)
(*                                                                         *)
(* A form lives in a page, and there may be several pages.  When an event  *)
(* stream opens again, or a node is found, the server sends the list of    *)
(* receivers anew and the page replaces its forms by fresh ones; timers    *)
(* and requests of the old ones go on.  Requests reach the receiver        *)
(* through the client of the service, which takes one at a time; Client    *)
(* says what it makes of them.                                             *)
(***************************************************************************)
EXTENDS Naturals

CONSTANTS
    Forms,          \* the forms that are shown sooner or later
    Settings,       \* positions of the two sliders
    Safe,           \* phase 0 and 23 dB, where the sliders start
    None,           \* no request, no form
    MaxActs         \* bound: movements, releases and clicks

Actions == {"safe", "combined"}
Requests == [action : Actions, value : Settings, answer : {"none", "ok", "error"}]

ASSUME DashboardAssumption ==
    /\ Safe \in Settings
    /\ None \notin Requests \cup Forms
    /\ MaxActs \in Nat

VARIABLES
    place,      \* of each form: "unborn", "shown" or "detached"
    sliders,    \* its sliders
    timer,      \* its applyTimer is running
    sending,    \* its request under way
    queued,     \* dataset.queued
    result,     \* class of its result line
    state,      \* what the receiver was set to last
    late,       \* requests given up on that may still be carried out
    acts,       \* movements, releases and clicks so far
    \* History, read by the properties only:
    last,       \* the form whose request the receiver carried out last
    calm        \* the form of the last click on "Safe state", if no other form was
                \* busy then and no slider was touched since

form == <<place, sliders, timer, sending, queued, result>>
receiver == <<state, late, last>>
vars == <<form, receiver, acts, calm>>

-----------------------------------------------------------------------------
TypeOK ==
    /\ place \in [Forms -> {"unborn", "shown", "detached"}]
    /\ sliders \in [Forms -> Settings]
    /\ timer \in [Forms -> BOOLEAN]
    /\ sending \in [Forms -> Requests \cup {None}]
    /\ queued \in [Forms -> BOOLEAN]
    /\ result \in [Forms -> {"", "pending", "success", "error"}]
    /\ state \in Settings
    /\ late \subseteq Forms \X Settings
    /\ acts \in 0..MaxActs
    /\ last \in Forms \cup {None}
    /\ calm \in Forms \cup {None}
    \* Something is only kept for later while a request is under way.
    /\ \A f \in Forms : queued[f] => sending[f] # None

\* The receiver may be steered when the first page opens.
Init ==
    /\ \E f \in Forms : place = [g \in Forms |-> IF g = f THEN "shown" ELSE "unborn"]
    /\ sliders = [f \in Forms |-> Safe]
    /\ timer = [f \in Forms |-> FALSE]
    /\ sending = [f \in Forms |-> None]
    /\ queued = [f \in Forms |-> FALSE]
    /\ result = [f \in Forms |-> ""]
    /\ state \in Settings
    /\ late = {}
    /\ acts = 0
    /\ last = None /\ calm = None

Busy(f) == timer[f] \/ sending[f] # None \/ queued[f]

-----------------------------------------------------------------------------
(* sendCommand()                                                           *)

\* Mutant: what is asked for during a request is dropped.
MutantRequest(f, action) ==
    IF sending[f] # None
    THEN UNCHANGED <<sending, queued, result>>
    ELSE /\ sending' = [sending EXCEPT ![f] =
                [action |-> action, value |-> IF action = "safe" THEN Safe ELSE sliders'[f],
                 answer |-> "none"]]
         /\ result' = [result EXCEPT ![f] = "pending"]
         /\ UNCHANGED queued

\* A request under way is followed by another; else the sliders are read now.
Request(f, action) ==
    IF sending[f] # None
    THEN queued' = [queued EXCEPT ![f] = TRUE] /\ UNCHANGED <<sending, result>>
    ELSE /\ sending' = [sending EXCEPT ![f] =
                [action |-> action, value |-> IF action = "safe" THEN Safe ELSE sliders'[f],
                 answer |-> "none"]]
         /\ result' = [result EXCEPT ![f] = "pending"]
         /\ UNCHANGED queued

\* "input": a slider is at another place; the timer starts from the beginning.
Move(f) ==
    /\ place[f] = "shown" /\ acts < MaxActs
    /\ \E s \in Settings \ {sliders[f]} : sliders' = [sliders EXCEPT ![f] = s]
    /\ timer' = [timer EXCEPT ![f] = TRUE]
    /\ result' = [result EXCEPT ![f] = "pending"]
    /\ acts' = acts + 1
    /\ calm' = None
    /\ UNCHANGED <<place, sending, queued, receiver>>

\* "change": the slider is released, before its timer ran out or after.
Release(f) ==
    /\ place[f] = "shown" /\ acts < MaxActs
    /\ acts' = acts + 1
    /\ UNCHANGED <<place, sliders>>
    /\ timer' = [timer EXCEPT ![f] = FALSE]
    /\ Request(f, "combined")
    /\ calm' = None
    /\ UNCHANGED receiver

\* Mutant: the timer of a movement before the click goes on.
MutantClickSafe(f) ==
    /\ place[f] = "shown" /\ sending[f] = None /\ acts < MaxActs
    /\ acts' = acts + 1
    /\ UNCHANGED <<place, sliders, timer>>
    /\ Request(f, "safe")
    /\ calm' = IF \A g \in Forms \ {f} : ~Busy(g) THEN f ELSE None
    /\ UNCHANGED receiver

\* The button works while nothing is under way; it cancels the timer.
ClickSafe(f) ==
    /\ place[f] = "shown" /\ sending[f] = None /\ acts < MaxActs
    /\ acts' = acts + 1
    /\ UNCHANGED <<place, sliders>>
    /\ timer' = [timer EXCEPT ![f] = FALSE]
    /\ Request(f, "safe")
    /\ calm' = IF \A g \in Forms \ {f} : ~Busy(g) THEN f ELSE None
    /\ UNCHANGED receiver

Expire(f) ==
    /\ timer[f]
    /\ timer' = [timer EXCEPT ![f] = FALSE]
    /\ UNCHANGED <<place, sliders>>
    /\ Request(f, "combined")
    /\ UNCHANGED <<receiver, acts, calm>>

\* The request that was kept is sent, with the sliders as they are now.
Follow(f) ==
    /\ queued' = [queued EXCEPT ![f] = FALSE]
    /\ sending' = [sending EXCEPT ![f] =
            [action |-> "combined", value |-> sliders'[f], answer |-> "none"]]
    /\ result' = [result EXCEPT ![f] = "pending"]

\* Mutant: the request that was kept is not looked for.
MutantFinish(f) ==
    /\ sending[f] # None /\ sending[f].answer # "none"
    /\ sliders' = IF sending[f].answer = "ok" /\ sending[f].action = "safe"
                  THEN [sliders EXCEPT ![f] = Safe] ELSE sliders
    /\ sending' = [sending EXCEPT ![f] = None]
    /\ result' = [result EXCEPT ![f] = IF sending[f].answer = "ok" THEN "success" ELSE "error"]
    /\ UNCHANGED <<queued, place, timer, receiver, acts, calm>>

\* The answer arrives: the sliders follow an acknowledged safe state.
Finish(f) ==
    /\ sending[f] # None /\ sending[f].answer # "none"
    /\ sliders' = IF sending[f].answer = "ok" /\ sending[f].action = "safe"
                  THEN [sliders EXCEPT ![f] = Safe] ELSE sliders
    /\ IF queued[f]
       THEN Follow(f)
       ELSE /\ sending' = [sending EXCEPT ![f] = None]
            /\ result' = [result EXCEPT ![f] =
                    IF sending[f].answer = "ok" THEN "success" ELSE "error"]
            /\ UNCHANGED queued
    /\ UNCHANGED <<place, timer, receiver, acts, calm>>

-----------------------------------------------------------------------------
(* The pages and the service                                               *)

Appears(g) == place[g] = "unborn"

\* Another page opens.
Open(g) ==
    /\ Appears(g)
    /\ place' = [place EXCEPT ![g] = "shown"]
    /\ UNCHANGED <<sliders, timer, sending, queued, result, receiver, acts, calm>>

\* The list of receivers is replaced in a page: markup the browser has read is
\* never the text the server sent.
Redraw(f, g) ==
    /\ place[f] = "shown" /\ Appears(g)
    /\ place' = [place EXCEPT ![f] = "detached", ![g] = "shown"]
    /\ UNCHANGED <<sliders, timer, sending, queued, result, receiver, acts, calm>>

Answer(f, a) == sending' = [sending EXCEPT ![f].answer = a]

Carry(f, value) == state' = value /\ last' = f

\* node_command(), one at a time in any order.  An acknowledged command comes after
\* everything sent before it; one that is not acknowledged was carried out, was not,
\* or will be.  An answer may be lost on its way to the page.
Serve(f) ==
    /\ sending[f] # None /\ sending[f].answer = "none"
    /\ \/ Carry(f, sending[f].value) /\ late' = {} /\ (Answer(f, "ok") \/ Answer(f, "error"))
       \/ Answer(f, "error") /\ UNCHANGED receiver
       \/ /\ Answer(f, "error")
          /\ late' = late \cup {<<f, sending[f].value>>}
          /\ UNCHANGED <<state, last>>
    /\ UNCHANGED <<place, sliders, timer, queued, result, acts, calm>>

\* The frame of a request that was given up on arrives, or is lost.
Late ==
    /\ \E r \in late :
         /\ late' = late \ {r}
         /\ Carry(r[1], r[2]) \/ UNCHANGED <<state, last>>
    /\ UNCHANGED <<form, acts, calm>>

-----------------------------------------------------------------------------
Step(f) == Expire(f) \/ Serve(f) \/ Finish(f)

Next ==
    \/ \E f \in Forms : Move(f) \/ Release(f) \/ ClickSafe(f) \/ Step(f) \/ Open(f)
    \/ \E f, g \in Forms : Redraw(f, g)
    \/ Late

Spec == Init /\ [][Next]_vars

\* Timers run out, requests are served and answered or break off.
FairSpec ==
    /\ Spec
    /\ \A f \in Forms : WF_vars(Expire(f)) /\ WF_vars(Serve(f)) /\ WF_vars(Finish(f))

-----------------------------------------------------------------------------
(* Properties                                                              *)

\* A safe state that was acknowledged to the user stays: no timer or queued request
\* undoes it, unless a slider was moved since the click or another form was busy
\* (web/static/dashboard.js:61-112, 127-134).  Nor does a frame of a request that
\* broke off, since Serve leaves none in flight behind an ACK, which is Client's
\* AckedStateStands.
SafeStays ==
    \A f \in Forms :
        calm = f /\ ~Busy(f) /\ result[f] = "success" => state = Safe

\* A form at rest that says "Acknowledged" and was the last to be heard shows in its
\* sliders what the receiver was set to: a movement made during a request is sent
\* when it ends, or, if the request was for the safe state, set back by its answer
\* (web/static/dashboard.js:61-125).
ShownIsSet ==
    \A f \in Forms :
        ~Busy(f) /\ result[f] = "success" /\ last = f => state = sliders[f]

\* When nobody touches the page any more every form comes to rest, with a result
\* and no "Waiting to apply" (web/static/dashboard.js:61-125).
ComesToRest == <>[](\A f \in Forms : ~Busy(f) /\ result[f] # "pending")
=============================================================================
