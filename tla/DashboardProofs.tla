--------------------------- MODULE DashboardProofs ---------------------------
(***************************************************************************)
(* Any number of forms, settings and acts: an acknowledged safe state      *)
(* stays, and a form at rest shows what it set.                            *)
(***************************************************************************)
EXTENDS Dashboard, TLAPS

\* The type invariant in two parts: the forms, and all else.
FormsOK ==
    /\ place \in [Forms -> {"unborn", "shown", "detached"}]
    /\ sliders \in [Forms -> Settings]
    /\ timer \in [Forms -> BOOLEAN]
    /\ sending \in [Forms -> Requests \cup {None}]
    /\ queued \in [Forms -> BOOLEAN]
    /\ result \in [Forms -> {"", "pending", "success", "error"}]
    /\ \A f \in Forms : queued[f] => sending[f] # None

RestOK ==
    /\ state \in Settings
    /\ late \subseteq Forms \X Settings
    /\ acts \in 0..MaxActs
    /\ last \in Forms \cup {None}
    /\ calm \in Forms \cup {None}

LEMMA Parts == TypeOK <=> FormsOK /\ RestOK
BY DEF TypeOK, FormsOK, RestOK

\* What sendCommand() sends, or keeps for later.
LEMMA RequestTyped ==
    ASSUME FormsOK, NEW f \in Forms, NEW action \in Actions, Request(f, action), sliders' = sliders
    PROVE  /\ sending' \in [Forms -> Requests \cup {None}]
           /\ queued' \in [Forms -> BOOLEAN]
           /\ result' \in [Forms -> {"", "pending", "success", "error"}]
           /\ \A g \in Forms : queued'[g] => sending'[g] # None
<1>1. CASE sending[f] # None
  BY <1>1 DEF Request, FormsOK
<1>2. CASE sending[f] = None
  <2> DEFINE r == [action |-> action, value |-> IF action = "safe" THEN Safe ELSE sliders'[f],
                   answer |-> "none"]
  <2>1. r \in Requests
    BY DashboardAssumption DEF Requests, FormsOK
  <2>2. /\ sending' = [sending EXCEPT ![f] = r]
        /\ result' = [result EXCEPT ![f] = "pending"] /\ queued' = queued
    BY <1>2 DEF Request
  <2>3. ~queued[f]
    BY <1>2 DEF FormsOK
  <2> HIDE DEF r
  <2> QED
    BY <2>1, <2>2, <2>3 DEF FormsOK
<1> QED
  BY <1>1, <1>2

LEMMA FormsStep == FormsOK /\ [Next]_vars => FormsOK'
<1> SUFFICES ASSUME FormsOK, [Next]_vars
             PROVE  FormsOK'
  OBVIOUS
<1>1. ASSUME NEW f \in Forms, Move(f) PROVE FormsOK'
  BY <1>1 DEF Move, FormsOK
<1>2. ASSUME NEW f \in Forms, Release(f) \/ ClickSafe(f) \/ Expire(f) PROVE FormsOK'
  <2>1. PICK action \in Actions : Request(f, action)
    BY <1>2 DEF Release, ClickSafe, Expire, Actions
  <2>2. place' = place /\ sliders' = sliders /\ timer' = [timer EXCEPT ![f] = FALSE]
    BY <1>2 DEF Release, ClickSafe, Expire
  <2> QED
    BY <2>1, <2>2, RequestTyped DEF FormsOK
<1>3. ASSUME NEW f \in Forms, Finish(f) PROVE FormsOK'
  <2>1. sliders' \in [Forms -> Settings]
    BY <1>3, DashboardAssumption DEF Finish, FormsOK
  <2>2. place' = place /\ timer' = timer
    BY <1>3 DEF Finish
  <2>3. CASE queued[f]
    <3> DEFINE r == [action |-> "combined", value |-> sliders'[f], answer |-> "none"]
    <3>1. r \in Requests
      BY <2>1 DEF Requests, Actions
    <3>2. /\ queued' = [queued EXCEPT ![f] = FALSE]
          /\ sending' = [sending EXCEPT ![f] = r]
          /\ result' = [result EXCEPT ![f] = "pending"]
      BY <1>3, <2>3 DEF Finish, Follow
    <3> HIDE DEF r
    <3> QED
      BY <2>1, <2>2, <3>1, <3>2 DEF FormsOK
  <2>4. CASE ~queued[f]
    <3>1. sending' = [sending EXCEPT ![f] = None] /\ queued' = queued
      BY <1>3, <2>4 DEF Finish
    <3>2. result' \in [Forms -> {"", "pending", "success", "error"}]
      BY <1>3, <2>4 DEF Finish, FormsOK
    <3>3. place' \in [Forms -> {"unborn", "shown", "detached"}] /\ timer' \in [Forms -> BOOLEAN]
      BY <2>2 DEF FormsOK
    <3>4. sending' \in [Forms -> Requests \cup {None}] /\ queued' \in [Forms -> BOOLEAN]
      BY <3>1 DEF FormsOK
    <3>5. \A g \in Forms : queued'[g] => sending'[g] # None
      BY <2>4, <3>1 DEF FormsOK
    <3> QED
      BY <2>1, <3>2, <3>3, <3>4, <3>5 DEF FormsOK
  <2> QED
    BY <2>3, <2>4
<1>4. ASSUME NEW f \in Forms, Serve(f) PROVE FormsOK'
  <2>1. PICK a \in {"ok", "error"} : sending' = [sending EXCEPT ![f].answer = a]
    BY <1>4 DEF Serve, Answer
  <2>2. sending[f] \in Requests
    BY <1>4 DEF Serve, FormsOK
  <2>3. [sending[f] EXCEPT !.answer = a] \in Requests
    BY <2>2 DEF Requests
  <2>4. /\ place' = place /\ sliders' = sliders /\ timer' = timer
        /\ queued' = queued /\ result' = result
    BY <1>4 DEF Serve
  <2> QED
    BY <2>1, <2>3, <2>4, DashboardAssumption DEF FormsOK
<1>5. ASSUME NEW f \in Forms, NEW g \in Forms, Open(g) \/ Redraw(f, g) PROVE FormsOK'
  BY <1>5 DEF Open, Redraw, FormsOK
<1>6. CASE Late
  BY <1>6 DEF Late, form, FormsOK
<1>7. CASE UNCHANGED vars
  BY <1>7 DEF vars, form, FormsOK
<1> QED
  BY <1>1, <1>2, <1>3, <1>4, <1>5, <1>6, <1>7 DEF Next, Step

LEMMA RestStep == FormsOK /\ RestOK /\ [Next]_vars => RestOK'
<1> SUFFICES ASSUME FormsOK, RestOK, [Next]_vars
             PROVE  RestOK'
  OBVIOUS
<1> USE DEF receiver
<1>1. ASSUME NEW f \in Forms, Move(f) \/ Release(f) \/ ClickSafe(f) PROVE RestOK'
  BY <1>1, DashboardAssumption DEF Move, Release, ClickSafe, RestOK
<1>2. ASSUME NEW f \in Forms, Expire(f) \/ Finish(f) PROVE RestOK'
  BY <1>2 DEF Expire, Finish, RestOK
<1>3. ASSUME NEW f \in Forms, Serve(f) PROVE RestOK'
  <2>1. sending[f].value \in Settings
    BY <1>3 DEF Serve, FormsOK, Requests
  <2> QED
    BY <1>3, <2>1 DEF Serve, Carry, RestOK
<1>4. ASSUME NEW f \in Forms, NEW g \in Forms, Open(g) \/ Redraw(f, g) PROVE RestOK'
  BY <1>4 DEF Open, Redraw, RestOK
<1>5. CASE Late
  BY <1>5 DEF Late, Carry, RestOK
<1>6. CASE UNCHANGED vars
  BY <1>6 DEF vars, RestOK
<1> QED
  BY <1>1, <1>2, <1>3, <1>4, <1>5, <1>6 DEF Next, Step

\* The state of forms and receiver is always well-typed, and something is kept for
\* later only while a request is under way.
THEOREM DashboardTyped == Spec => []TypeOK
<1>1. Init => FormsOK /\ RestOK
  <2> SUFFICES ASSUME Init
               PROVE  FormsOK /\ RestOK
    OBVIOUS
  <2>1. RestOK
    <3>1. state \in Settings /\ late = {} /\ acts = 0 /\ last = None /\ calm = None
      BY DEF Init
    <3> QED
      BY <3>1, DashboardAssumption DEF RestOK
  <2>2. place \in [Forms -> {"unborn", "shown", "detached"}] /\ sliders \in [Forms -> Settings]
    BY DashboardAssumption DEF Init
  <2>3. timer \in [Forms -> BOOLEAN] /\ queued \in [Forms -> BOOLEAN]
    BY DEF Init
  <2>4. /\ sending \in [Forms -> Requests \cup {None}]
        /\ result \in [Forms -> {"", "pending", "success", "error"}]
    BY DEF Init
  <2>5. \A f \in Forms : ~queued[f]
    BY DEF Init
  <2> QED
    BY <2>1, <2>2, <2>3, <2>4, <2>5 DEF FormsOK
<1> QED
  BY <1>1, Parts, FormsStep, RestStep, PTL DEF Spec

-----------------------------------------------------------------------------
(* A safe state stays                                                      *)

\* After a click nothing else is on its way: only the safe request of the form
\* itself and, until it is acknowledged, frames of requests given up on before.
Calm(f) ==
    /\ \A g \in Forms \ {f} : ~Busy(g)
    /\ ~timer[f] /\ ~queued[f]
    /\ sending[f] # None =>
         /\ sending[f].action = "safe" /\ sending[f].value = Safe
         /\ sending[f].answer = "ok" => state = Safe /\ late = {}
    /\ sending[f] = None /\ result[f] = "success" => state = Safe /\ late = {}

SafeInv == calm # None => Calm(calm)

\* A form that gets its request under way, with nobody else busy, is calm.
LEMMA ClickCalms ==
    ASSUME FormsOK, NEW f \in Forms, ClickSafe(f), \A g \in Forms \ {f} : ~Busy(g)
    PROVE  Calm(f)'
<1>1. /\ sending[f] = None /\ ~queued[f]
      /\ timer' = [timer EXCEPT ![f] = FALSE] /\ queued' = queued
  BY DEF ClickSafe, Request, FormsOK
<1>2. /\ sending' = [sending EXCEPT ![f] = [action |-> "safe", value |-> Safe, answer |-> "none"]]
      /\ result' = [result EXCEPT ![f] = "pending"]
  BY <1>1 DEF ClickSafe, Request
<1>3. \A g \in Forms \ {f} : ~Busy(g)'
  BY <1>1, <1>2 DEF Busy, FormsOK
<1>4. sending'[f] = [action |-> "safe", value |-> Safe, answer |-> "none"] /\ ~timer'[f] /\ ~queued'[f]
      /\ result'[f] = "pending"
  BY <1>1, <1>2 DEF FormsOK
<1> QED
  BY <1>3, <1>4 DEF Calm

LEMMA SafeStep == TypeOK /\ SafeInv /\ [Next]_vars => SafeInv'
<1> SUFFICES ASSUME TypeOK, SafeInv, [Next]_vars
             PROVE  SafeInv'
  OBVIOUS
<1> USE DEF receiver
<1>0. FormsOK /\ calm \in Forms \cup {None}
  BY Parts DEF RestOK
<1>1. ASSUME NEW f \in Forms, Move(f) \/ Release(f) PROVE SafeInv'
  BY <1>1 DEF Move, Release, SafeInv
<1>2. ASSUME NEW f \in Forms, ClickSafe(f) PROVE SafeInv'
  <2>1. CASE \A g \in Forms \ {f} : ~Busy(g)
    <3>1. calm' = f
      BY <1>2, <2>1 DEF ClickSafe
    <3> QED
      BY <1>0, <1>2, <2>1, <3>1, ClickCalms DEF SafeInv, Calm, Busy
  <2>2. CASE ~(\A g \in Forms \ {f} : ~Busy(g))
    BY <1>2, <2>2 DEF ClickSafe, SafeInv
  <2> QED
    BY <2>1, <2>2
\* From here on the form that is calm stays the same.
<1>3. ASSUME NEW c \in Forms, calm = c, calm' = c, Calm(c), NEW f \in Forms,
             Expire(f) \/ Finish(f) \/ Serve(f)
      PROVE  Calm(c)'
  <2>1. f = c
    BY <1>3 DEF Calm, Busy, Expire, Finish, Serve
  <2>2. CASE Expire(f)
    BY <1>3, <2>1, <2>2 DEF Expire, Calm
  <2>3. CASE Finish(f)
    <3>1. /\ sending' = [sending EXCEPT ![c] = None] /\ timer' = timer /\ queued' = queued
          /\ result' = [result EXCEPT ![c] = IF sending[c].answer = "ok" THEN "success" ELSE "error"]
          /\ state' = state /\ late' = late /\ sending[c] # None
      BY <1>3, <2>1, <2>3 DEF Finish, Calm
    <3>2. \A g \in Forms \ {c} : ~Busy(g)'
      BY <1>0, <1>3, <3>1 DEF Busy, Calm, FormsOK
    <3>3. sending'[c] = None /\ (result'[c] = "success" => sending[c].answer = "ok")
      BY <1>0, <3>1 DEF FormsOK
    <3> QED
      BY <1>3, <3>1, <3>2, <3>3 DEF Calm
  <2>4. CASE Serve(f)
    <3>1. PICK a \in {"ok", "error"} :
            /\ sending' = [sending EXCEPT ![c] = [@ EXCEPT !.answer = a]]
            /\ a = "ok" => state' = sending[c].value /\ late' = {}
      BY <2>1, <2>4 DEF Serve, Answer, Carry
    <3>2. /\ sending[c] # None /\ sending[c] \in Requests
          /\ timer' = timer /\ queued' = queued /\ result' = result
      BY <1>0, <2>1, <2>4 DEF Serve, FormsOK
    <3>3. /\ sending'[c] = [sending[c] EXCEPT !.answer = a]
          /\ \A g \in Forms \ {c} : sending'[g] = sending[g]
      BY <1>0, <3>1 DEF FormsOK
    <3>4. /\ sending'[c] \in Requests /\ sending'[c].answer = a
          /\ sending'[c].action = sending[c].action /\ sending'[c].value = sending[c].value
      BY <3>2, <3>3 DEF Requests
    <3>5. sending'[c] # None
      BY <3>4, DashboardAssumption
    <3> QED
      BY <1>3, <3>1, <3>2, <3>3, <3>4, <3>5 DEF Calm, Busy
  <2> QED
    BY <1>3, <2>2, <2>3, <2>4
<1>4. ASSUME NEW f \in Forms, Step(f) PROVE SafeInv'
  <2>1. calm' = calm
    BY <1>4 DEF Step, Expire, Finish, Serve
  <2> QED
    BY <1>0, <1>3, <1>4, <2>1 DEF Step, SafeInv, Calm, Busy
<1>5. ASSUME NEW f \in Forms, NEW g \in Forms, Open(g) \/ Redraw(f, g) PROVE SafeInv'
  BY <1>5 DEF Open, Redraw, SafeInv, Calm, Busy
<1>6. CASE Late
  BY <1>6 DEF Late, form, SafeInv, Calm, Busy
<1>7. CASE UNCHANGED vars
  BY <1>7 DEF vars, form, SafeInv, Calm, Busy
<1> QED
  BY <1>1, <1>2, <1>4, <1>5, <1>6, <1>7 DEF Next

\* A safe state that was acknowledged is not undone by what the page had in hand.
THEOREM SafeAlwaysStays == Spec => []SafeStays
<1>1. Init => SafeInv
  BY DEF Init, SafeInv
<1>2. SafeInv => SafeStays
  BY DashboardAssumption DEF SafeInv, SafeStays, Calm, Busy
<1> QED
  BY <1>1, <1>2, SafeStep, DashboardTyped, PTL DEF Spec

-----------------------------------------------------------------------------
(* A form at rest shows what it set                                        *)

\* No request of f that was given up on is left.
Heard(f) == \A r \in late : r[1] # f

\* A request at hand and its sliders belong together, and an acknowledged one was
\* the last thing the receiver heard from its form.
ShownInv ==
    \A f \in Forms :
        /\ sending[f] # None =>
             /\ sending[f].action = "safe" => sending[f].value = Safe
             /\ sending[f].action = "combined" /\ ~timer[f] /\ ~queued[f] =>
                  sending[f].value = sliders[f]
             /\ sending[f].answer = "ok" =>
                  Heard(f) /\ (last = f => state = sending[f].value)
        /\ sending[f] = None /\ ~timer[f] /\ result[f] = "success" =>
             Heard(f) /\ (last = f => state = sliders[f])

\* What sendCommand() leaves of it.
LEMMA RequestShows ==
    ASSUME TypeOK, ShownInv, NEW f \in Forms, NEW action \in Actions, Request(f, action),
           action = "combined" \/ sending[f] = None,
           sliders' = sliders, timer' = [timer EXCEPT ![f] = FALSE], UNCHANGED receiver
    PROVE  ShownInv'
<1> USE DEF receiver
<1>0. FormsOK
  BY Parts
<1>1. CASE sending[f] # None
  <2>1. /\ queued' = [queued EXCEPT ![f] = TRUE]
        /\ sending' = sending /\ result' = result
    BY <1>1 DEF Request
  <2>2. queued'[f] /\ \A g \in Forms \ {f} : queued'[g] = queued[g] /\ timer'[g] = timer[g]
    BY <1>0, <2>1 DEF FormsOK
  <2> QED
    BY <1>1, <2>1, <2>2 DEF ShownInv, Heard
<1>2. CASE sending[f] = None
  <2> DEFINE r == [action |-> action, value |-> IF action = "safe" THEN Safe ELSE sliders[f],
                   answer |-> "none"]
  <2>1. /\ sending' = [sending EXCEPT ![f] = r]
        /\ result' = [result EXCEPT ![f] = "pending"] /\ queued' = queued
    BY <1>2 DEF Request
  <2>2. /\ sending'[f] = r
        /\ \A g \in Forms \ {f} : /\ sending'[g] = sending[g] /\ result'[g] = result[g]
                                  /\ timer'[g] = timer[g]
    BY <1>0, <2>1 DEF FormsOK
  <2>3. r \in Requests
    BY <1>0, DashboardAssumption DEF Requests, FormsOK
  <2>4. sending'[f] # None
    BY <2>2, <2>3, DashboardAssumption
  <2>5. /\ sending'[f].action = "safe" => sending'[f].value = Safe
        /\ sending'[f].action = "combined" => sending'[f].value = sliders[f]
        /\ sending'[f].answer = "none"
    BY <2>2
  <2> HIDE DEF r
  <2> QED
    BY <2>1, <2>2, <2>4, <2>5 DEF ShownInv, Heard
<1> QED
  BY <1>1, <1>2

\* An answer arrives, and perhaps the next request goes out.
LEMMA FinishShows ==
    ASSUME TypeOK, ShownInv, NEW f \in Forms, Finish(f)
    PROVE  ShownInv'
<1> USE DEF receiver
<1>0. FormsOK
  BY Parts
<1>1. /\ sending[f] # None /\ sending[f] \in Requests
      /\ timer' = timer /\ state' = state /\ late' = late /\ last' = last
      /\ sliders' = IF sending[f].answer = "ok" /\ sending[f].action = "safe"
                    THEN [sliders EXCEPT ![f] = Safe] ELSE sliders
  BY <1>0 DEF Finish, FormsOK
<1>2. /\ sliders'[f] = IF sending[f].answer = "ok" /\ sending[f].action = "safe"
                       THEN Safe ELSE sliders[f]
      /\ sliders'[f] \in Settings
      /\ \A g \in Forms \ {f} : sliders'[g] = sliders[g]
  BY <1>0, <1>1, DashboardAssumption DEF FormsOK
<1>3. CASE queued[f]
  <2> DEFINE r == [action |-> "combined", value |-> sliders'[f], answer |-> "none"]
  <2>1. /\ sending' = [sending EXCEPT ![f] = r]
        /\ result' = [result EXCEPT ![f] = "pending"] /\ queued' = [queued EXCEPT ![f] = FALSE]
    BY <1>3 DEF Finish, Follow
  <2>2. /\ sending'[f] = r
        /\ \A g \in Forms \ {f} : /\ sending'[g] = sending[g] /\ result'[g] = result[g]
                                  /\ queued'[g] = queued[g]
    BY <1>0, <2>1 DEF FormsOK
  <2>3. r \in Requests
    BY <1>2 DEF Requests, Actions
  <2>4. sending'[f] # None
    BY <2>2, <2>3, DashboardAssumption
  <2>5. /\ sending'[f].action = "combined" /\ sending'[f].value = sliders'[f]
        /\ sending'[f].answer = "none"
    BY <2>2
  <2> HIDE DEF r
  <2> QED
    BY <1>1, <1>2, <2>2, <2>4, <2>5 DEF ShownInv, Heard
<1>4. CASE ~queued[f]
  <2>1. /\ sending' = [sending EXCEPT ![f] = None] /\ queued' = queued
        /\ result' = [result EXCEPT ![f] = IF sending[f].answer = "ok" THEN "success" ELSE "error"]
    BY <1>4 DEF Finish
  <2>2. /\ sending'[f] = None
        /\ result'[f] = "success" => sending[f].answer = "ok"
        /\ \A g \in Forms \ {f} : sending'[g] = sending[g] /\ result'[g] = result[g]
    BY <1>0, <2>1 DEF FormsOK
  <2>3. ASSUME ~timer[f], result'[f] = "success"
        PROVE  Heard(f) /\ (last = f => state = sliders'[f])
    <3>1. /\ Heard(f) /\ (last = f => state = sending[f].value)
          /\ sending[f].action = "safe" => sending[f].value = Safe
          /\ sending[f].action = "combined" => sending[f].value = sliders[f]
      BY <1>1, <1>4, <2>2, <2>3 DEF ShownInv
    <3>2. sending[f].action \in {"safe", "combined"}
      BY <1>1 DEF Requests, Actions
    <3> QED
      BY <1>2, <2>2, <2>3, <3>1, <3>2
  <2> QED
    BY <1>1, <1>2, <2>1, <2>2, <2>3 DEF ShownInv, Heard
<1> QED
  BY <1>3, <1>4

\* The receiver is set by f, or not, and f is told so, or not.
LEMMA ServeShows ==
    ASSUME TypeOK, ShownInv, NEW f \in Forms, Serve(f)
    PROVE  ShownInv'
<1> USE DEF receiver
<1>0. FormsOK /\ late \subseteq Forms \X Settings
  BY Parts DEF RestOK
<1>1. /\ sending[f] # None /\ sending[f] \in Requests /\ sending[f].answer = "none"
      /\ sliders' = sliders /\ timer' = timer /\ queued' = queued /\ result' = result
  BY <1>0 DEF Serve, FormsOK
<1>2. PICK a \in {"ok", "error"} :
        /\ sending' = [sending EXCEPT ![f] = [@ EXCEPT !.answer = a]]
        /\ a = "ok" => late' = {} /\ state' = sending[f].value
        /\ late' \subseteq late \cup {<<f, sending[f].value>>}
        /\ last' = f \/ (last' = last /\ state' = state)
  BY DEF Serve, Answer, Carry
<1>3. /\ sending'[f] = [sending[f] EXCEPT !.answer = a]
      /\ \A g \in Forms \ {f} : sending'[g] = sending[g]
  BY <1>0, <1>2 DEF FormsOK
<1>4. /\ sending'[f].answer = a
      /\ sending'[f].action = sending[f].action /\ sending'[f].value = sending[f].value
      /\ sending'[f] \in Requests
  BY <1>1, <1>3 DEF Requests
<1>5. sending'[f] # None
  BY <1>4, DashboardAssumption
<1>6. \A g \in Forms \ {f} : Heard(g) => Heard(g)'
  BY <1>2 DEF Heard
<1>7. ASSUME NEW g \in Forms \ {f}
      PROVE  /\ Heard(g) => Heard(g)'
             /\ last' = g => last = g /\ state' = state
             /\ sending'[g] = sending[g]
  BY <1>2, <1>3, <1>6
<1>8. a = "ok" => Heard(f)'
  BY <1>2 DEF Heard
<1>9. ASSUME NEW g \in Forms \ {f}
      PROVE  /\ sending'[g] # None =>
                  /\ sending'[g].action = "safe" => sending'[g].value = Safe
                  /\ sending'[g].action = "combined" /\ ~timer'[g] /\ ~queued'[g] =>
                       sending'[g].value = sliders'[g]
                  /\ sending'[g].answer = "ok" =>
                       Heard(g)' /\ (last' = g => state' = sending'[g].value)
             /\ sending'[g] = None /\ ~timer'[g] /\ result'[g] = "success" =>
                  Heard(g)' /\ (last' = g => state' = sliders'[g])
  BY <1>1, <1>7 DEF ShownInv
<1>10. /\ sending'[f].action = "safe" => sending'[f].value = Safe
       /\ sending'[f].action = "combined" /\ ~timer'[f] /\ ~queued'[f] =>
            sending'[f].value = sliders'[f]
       /\ sending'[f].answer = "ok" => Heard(f)' /\ state' = sending'[f].value
  BY <1>1, <1>2, <1>4, <1>8 DEF ShownInv
<1> QED
  BY <1>5, <1>9, <1>10 DEF ShownInv

LEMMA ShownStep == TypeOK /\ ShownInv /\ [Next]_vars => ShownInv'
<1> SUFFICES ASSUME TypeOK, ShownInv, [Next]_vars
             PROVE  ShownInv'
  OBVIOUS
<1> USE DEF receiver
<1>0. FormsOK
  BY Parts
<1>1. ASSUME NEW f \in Forms, Move(f) PROVE ShownInv'
  <2>1. /\ timer'[f] /\ \A g \in Forms \ {f} : /\ timer'[g] = timer[g] /\ result'[g] = result[g]
                                               /\ sliders'[g] = sliders[g]
        /\ sending' = sending /\ queued' = queued
        /\ state' = state /\ late' = late /\ last' = last
    BY <1>0, <1>1 DEF Move, FormsOK
  <2> QED
    BY <2>1 DEF ShownInv, Heard
<1>2. ASSUME NEW f \in Forms, Release(f) \/ ClickSafe(f) \/ Expire(f) PROVE ShownInv'
  <2>1. PICK action \in Actions :
          Request(f, action) /\ (action = "combined" \/ sending[f] = None)
    BY <1>2 DEF Release, ClickSafe, Expire, Actions
  <2>2. sliders' = sliders /\ timer' = [timer EXCEPT ![f] = FALSE] /\ UNCHANGED receiver
    BY <1>2 DEF Release, ClickSafe, Expire
  <2> QED
    BY <2>1, <2>2, RequestShows
<1>3. ASSUME NEW f \in Forms, Finish(f) PROVE ShownInv'
  BY <1>3, FinishShows
<1>4. ASSUME NEW f \in Forms, Serve(f) PROVE ShownInv'
  BY <1>4, ServeShows
<1>5. ASSUME NEW f \in Forms, NEW g \in Forms, Open(g) \/ Redraw(f, g) PROVE ShownInv'
  BY <1>5 DEF Open, Redraw, ShownInv, Heard
<1>6. CASE Late
  <2>1. PICK r \in late : late' = late \ {r} /\ (last' = r[1] \/ (last' = last /\ state' = state))
    BY <1>6 DEF Late, Carry
  <2>2. /\ sliders' = sliders /\ timer' = timer /\ sending' = sending
        /\ queued' = queued /\ result' = result
    BY <1>6 DEF Late, form
  <2>3. \A f \in Forms : Heard(f) => Heard(f)' /\ (last' = f => last = f /\ state' = state)
    BY <2>1 DEF Heard
  <2> QED
    BY <2>2, <2>3 DEF ShownInv
<1>7. CASE UNCHANGED vars
  BY <1>7 DEF vars, form, ShownInv, Heard
<1> QED
  BY <1>1, <1>2, <1>3, <1>4, <1>5, <1>6, <1>7 DEF Next, Step

\* A form at rest that says "Acknowledged" and was heard last shows what is set.
THEOREM ShownIsAlwaysSet == Spec => []ShownIsSet
<1>1. Init => ShownInv
  <2> SUFFICES ASSUME Init, NEW f \in Forms
               PROVE  sending[f] = None /\ result[f] = ""
    BY DEF ShownInv
  <2> QED
    BY DEF Init
<1>2. ShownInv => ShownIsSet
  BY DEF ShownInv, ShownIsSet, Busy
<1> QED
  BY <1>1, <1>2, ShownStep, DashboardTyped, PTL DEF Spec
=============================================================================
