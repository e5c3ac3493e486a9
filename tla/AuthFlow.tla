------------------------------ MODULE AuthFlow ------------------------------
(***************************************************************************)
(* lumen-polkit-agent: one authentication request of polkitd, from         *)
(* initiate_authentication to its answer.  Each password attempt has a     *)
(* PolkitAgent.Session of its own; initiate() and cancel() complete the    *)
(* session from inside the call, so the handlers nest.                     *)
(***************************************************************************)
EXTENDS Naturals

CONSTANTS
  Identities,      \* who may authenticate
  NoSession,       \* the session is null, or over
  MAX_ATTEMPTS,
  MaxQueued        \* bound: answers typed ahead of the helper's questions

ASSUME AttemptsAssumption == MAX_ATTEMPTS \in Nat \ {0} /\ MaxQueued \in Nat
ASSUME SessionAssumption  == NoSession \notin Identities

VARIABLES
  phase,            \* "created", "waiting" (run has yielded) or "answered"
  session,          \* the identity the running session is for
  chosen,
  done, gained, user_cancelled, attempts,
  token,            \* the cancellable: polkitd withdrew the request
  busy,             \* the entry and the button are insensitive
  awaiting,         \* the helper has asked and waits
  queued,           \* passwords it was sent unasked
  answer,           \* what run() returned last
  proved            \* history: the identity the helper authorized

flowVars    == <<session, done, gained, attempts>>
helperVars  == <<awaiting, queued>>
answerVars  == <<phase, answer>>
requestVars == <<flowVars, chosen, user_cancelled, token, busy, helperVars, answerVars, proved>>

RequestInit ==
  /\ phase = "created"
  /\ session = NoSession
  /\ chosen \in Identities
  /\ done = FALSE /\ gained = FALSE /\ user_cancelled = FALSE
  /\ attempts = 0
  /\ token = FALSE
  /\ busy = FALSE
  /\ awaiting = FALSE /\ queued = 0
  /\ answer = "none"
  /\ proved = NoSession

-----------------------------------------------------------------------------
Exhausted(n) == n >= MAX_ATTEMPTS

\* What start_session can leave behind when n attempts have failed: a running
\* session, after any number of helpers that did not start, each a failed
\* attempt of its own; or a flow that these have finished.  Once done the
\* failures are ignored.
Started(n, over, id) ==
  LET Outcome(k, o, s) == [attempts |-> k, done |-> o, session |-> s]
      fails == n + 1 .. MAX_ATTEMPTS
  IN  {Outcome(n, over, id)}
      \union IF over THEN {Outcome(n, over, NoSession) : k \in fails}
             ELSE {IF Exhausted(k) THEN Outcome(k, TRUE, NoSession)
                   ELSE Outcome(k, FALSE, id) : k \in fails}

Become(outcome) ==
  /\ attempts' = outcome.attempts
  /\ done' = outcome.done
  /\ session' = outcome.session
  /\ awaiting' = FALSE /\ queued' = 0

\* Mutant: the verdict forgets that the user gave up.
VerdictOfFlowOnly(authorized, cancelled) == IF authorized THEN "granted" ELSE "denied"
Verdict(authorized, cancelled) ==
  IF cancelled THEN "cancelled" ELSE IF authorized THEN "granted" ELSE "denied"

\* run() returns; its last verdict is the one that stays.
Return(authorized, cancelled) ==
  /\ phase' = "answered"
  /\ answer' = Verdict(authorized, cancelled)

\* run().  If no helper starts, finish() resumes run() before it has yielded:
\* the coroutine runs from its start a second time inside its own call of
\* start_session, and returns from both.
Run ==
  /\ phase = "created"
  /\ \E outcome \in Started(0, FALSE, chosen) :
       IF outcome.done
       THEN /\ \E again \in Started(outcome.attempts, TRUE, chosen) : Become(again)
            /\ Return(FALSE, token)
       ELSE /\ Become(outcome)
            /\ phase' = "waiting"
            /\ UNCHANGED answer
  /\ UNCHANGED <<chosen, gained, user_cancelled, token, busy, proved>>

\* finish(): the running session is dropped and run() goes on.
Finish(authorized, cancelled) ==
  /\ done' = TRUE
  /\ gained' = authorized
  /\ session' = NoSession
  /\ awaiting' = FALSE /\ queued' = 0
  /\ Return(authorized, cancelled)

-----------------------------------------------------------------------------
SessionRunning == phase = "waiting" /\ session # NoSession

\* Mutant: a prompt leaves the entry as it is.
ShowPromptKeepsBusy == UNCHANGED busy
ShowPrompt == busy' = FALSE

\* The helper asks; a password typed ahead is its answer at once.
SessionRequest ==
  /\ SessionRunning
  /\ ~awaiting
  /\ awaiting' = (queued = 0)
  /\ queued' = IF queued = 0 THEN 0 ELSE queued - 1
  /\ ShowPrompt
  /\ UNCHANGED <<flowVars, chosen, user_cancelled, token, answerVars, proved>>

OnSubmit ==
  /\ SessionRunning
  /\ ~busy
  /\ queued < MaxQueued
  /\ busy' = TRUE
  /\ awaiting' = FALSE
  /\ queued' = IF awaiting THEN queued ELSE queued + 1
  /\ UNCHANGED <<flowVars, chosen, user_cancelled, token, answerVars, proved>>

SessionAuthorized ==
  /\ SessionRunning
  /\ ~awaiting
  /\ proved' = session
  /\ Finish(TRUE, user_cancelled \/ token)
  /\ UNCHANGED <<attempts, chosen, user_cancelled, token, busy>>

\* on_completed(false): another attempt, or the answer.
SessionFailed ==
  /\ SessionRunning
  /\ busy' = FALSE
  /\ IF Exhausted(attempts + 1)
     THEN /\ attempts' = attempts + 1
          /\ Finish(FALSE, user_cancelled \/ token)
     ELSE \E outcome \in Started(attempts + 1, FALSE, chosen) :
            /\ Become(outcome)
            /\ UNCHANGED gained
            /\ IF outcome.done THEN Return(FALSE, user_cancelled \/ token)
               ELSE UNCHANGED answerVars
  /\ UNCHANGED <<chosen, user_cancelled, token, proved>>

\* Mutant: the session of the identity chosen before goes on.
RestartSessionLater(id) == UNCHANGED <<flowVars, busy, helperVars, answerVars>>

\* restart_session(): cancelling completes the running session, which counts
\* as a failed attempt and starts a session of its own; that one is dropped
\* for another.
RestartSession(id) ==
  /\ busy' = FALSE
  /\ UNCHANGED gained
  /\ \E first \in IF Exhausted(attempts + 1)
                  THEN {[attempts |-> attempts + 1, done |-> TRUE, session |-> NoSession]}
                  ELSE Started(attempts + 1, FALSE, id) :
       \E second \in Started(first.attempts, first.done, id) :
         /\ Become(second)
         /\ IF second.done THEN Return(FALSE, user_cancelled \/ token)
            ELSE UNCHANGED answerVars

IdentityChanged ==
  /\ SessionRunning
  /\ \E id \in Identities \ {chosen} :
       /\ chosen' = id
       /\ RestartSession(id)
  /\ UNCHANGED <<user_cancelled, token, proved>>

\* Escape, the button, or a close of the window.
DialogCancel ==
  /\ phase = "waiting"
  /\ ~done
  /\ user_cancelled' = TRUE
  /\ Finish(FALSE, TRUE)
  /\ UNCHANGED <<attempts, chosen, token, busy, proved>>

\* polkitd withdraws the request, perhaps one that was answered already.
CancelAuthentication ==
  /\ phase # "created"
  /\ ~token
  /\ token' = TRUE
  /\ IF done THEN UNCHANGED <<flowVars, helperVars, answerVars>>
     ELSE Finish(FALSE, TRUE) /\ UNCHANGED attempts
  /\ UNCHANGED <<chosen, user_cancelled, busy, proved>>

RequestNext ==
  \/ Run
  \/ SessionRequest \/ OnSubmit
  \/ SessionAuthorized \/ SessionFailed
  \/ IdentityChanged
  \/ DialogCancel \/ CancelAuthentication

RequestSpec == RequestInit /\ [][RequestNext]_requestVars

-----------------------------------------------------------------------------
(***************************************************************************)
(* Properties.                                                             *)
(***************************************************************************)
\* Every variable has its type.
RequestTypeOK ==
  /\ phase \in {"created", "waiting", "answered"}
  /\ session \in Identities \union {NoSession}
  /\ chosen \in Identities
  /\ done \in BOOLEAN /\ gained \in BOOLEAN /\ user_cancelled \in BOOLEAN
  /\ attempts \in 0 .. MAX_ATTEMPTS
  /\ token \in BOOLEAN
  /\ busy \in BOOLEAN
  /\ awaiting \in BOOLEAN /\ queued \in 0 .. MaxQueued
  /\ answer \in {"none", "granted", "denied", "cancelled"}
  /\ proved \in Identities \union {NoSession}

\* A request is granted only to the identity the dialog showed last, after a
\* session for that identity succeeded, and not once it was given up.
GrantIsEarned ==
  /\ RequestTypeOK
  /\ answer = "granted" => proved = chosen /\ ~user_cancelled /\ gained

\* A request in progress has a session running for the identity the dialog
\* shows, with attempts left; none is waiting for a session that is over.
SessionIsForChosen ==
  phase = "waiting" => session = chosen /\ ~done /\ attempts < MAX_ATTEMPTS

\* The dialog is never shut while the helper waits for a password.
NeverShutWhileAsked == busy => ~awaiting

\* Somebody can always get on with a request in progress: its session runs and
\* its dialog takes the password the helper waits for.
RequestIsServed == SessionIsForChosen /\ NeverShutWhileAsked

\* An answer stands, whatever is cancelled after it, and giving up is never
\* reported as a denial.
AnswerStands ==
  [][/\ phase = "answered" => answer' = answer
     /\ (phase = "waiting" /\ user_cancelled') => answer' = "cancelled"]_requestVars
=============================================================================

