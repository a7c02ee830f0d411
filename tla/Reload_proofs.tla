---------------------------- MODULE Reload_proofs ----------------------------
(***************************************************************************)
(* Theorems about Reload, for any configurations and any number of         *)
(* signals, edits and failures.                                            *)
(***************************************************************************)
EXTENDS Reload, TLAPS

USE ReloadAssumption DEF ReloadAssumption

-----------------------------------------------------------------------------
(***************************************************************************)
(* Type correctness, in two parts: the provers treat Booleans apart.       *)
(***************************************************************************)

Flags == /\ validate_again \in BOOLEAN /\ sighup_caught \in BOOLEAN
         /\ sigint_caught \in BOOLEAN /\ announced \in BOOLEAN
         /\ fresh \in BOOLEAN /\ served \in BOOLEAN

Values ==
  /\ pc \in {"starting", "serving", "requested", "not_requested", "returned", "failed",
             "leaving", "exited"}
  /\ opts \in Valid
  /\ fallback_options \in Valid \cup {NoConfig} /\ reload_candidate \in Valid \cup {NoConfig}
  /\ validation \in {"none", "running", "hung", "ready"}
  /\ read \in Configs \cup {NoConfig}
  /\ (validation = "ready" => read \in Valid \cup {NoConfig})
  /\ exit_code \in {0, 1}
  /\ disk \in Configs
  /\ hangups \in 0 .. MaxHangups /\ edits \in 0 .. MaxEdits
  /\ troubles \in 0 .. MaxTroubles

\* The flags are set to TRUE or FALSE, or kept.
LEMMA FlagsStep == Flags /\ [Next]_vars => Flags'
<1> SUFFICES ASSUME Flags, [Next]_vars PROVE Flags'
  OBVIOUS
<1> USE DEF Flags, options_vars, validation_vars, user_vars
<1>1. ASSUME NEW c \in Configs, Edit(c) PROVE Flags'
  BY <1>1, Zenon DEF Edit
<1>2. CASE on_sighup
  BY <1>2, Zenon DEF on_sighup
<1>3. CASE on_sigint
  BY <1>3, Zenon DEF on_sigint
<1>4. CASE ValidationReads
  BY <1>4, Zenon DEF ValidationReads
<1>5. CASE ValidationEnds
  BY <1>5, Zenon DEF ValidationEnds
<1>6. CASE ValidationHangs
  BY <1>6, Zenon DEF ValidationHangs
<1>7. CASE ServerStarts
  BY <1>7, Zenon DEF ServerStarts
<1>8. CASE ServerCannotStart
  BY <1>8, Zenon DEF ServerCannotStart
<1>9. CASE ServerBreaks
  BY <1>9, Zenon DEF ServerBreaks
<1>10. CASE StopForInterrupt
  BY <1>10, Zenon DEF StopForInterrupt
<1>11. CASE QueueValidation
  BY <1>11, Zenon DEF QueueValidation
<1>11a. CASE ShouldStopForReload \/ NotReady
  BY <1>11a, Zenon DEF ShouldStopForReload, NotReady
<1>12. CASE Revalidate
  BY <1>12, Zenon DEF Revalidate
<1>13. CASE ValidateAgain
  BY <1>13, Zenon DEF ValidateAgain
<1>14. CASE TakeResult
  BY <1>14, Zenon DEF TakeResult
<1>15. CASE Replace
  BY <1>15, Zenon DEF Replace
<1>16. CASE Restore
  BY <1>16, Zenon DEF Restore
<1>17. CASE GiveUp
  BY <1>17, Zenon DEF GiveUp
<1>18. CASE Stop
  BY <1>18, Zenon DEF Stop
<1>19. CASE Leave
  BY <1>19, Zenon DEF Leave
<1>20. CASE UNCHANGED vars
  BY <1>20, Zenon DEF vars
<1>21. QED
  BY <1>1, <1>2, <1>3, <1>4, <1>5, <1>6, <1>7, <1>8, <1>9, <1>10, <1>11, <1>11a, <1>12,
     <1>13, <1>14, <1>15, <1>16, <1>17, <1>18, <1>19, <1>20, Zenon
     DEF Next, Main, Validator, ValidateReload

\* The configurations in use have been validated, and the counters have their bounds.
LEMMA ValuesStep == Values /\ [Next]_vars => Values'
<1> SUFFICES ASSUME Values, [Next]_vars PROVE Values'
  OBVIOUS
<1> USE DEF Values, options_vars, validation_vars, user_vars, Trouble
<1>1. ASSUME NEW c \in Configs, Edit(c) PROVE Values'
  BY <1>1 DEF Edit
<1>2. CASE on_sighup \/ on_sigint
  BY <1>2 DEF on_sighup, on_sigint
<1>3. CASE ValidationReads
  BY <1>3 DEF ValidationReads
<1>4. CASE ValidationEnds
  BY <1>4 DEF ValidationEnds
<1>5. CASE ValidationHangs
  BY <1>5 DEF ValidationHangs
<1>6. CASE ServerStarts \/ ServerCannotStart \/ ServerBreaks \/ StopForInterrupt
  BY <1>6 DEF ServerStarts, ServerCannotStart, ServerBreaks, StopForInterrupt
<1>7. CASE QueueValidation \/ ShouldStopForReload \/ NotReady
  BY <1>7 DEF QueueValidation, ShouldStopForReload, NotReady
<1>8. CASE Revalidate
  BY <1>8 DEF Revalidate, StartValidation
<1>9. CASE ValidateAgain
  BY <1>9 DEF ValidateAgain, StartValidation
<1>10. CASE TakeResult
  BY <1>10 DEF TakeResult, TakesResult, ValidationReady
<1>11. CASE Replace \/ Restore \/ GiveUp \/ Stop \/ Leave
  BY <1>11 DEF Replace, Restore, GiveUp, Stop, Leave
<1>12. CASE UNCHANGED vars
  BY <1>12 DEF vars
<1>13. QED
  BY <1>1, <1>2, <1>3, <1>4, <1>5, <1>6, <1>7, <1>8, <1>9, <1>10, <1>11, <1>12, Zenon
     DEF Next, Main, Validator, ValidateReload

\* Both hold at the start.
LEMMA TypesInit == Init => Flags /\ Values
<1> SUFFICES ASSUME Init PROVE Flags /\ Values
  OBVIOUS
<1>1. Flags
  BY Zenon DEF Init, Flags
<1>2. Values
  BY DEF Init, Values
<1>3. QED
  BY <1>1, <1>2

\* Both together are the type invariant.
LEMMA TypesTogether == Flags /\ Values => TypeOK
<1> SUFFICES ASSUME Flags, Values PROVE TypeOK
  OBVIOUS
<1>1. {validate_again, sighup_caught, sigint_caught, announced, fresh, served} \subseteq BOOLEAN
  BY Zenon DEF Flags
<1>2. {fallback_options, reload_candidate} \subseteq Valid \cup {NoConfig}
  BY DEF Values
<1>3. QED
  BY <1>1, <1>2 DEF Values, TypeOK

\* Every reachable state is typed: above all, a configuration that did not validate
\* is never in use, to be used or to be restored.
THEOREM TypeCorrect == Spec => []TypeOK
<1>1. Flags /\ Values /\ [Next]_vars => Flags' /\ Values'
  BY FlagsStep, ValuesStep
<1>2. QED
  BY <1>1, TypesInit, TypesTogether, PTL DEF Spec

-----------------------------------------------------------------------------
(***************************************************************************)
(* What is applied is fresh. A result that was read before a signal that a *)
(* poll has found is marked: by that poll itself, or by validate_again.    *)
(***************************************************************************)

ReadsAreTold ==
  /\ fresh /\ announced /\ ~sighup_caught /\ read # NoConfig => read = disk
  /\ ~fresh /\ read # NoConfig => pc = "requested" \/ validate_again

\* Every step keeps it.
LEMMA ReadsStep == ReadsAreTold /\ [Next]_vars => ReadsAreTold'
<1> SUFFICES ASSUME ReadsAreTold, [Next]_vars PROVE ReadsAreTold'
  OBVIOUS
<1> USE DEF ReadsAreTold, options_vars, validation_vars, user_vars
<1>1. ASSUME NEW c \in Configs, Edit(c) PROVE ReadsAreTold'
  BY <1>1 DEF Edit
<1>2. CASE on_sighup \/ on_sigint
  BY <1>2 DEF on_sighup, on_sigint
<1>3. CASE ValidationReads
  BY <1>3 DEF ValidationReads
<1>4. CASE ValidationEnds \/ ValidationHangs
  BY <1>4 DEF ValidationEnds, ValidationHangs
<1>5. CASE ServerStarts \/ ServerCannotStart \/ ServerBreaks \/ StopForInterrupt
  BY <1>5 DEF ServerStarts, ServerCannotStart, ServerBreaks, StopForInterrupt
<1>6. CASE QueueValidation \/ NotReady
  BY <1>6 DEF QueueValidation, NotReady
<1>6a. CASE ShouldStopForReload
  <2>1. CASE sighup_caught
    BY <1>6a, <2>1 DEF ShouldStopForReload
  <2>2. CASE ~sighup_caught
    <3>1. fresh' = fresh /\ UNCHANGED <<read, disk, announced, validate_again>>
      BY <1>6a, <2>2 DEF ShouldStopForReload
    <3>2. pc # "requested"
      BY <1>6a DEF ShouldStopForReload
    <3>3. QED
      BY <2>2, <3>1, <3>2
  <2>3. QED
    BY <2>1, <2>2
<1>7. CASE Revalidate \/ ValidateAgain
  BY <1>7 DEF Revalidate, ValidateAgain, StartValidation
<1>8. CASE TakeResult
  BY <1>8 DEF TakeResult, TakesResult
<1>9. CASE Replace \/ Restore \/ GiveUp \/ Stop \/ Leave
  BY <1>9 DEF Replace, Restore, GiveUp, Stop, Leave
<1>10. CASE UNCHANGED vars
  BY <1>10 DEF vars
<1>11. QED
  BY <1>1, <1>2, <1>3, <1>4, <1>5, <1>6, <1>6a, <1>7, <1>8, <1>9, <1>10, Zenon
     DEF Next, Main, Validator, ValidateReload

\* Only the result of a validation is ever a candidate, and it is told apart.
LEMMA CandidateIsFresh ==
  ReadsAreTold /\ [Next]_vars =>
    (reload_candidate' # NoConfig /\ reload_candidate' # reload_candidate
       => fresh /\ (announced /\ ~sighup_caught => reload_candidate' = disk))
<1> SUFFICES ASSUME ReadsAreTold, [Next]_vars,
                    reload_candidate' # NoConfig, reload_candidate' # reload_candidate
             PROVE  fresh /\ (announced /\ ~sighup_caught => reload_candidate' = disk)
  BY Zenon
<1> USE DEF options_vars
<1>1. TakeResult
  <2>1. CASE ValidationReads \/ ValidationEnds \/ ValidationHangs
    BY <2>1 DEF ValidationReads, ValidationEnds, ValidationHangs
  <2>2. CASE on_sighup \/ on_sigint \/ \E c \in Configs : Edit(c)
    BY <2>2 DEF on_sighup, on_sigint, Edit
  <2>3. CASE ServerStarts \/ ServerCannotStart \/ ServerBreaks \/ StopForInterrupt
    BY <2>3 DEF ServerStarts, ServerCannotStart, ServerBreaks, StopForInterrupt
  <2>4. CASE ShouldStopForReload \/ NotReady \/ QueueValidation \/ Revalidate \/ ValidateAgain
    BY <2>4 DEF ShouldStopForReload, NotReady, QueueValidation, Revalidate, ValidateAgain
  <2>5. CASE Replace \/ Restore \/ GiveUp \/ Stop \/ Leave
    BY <2>5 DEF Replace, Restore, GiveUp, Stop, Leave
  <2>6. CASE UNCHANGED vars
    BY <2>6 DEF vars
  <2>7. QED
    BY <2>1, <2>2, <2>3, <2>4, <2>5, <2>6, Zenon DEF Next, Main, Validator, ValidateReload
<1>2. pc # "requested" /\ ~validate_again /\ reload_candidate' = read
  BY <1>1 DEF TakeResult, TakesResult
<1>3. QED
  BY <1>2, Zenon DEF ReadsAreTold

\* No configuration that was read before the last SIGHUP that a poll (Behind.cpp,
\* ShouldStopForReload) has found is ever applied, however the signals, the edits, the
\* two halves of the polls and the ends of the validations interleave.
THEOREM FreshnessHolds == Spec => AppliedIsFresh
<1>1. Init => ReadsAreTold
  BY DEF Init, ReadsAreTold
<1>2. QED
  BY <1>1, ReadsStep, CandidateIsFresh, PTL DEF Spec, AppliedIsFresh

-----------------------------------------------------------------------------
(***************************************************************************)
(* A bad configuration is undone. While only configurations fail, a server *)
(* that has served has one that can start, in use or to go back to.        *)
(***************************************************************************)

WayBack ==
  /\ exit_code = 1 => pc \in {"leaving", "exited"}
  /\ served /\ troubles = 0 =>
       /\ exit_code # 1
       /\ pc = "starting" => opts \in Starts \/ fallback_options \in Starts
       /\ pc \in {"serving", "requested", "not_requested", "returned"} => opts \in Starts
       /\ pc = "failed" => fallback_options \in Starts

\* Every step keeps it.
LEMMA WayBackStep == Values /\ WayBack /\ [Next]_vars => WayBack'
<1> SUFFICES ASSUME Values, WayBack, [Next]_vars PROVE WayBack'
  OBVIOUS
<1>0. troubles \in Nat /\ (Trouble => troubles' # 0)
  BY DEF Values, Trouble
<1> USE <1>0 DEF WayBack, options_vars, validation_vars, user_vars
<1>1. ASSUME NEW c \in Configs, Edit(c) PROVE WayBack'
  BY <1>1 DEF Edit
<1>2. CASE on_sighup \/ on_sigint
  BY <1>2 DEF on_sighup, on_sigint
<1>3. CASE ValidationReads \/ ValidationEnds \/ ValidationHangs
  BY <1>3 DEF ValidationReads, ValidationEnds, ValidationHangs
<1>4. CASE ServerStarts
  BY <1>4 DEF ServerStarts
<1>5. CASE ServerCannotStart
  BY <1>5 DEF ServerCannotStart
<1>6. CASE ServerBreaks
  BY <1>6 DEF ServerBreaks
<1>7. CASE StopForInterrupt
  BY <1>7 DEF StopForInterrupt
<1>8. CASE NotReady \/ QueueValidation
  BY <1>8 DEF NotReady, QueueValidation
<1>8a. CASE ShouldStopForReload
  <2>1. pc = "serving" /\ pc' \in {"requested", "not_requested"}
    BY <1>8a DEF ShouldStopForReload
  <2>2. UNCHANGED <<exit_code, served, troubles, opts, fallback_options>>
    BY <1>8a DEF ShouldStopForReload
  <2>3. QED
    BY <2>1, <2>2
<1>9. CASE Revalidate \/ ValidateAgain
  <2>1. pc \in {"requested", "not_requested"} /\ pc' = "serving"
    BY <1>9 DEF Revalidate, ValidateAgain, TakesResult
  <2>2. UNCHANGED <<exit_code, served, opts, fallback_options>>
    BY <1>9 DEF Revalidate, ValidateAgain
  <2>3. troubles' = troubles \/ Trouble
    BY <1>9 DEF Revalidate, ValidateAgain, StartValidation
  <2>4. QED
    BY <2>1, <2>2, <2>3
<1>10. CASE TakeResult
  BY <1>10 DEF TakeResult, TakesResult
<1>11. CASE Replace
  BY <1>11 DEF Replace
<1>12. CASE Restore
  BY <1>12 DEF Restore
<1>13. CASE GiveUp
  BY <1>13 DEF GiveUp
<1>14. CASE Stop \/ Leave
  BY <1>14 DEF Stop, Leave
<1>15. CASE UNCHANGED vars
  BY <1>15 DEF vars
<1>16. QED
  BY <1>1, <1>2, <1>3, <1>4, <1>5, <1>6, <1>7, <1>8, <1>8a, <1>9, <1>10, <1>11, <1>12, <1>13,
     <1>14, <1>15, Zenon DEF Next, Main, Validator, ValidateReload

\* A process that served ends with an error only after something else than a
\* configuration failed.
THEOREM BadReloadIsUndone == Spec => []BadReloadNeverStops
<1>1. Init => WayBack
  BY DEF Init, WayBack
<1>2. Values /\ WayBack => BadReloadNeverStops
  <2>1. Values => troubles \in Nat
    BY DEF Values
  <2>2. QED
    BY <2>1 DEF WayBack, BadReloadNeverStops
<1>3. QED
  BY <1>1, <1>2, TypesInit, ValuesStep, WayBackStep, PTL DEF Spec
=============================================================================
