------------------------------- MODULE Reload -------------------------------
(***************************************************************************)
(* The process around the server: signals, the asynchronous validation of  *)
(* a changed configuration, the restart with it, and the way back when it  *)
(* does not run. The main thread polls the signals and the validation      *)
(* between two batches of events; a user edits the files and sends the     *)
(* signals at any time, between the two halves of a poll too; a validation *)
(* runs on a thread of its own.                                            *)
(* The process is modelled from the moment its signal handlers are in      *)
(* place; a validation reads the configuration at one moment.              *)
(***************************************************************************)
EXTENDS Naturals

CONSTANTS
  Configs,      \* what the configuration files may hold
  Valid,        \* those that validate
  Starts,       \* those a server can start with, on this machine
  NoConfig,     \* std::nullopt
  MaxHangups,   \* bound on SIGHUPs
  MaxEdits,     \* bound on edits
  MaxTroubles   \* bound on failures of the machine

ASSUME ReloadAssumption ==
  /\ Valid \subseteq Configs /\ Starts \subseteq Valid /\ NoConfig \notin Configs
  /\ MaxHangups \in Nat /\ MaxEdits \in Nat /\ MaxTroubles \in Nat

VARIABLES
  pc,                                    \* the main thread
  opts, fallback_options, reload_candidate,
  validation, read,                      \* reload_validation, what it has read
  validate_again,
  sighup_caught, sigint_caught,
  exit_code,
  disk,                                  \* what the configuration files hold
  announced, fresh, served,              \* history
  hangups, edits, troubles               \* history: counters of what is bounded

options_vars    == <<opts, fallback_options, reload_candidate>>
validation_vars == <<validation, read, validate_again>>
user_vars       == <<disk, announced, hangups, edits>>

vars == <<pc, options_vars, validation_vars, sighup_caught, sigint_caught, exit_code,
          user_vars, fresh, served, troubles>>

TypeOK ==
  /\ pc \in {"starting", "serving", "requested", "not_requested", "returned", "failed",
             "leaving", "exited"}
  /\ opts \in Valid
  /\ {fallback_options, reload_candidate} \subseteq Valid \cup {NoConfig}
  /\ validation \in {"none", "running", "hung", "ready"}
  /\ read \in Configs \cup {NoConfig}
  /\ exit_code \in {0, 1}
  /\ disk \in Configs
  /\ hangups \in 0 .. MaxHangups /\ edits \in 0 .. MaxEdits
  /\ troubles \in 0 .. MaxTroubles
  /\ {validate_again, sighup_caught, sigint_caught, announced, fresh, served} \subseteq BOOLEAN

Init ==
  /\ pc = "starting"
  /\ opts \in Valid /\ disk = opts
  /\ fallback_options = NoConfig /\ reload_candidate = NoConfig
  /\ validation = "none" /\ read = NoConfig
  /\ validate_again = FALSE
  /\ sighup_caught = FALSE /\ sigint_caught = FALSE
  /\ exit_code = 0
  /\ announced = FALSE /\ fresh = FALSE /\ served = FALSE
  /\ hangups = 0 /\ edits = 0 /\ troubles = 0

\* Something fails that is no fault of a configuration.
Trouble == troubles < MaxTroubles /\ troubles' = troubles + 1

-----------------------------------------------------------------------------
(***************************************************************************)
(* The user.                                                               *)
(***************************************************************************)

Edit(c) ==
  /\ edits < MaxEdits /\ edits' = edits + 1
  /\ disk' = c /\ c # disk
  /\ announced' = FALSE
  /\ UNCHANGED <<pc, options_vars, validation_vars, sighup_caught, sigint_caught, exit_code,
                 hangups, fresh, served, troubles>>

\* SIGHUP. What is on disk now is what the user wants to be served.
on_sighup ==
  /\ pc # "exited" /\ hangups < MaxHangups
  /\ hangups' = hangups + 1
  /\ sighup_caught' = TRUE
  /\ announced' = TRUE
  /\ UNCHANGED <<pc, options_vars, validation_vars, sigint_caught, exit_code, disk, edits,
                 fresh, served, troubles>>

on_sigint ==
  /\ pc # "exited"
  /\ sigint_caught' = TRUE
  /\ UNCHANGED <<pc, options_vars, validation_vars, sighup_caught, exit_code, user_vars,
                 fresh, served, troubles>>

-----------------------------------------------------------------------------
(***************************************************************************)
(* The validation's thread.                                                *)
(***************************************************************************)

Unfinished == validation \in {"running", "hung"}
ValidationReady == validation = "ready"

ValidationReads ==
  /\ validation = "running" /\ read = NoConfig
  /\ read' = disk /\ fresh' = TRUE
  /\ UNCHANGED <<pc, options_vars, validation, validate_again, sighup_caught, sigint_caught,
                 exit_code, user_vars, served, troubles>>

\* Mutant: the result is not looked at.
EndsUnchecked ==
  /\ validation = "running" /\ read # NoConfig
  /\ validation' = "ready"
  /\ UNCHANGED <<pc, options_vars, read, validate_again, sighup_caught, sigint_caught,
                 exit_code, user_vars, fresh, served, troubles>>

\* It ends with what it has read, or with nothing: not valid, or an exception.
ValidationEnds ==
  /\ validation = "running" /\ read # NoConfig
  /\ validation' = "ready"
  /\ \/ read' = (IF read \in Valid THEN read ELSE NoConfig) /\ UNCHANGED troubles
     \/ read \in Valid /\ read' = NoConfig /\ Trouble
  /\ UNCHANGED <<pc, options_vars, validate_again, sighup_caught, sigint_caught, exit_code,
                 user_vars, fresh, served>>

\* A resolver or a file system may never answer.
ValidationHangs ==
  /\ validation = "running" /\ Trouble
  /\ validation' = "hung"
  /\ UNCHANGED <<pc, options_vars, read, validate_again, sighup_caught, sigint_caught,
                 exit_code, user_vars, fresh, served>>

-----------------------------------------------------------------------------
(***************************************************************************)
(* main2(): the server starts, serves, and returns.                        *)
(***************************************************************************)

ServerStarts ==
  /\ pc = "starting" /\ opts \in Starts
  /\ pc' = "serving" /\ served' = TRUE
  /\ UNCHANGED <<options_vars, validation_vars, sighup_caught, sigint_caught, exit_code,
                 user_vars, fresh, troubles>>

ServerCannotStart ==
  /\ pc = "starting"
  /\ \/ opts \notin Starts /\ UNCHANGED troubles
     \/ opts \in Starts /\ Trouble
  /\ pc' = "failed"
  /\ UNCHANGED <<options_vars, validation_vars, sighup_caught, sigint_caught, exit_code,
                 user_vars, fresh, served>>

\* epoll_wait() fails.
ServerBreaks ==
  /\ pc = "serving" /\ Trouble
  /\ pc' = "failed"
  /\ UNCHANGED <<options_vars, validation_vars, sighup_caught, sigint_caught, exit_code,
                 user_vars, fresh, served>>

\* SIGINT is looked at before SIGHUP.
StopForInterrupt ==
  /\ pc = "serving" /\ sigint_caught
  /\ pc' = "returned"
  /\ UNCHANGED <<options_vars, validation_vars, sighup_caught, sigint_caught, exit_code,
                 user_vars, fresh, served, troubles>>

\* Another one starts, or cannot: the request is then forgotten.
StartValidation ==
  /\ read' = NoConfig
  /\ \/ validation' = "running" /\ UNCHANGED troubles
     \/ validation' = "none" /\ Trouble

\* A poll takes the signal away, and looks at the validation only afterwards: a
\* signal that comes in between is left to the next poll.
ShouldStopForReload ==
  /\ pc = "serving" /\ ~sigint_caught
  /\ sighup_caught \/ validation # "none"
  /\ pc' = IF sighup_caught THEN "requested" ELSE "not_requested"
  /\ sighup_caught' = FALSE
  /\ fresh' = IF sighup_caught THEN FALSE ELSE fresh
  /\ UNCHANGED <<options_vars, validation_vars, sigint_caught, exit_code, user_vars, served,
                 troubles>>

\* Mutant: the running validation is trusted to have read the new files.
TrustRunning ==
  /\ pc = "requested" /\ Unfinished
  /\ pc' = "serving"
  /\ UNCHANGED <<options_vars, validation_vars, sighup_caught, sigint_caught, exit_code,
                 user_vars, fresh, served, troubles>>

\* A SIGHUP while a validation runs: it may have read the files already.
QueueValidation ==
  /\ pc = "requested" /\ Unfinished
  /\ pc' = "serving"
  /\ validate_again' = TRUE
  /\ UNCHANGED <<options_vars, validation, read, sighup_caught, sigint_caught, exit_code,
                 user_vars, fresh, served, troubles>>

\* A SIGHUP and no validation, or one whose result nobody has taken: it is discarded.
Revalidate ==
  /\ pc = "requested" /\ ~Unfinished
  /\ pc' = "serving"
  /\ validate_again' = FALSE
  /\ StartValidation
  /\ UNCHANGED <<options_vars, sighup_caught, sigint_caught, exit_code, user_vars, fresh,
                 served>>

NotReady ==
  /\ pc = "not_requested" /\ ~ValidationReady
  /\ pc' = "serving"
  /\ UNCHANGED <<options_vars, validation_vars, sighup_caught, sigint_caught, exit_code,
                 user_vars, fresh, served, troubles>>

TakesResult == pc = "not_requested" /\ ValidationReady

\* Mutant: a second request starts no second validation.
ForgetAgain ==
  /\ TakesResult /\ validate_again
  /\ pc' = "serving"
  /\ validate_again' = FALSE
  /\ validation' = "none" /\ read' = NoConfig
  /\ UNCHANGED <<options_vars, sighup_caught, sigint_caught, exit_code, user_vars, fresh,
                 served, troubles>>

ValidateAgain ==
  /\ TakesResult /\ validate_again
  /\ pc' = "serving"
  /\ validate_again' = FALSE
  /\ StartValidation
  /\ UNCHANGED <<options_vars, sighup_caught, sigint_caught, exit_code, user_vars, fresh,
                 served>>

\* A result: the server returns to be restarted with it, or goes on.
TakeResult ==
  /\ TakesResult /\ ~validate_again
  /\ validation' = "none" /\ read' = NoConfig
  /\ reload_candidate' = read
  /\ pc' = IF read # NoConfig THEN "returned" ELSE "serving"
  /\ UNCHANGED <<opts, fallback_options, validate_again, sighup_caught, sigint_caught,
                 exit_code, user_vars, fresh, served, troubles>>

ValidateReload == \/ QueueValidation \/ Revalidate
                  \/ NotReady \/ ValidateAgain \/ TakeResult

-----------------------------------------------------------------------------
(***************************************************************************)
(* main(): what runs next, and the end.                                    *)
(***************************************************************************)

\* Mutant: the way back leads to the candidate itself.
ReplaceBoth ==
  /\ pc = "returned" /\ reload_candidate # NoConfig
  /\ fallback_options' = reload_candidate /\ opts' = reload_candidate
  /\ reload_candidate' = NoConfig
  /\ pc' = "starting"
  /\ UNCHANGED <<validation_vars, sighup_caught, sigint_caught, exit_code, user_vars, fresh,
                 served, troubles>>

Replace ==
  /\ pc = "returned" /\ reload_candidate # NoConfig
  /\ fallback_options' = opts
  /\ opts' = reload_candidate
  /\ reload_candidate' = NoConfig
  /\ pc' = "starting"
  /\ UNCHANGED <<validation_vars, sighup_caught, sigint_caught, exit_code, user_vars, fresh,
                 served, troubles>>

Restore ==
  /\ pc = "failed" /\ fallback_options # NoConfig
  /\ opts' = fallback_options
  /\ fallback_options' = NoConfig
  /\ pc' = "starting"
  /\ UNCHANGED <<reload_candidate, validation_vars, sighup_caught, sigint_caught, exit_code,
                 user_vars, fresh, served, troubles>>

GiveUp ==
  /\ pc = "failed" /\ fallback_options = NoConfig
  /\ exit_code' = 1
  /\ pc' = "leaving"
  /\ UNCHANGED <<options_vars, validation_vars, sighup_caught, sigint_caught, user_vars,
                 fresh, served, troubles>>

Stop ==
  /\ pc = "returned" /\ reload_candidate = NoConfig
  /\ fallback_options' = NoConfig
  /\ pc' = "leaving"
  /\ UNCHANGED <<opts, reload_candidate, validation_vars, sighup_caught, sigint_caught,
                 exit_code, user_vars, fresh, served, troubles>>

\* Mutant: the validation is waited for however long it takes.
LeaveWhenValidated ==
  /\ pc = "leaving" /\ ~Unfinished
  /\ pc' = "exited"
  /\ UNCHANGED <<options_vars, validation_vars, sighup_caught, sigint_caught, exit_code,
                 user_vars, fresh, served, troubles>>

\* A validation that does not end in five seconds is left behind by _exit().
Leave ==
  /\ pc = "leaving"
  /\ pc' = "exited"
  /\ UNCHANGED <<options_vars, validation_vars, sighup_caught, sigint_caught, exit_code,
                 user_vars, fresh, served, troubles>>

-----------------------------------------------------------------------------

Main == \/ ServerStarts \/ ServerCannotStart
        \/ StopForInterrupt \/ ShouldStopForReload \/ ValidateReload
        \/ Replace \/ Restore \/ GiveUp \/ Stop \/ Leave

Validator == ValidationReads \/ ValidationEnds

Next == \/ Main \/ Validator
        \/ ServerBreaks \/ ValidationHangs
        \/ on_sighup \/ on_sigint \/ \E c \in Configs : Edit(c)

Spec == Init /\ [][Next]_vars

\* The main thread polls at least every 100 ms; a validation that does not hang runs.
FairSpec == Spec /\ WF_vars(Main) /\ WF_vars(Validator)

-----------------------------------------------------------------------------
(***************************************************************************)
(* Properties.                                                             *)
(***************************************************************************)

\* A configuration that is taken up was read after the last SIGHUP that a poll has
\* found: no validation that had read the files before that signal is ever applied,
\* whenever it ends and whatever was queued. It is what the user announced, and what
\* the files hold unless they were edited since, or a signal came after the poll had
\* looked for one: then it may be old, and the next poll validates again.
AppliedIsFresh ==
  [][ reload_candidate' # NoConfig /\ reload_candidate' # reload_candidate
        => fresh /\ (announced /\ ~sighup_caught => reload_candidate' = disk) ]_vars

\* A process that served ends with an error only after something else than a
\* configuration failed: one that cannot run is undone, however often it is tried.
BadReloadNeverStops == exit_code = 1 /\ served => troubles > 0

\* What the user saves and announces is served, if it can be, unless the user changes
\* it or stops the server, something else fails, or there never was a server.
LatestIsServed ==
  announced /\ disk \in Starts
    ~> \/ pc = "serving" /\ opts = disk
       \/ ~announced \/ sigint_caught \/ troubles > 0 \/ exit_code = 1

\* SIGINT ends the process, also amid restarts, requests for more of them, and a
\* validation that hangs.
StopIsNotLost == sigint_caught ~> pc = "exited"
=============================================================================
