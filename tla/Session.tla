----------------------------- MODULE Session -----------------------------
(***************************************************************************)
(* Running QEMU from the launcher (src/ui_start.c, src/nkctx.c): the UI    *)
(* thread draws one frame after the other, and in every frame              *)
(*   - asks three times, before the memory, start and end panels, whether  *)
(*     QEMU is running, and stops the HTTP server if it is not;            *)
(*   - in between handles at most one click, on Start or Stop say.         *)
(* QEMU processes exit when they like, and the thread that reads a         *)
(* process' output ends when the process is gone.  The HTTP server is the  *)
(* one of EwsService; while ews_stop waits for it the UI thread is blocked.*)
(***************************************************************************)
EXTENDS Naturals, FiniteSets

CONSTANTS
  Procs,   \* QEMU processes (the slots are used again)
  Conns,   \* connections to the HTTP server
  Null     \* no process handle

ASSUME NullAssumption == Null \notin Procs

VARIABLES
  ui,          \* the step of the frame the UI thread is at
  is_running,  \* what the panel being drawn knows of QEMU
  handle,      \* nk.ini->output_handle
  proc,        \* each process
  reader,      \* read_pipe_thread for each process
  phase,       \* nk.ini->ews: NULL is "off"; not "on" inside ews_stop
  serving      \* connections whose handler uses the server

procs == <<handle, proc, reader>>
server == <<phase, serving>>
vars == <<ui, is_running, procs, server>>

Server == INSTANCE EwsService
---------------------------------------------------------------------------
UiStates     == {"mem", "start", "button", "end", "gone"}
(* "dying" has been terminated and is not gone yet; "odd" has exited with  *)
(* the code STILL_ACTIVE.                                                  *)
ProcStates   == {"none", "alive", "dying", "exited", "odd"}
ReaderStates == {"none", "reading", "ended"}
Phases       == {"off", "on", "stopping", "draining"}

(* Mutant: the exit code is not looked at.                                 *)
StillActiveAnyCode == handle # Null

(* GetExitCodeProcess(output_handle) == STILL_ACTIVE                       *)
StillActive == handle # Null /\ proc[handle] \in {"alive", "dying", "odd"}

Init ==
  /\ ui = "mem"
  /\ is_running = FALSE
  /\ handle = Null
  /\ proc = [p \in Procs |-> "none"]
  /\ reader = [p \in Procs |-> "none"]
  /\ Server!SInit
---------------------------------------------------------------------------
(* ui_is_qemu_running, called at step `at' of the frame.                   *)

FoundRunning(at, next) ==
  /\ ui = at
  /\ StillActive
  /\ ui' = next
  /\ is_running' = TRUE
  /\ UNCHANGED <<procs, server>>

(* Mutant: the server is left alone.                                       *)
FoundStoppedServing(at, next) ==
  /\ ui = at /\ phase \in {"off", "on"}
  /\ ~StillActive
  /\ ui' = next
  /\ is_running' = FALSE
  /\ UNCHANGED <<procs, server>>

FoundStopped(at, next) ==
  /\ ui = at /\ phase = "off"
  /\ ~StillActive
  /\ ui' = next
  /\ is_running' = FALSE
  /\ UNCHANGED <<procs, server>>

(* There is a server: ews_stop is entered ...                              *)
EnterStop(at) ==
  /\ ui = at
  /\ ~StillActive
  /\ Server!SStop
  /\ UNCHANGED <<ui, is_running, procs>>

(* ... and left when the last handler is through.                          *)
LeaveStop(at, next) ==
  /\ ui = at
  /\ Server!SOff
  /\ ui' = next
  /\ is_running' = FALSE
  /\ UNCHANGED procs

CheckRunning(at, next) ==
  \/ FoundRunning(at, next) \/ FoundStopped(at, next)
  \/ EnterStop(at) \/ LeaveStop(at, next)

(* ui_qemu_mem, the beginning of ui_qemu_start, and ui_qemu_end.           *)
CheckMem   == CheckRunning("mem", "start")
CheckStart == CheckRunning("start", "button")

(* Mutant: the end panel does not ask.                                     *)
CheckEndNot ==
  /\ ui = "end"
  /\ ui' = "mem"
  /\ UNCHANGED <<is_running, procs, server>>

CheckEnd   == CheckRunning("end", "mem")
---------------------------------------------------------------------------
(* The buttons.                                                            *)

NoClick ==
  /\ ui = "button"
  /\ ui' = "end"
  /\ UNCHANGED <<is_running, procs, server>>

(* Start, with an HTTP server or without, up to a failure of CreatePipe,   *)
(* SetHandleInformation or CreateProcessW.  The handle of the last process *)
(* is closed by then; the server stays up.  Missing settings, and a        *)
(* failing ews_start, change nothing.                                      *)
StartFailed ==
  /\ ui = "button" /\ ~is_running
  /\ ui' = "end"
  /\ handle' = Null
  /\ \/ UNCHANGED server
     \/ Server!SStart
  /\ UNCHANGED <<is_running, proc, reader>>

(* Start: the process is created, its reader too unless CreateThread fails.*)
StartQemu(p) ==
  /\ ui = "button" /\ ~is_running
  /\ proc[p] = "none"
  /\ ui' = "end"
  /\ handle' = p
  /\ proc' = [proc EXCEPT ![p] = "alive"]
  /\ reader' \in {[reader EXCEPT ![p] = s] : s \in {"reading", "ended"}}
  /\ \/ UNCHANGED server
     \/ Server!SStart
  /\ UNCHANGED is_running

(* Stop: TerminateProcess starts the end of a live process and returns.    *)
StopQemu ==
  /\ ui = "button" /\ is_running
  /\ handle # Null /\ proc[handle] = "alive"
  /\ ui' = "end"
  /\ proc' = [proc EXCEPT ![handle] = "dying"]
  /\ handle' = Null
  /\ UNCHANGED <<is_running, reader, server>>

(* Mutant: the handle is closed and forgotten whether or not the process   *)
(* could be terminated.                                                    *)
StopFailsForgetting ==
  /\ ui = "button" /\ is_running
  /\ ui' = "end"
  /\ handle' = Null
  /\ UNCHANGED <<is_running, proc, reader, server>>

(* Stop: TerminateProcess fails, on a process that has just exited or      *)
(* otherwise.                                                              *)
StopFails ==
  /\ ui = "button" /\ is_running
  /\ ui' = "end"
  /\ UNCHANGED <<is_running, procs, server>>

(* The window is closed, or the launcher restarts itself elevated: the     *)
(* process ends, its threads and the server with it.  QEMU is left alone.  *)
Quit ==
  /\ ui = "mem" /\ phase \in {"off", "on"}
  /\ ui' = "gone"
  /\ handle' = Null
  /\ reader' = [p \in Procs |-> IF reader[p] = "reading" THEN "ended" ELSE reader[p]]
  /\ phase' = "off" /\ serving' = {}
  /\ UNCHANGED <<is_running, proc>>

UiStep ==
  \/ CheckMem \/ CheckStart \/ CheckEnd
  \/ NoClick \/ StartFailed \/ (\E p \in Procs : StartQemu(p)) \/ StopQemu \/ StopFails
---------------------------------------------------------------------------
(* QEMU and the threads reading its output.                                *)

ProcExit(p) ==
  /\ proc[p] \in {"alive", "dying"}
  /\ proc' \in {[proc EXCEPT ![p] = s] : s \in {"exited", "odd"}}
  /\ UNCHANGED <<ui, is_running, handle, reader, server>>

(* Only the process holds the write end of its pipe.                       *)
ReaderEnd(p) ==
  /\ reader[p] = "reading"
  /\ proc[p] \in {"exited", "odd"}
  /\ reader' = [reader EXCEPT ![p] = "ended"]
  /\ UNCHANGED <<ui, is_running, handle, proc, server>>

(* Nothing refers to the process any more; its slot is free.               *)
Forget(p) ==
  /\ proc[p] \in {"exited", "odd"} /\ handle # p /\ reader[p] = "ended"
  /\ proc' = [proc EXCEPT ![p] = "none"]
  /\ reader' = [reader EXCEPT ![p] = "none"]
  /\ UNCHANGED <<ui, is_running, handle, server>>

(* Requests come from the guest or from anywhere else; the accept thread   *)
(* leaves its loop some time after ews_stop is called.                     *)
BeginRequest(c) == Server!SBegin(c) /\ UNCHANGED <<ui, is_running, procs>>
EndRequest(c)   == Server!SEnd(c) /\ UNCHANGED <<ui, is_running, procs>>
LeaveLoop       == Server!SDrain /\ UNCHANGED <<ui, is_running, procs>>

Next ==
  \/ UiStep \/ Quit \/ LeaveLoop
  \/ \E p \in Procs : ProcExit(p) \/ ReaderEnd(p) \/ Forget(p)
  \/ \E c \in Conns : BeginRequest(c) \/ EndRequest(c)

Spec == Init /\ [][Next]_vars

(* The launcher's timer makes the UI thread draw at least every second; of *)
(* the server what the liveness properties of Ews promise once bind() has  *)
(* succeeded: its loop is left and its handlers end.  QEMU need not exit,  *)
(* and nobody need click or send a request.                                *)
Fairness ==
  /\ WF_vars(UiStep)
  /\ WF_vars(LeaveLoop)
  /\ \A c \in Conns : WF_vars(EndRequest(c))

FairSpec == Spec /\ Fairness
---------------------------------------------------------------------------
(* Properties.                                                             *)

(* Types; a handle is that of a process that was created and not killed.   *)
TypeOK ==
  /\ ui \in UiStates
  /\ is_running \in BOOLEAN
  /\ handle \in Procs \cup {Null}
  /\ proc \in [Procs -> ProcStates]
  /\ reader \in [Procs -> ReaderStates]
  /\ phase \in Phases
  /\ serving \subseteq Conns
  /\ handle # Null => proc[handle] \in {"alive", "exited", "odd"}

(* A QEMU that has not been told to end is the one the launcher holds the  *)
(* handle of, so there is at most one of them, and Stop and the check      *)
(* before Start are about it (ui_start.c:182, 200, 225-232).               *)
NeverLost == \A p \in Procs : proc[p] = "alive" /\ ui # "gone" => handle = p

(* When Start is offered there is no server, so run_qemu never overwrites  *)
(* nk.ini->ews while threads use what it points to (ui_start.c:81, 126).   *)
NoSecondServer == ui = "button" /\ ~is_running => phase = "off"

(* From the check of the end panel on to the next click, a server has a    *)
(* QEMU to serve: the one left up by a failed start, or by Stop, does not  *)
(* outlive the frame (ui_start.c:153-189, 197-200; ui_end.c:194).          *)
ServerOwned == phase = "on" /\ ui \in {"mem", "start", "button"} => handle # Null

(* A server whose QEMU is gone, by itself or by Stop, is stopped.          *)
ServerReleased == (phase = "on" /\ ~StillActive) ~> phase = "off"

(* After QEMU has exited Start is offered again: the UI thread returns     *)
(* from stopping the server (ui_start.c:83, 225-232).                      *)
RestartPossible ==
  (handle # Null /\ proc[handle] = "exited") ~> (ui = "button" /\ ~is_running) \/ ui = "gone"
===========================================================================
