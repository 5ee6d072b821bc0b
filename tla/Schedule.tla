------------------------------ MODULE Schedule ------------------------------
(***************************************************************************)
(* CarpSchedule (carp_schedule.hpp): an io_service that is run by a thread *)
(* of its own, by the caller of Run, or one handler at a time, with a      *)
(* timer that keeps it busy and two for its user.  An Exit may be followed *)
(* by another Run, which finds the handlers that the first has left.       *)
(*                                                                         *)
(* The owner makes the calls when it is not inside one; a callback makes   *)
(* them from within a handler.  Timers are numbered, 0 is null.  Of an Op, *)
(* `step` is the number of the call of TimerOnce or TimerLoop.             *)
(***************************************************************************)
EXTENDS Asio, FiniteSets

CONSTANTS RunLimit,     \* calls of Run
          TimerLimit    \* calls of TimerOnce and TimerLoop

VARIABLE schedule

vars == <<schedule>>

NewTimers == [m_timer_once |-> 0, m_timer_loop |-> 0, made |-> 0]

Init ==
    schedule = NewTimers @@
      [m_is_exit |-> TRUE,
       m_thread |-> FALSE,
       m_keep_run |-> 0,
       runner |-> "none",       \* of RunFull: "begins" or "runs"
       joining |-> FALSE,       \* the owner is in Exit
       stopped |-> FALSE,       \* the io_service is
       idle |-> FALSE,          \* history: it was when Run began
       pending |-> <<>>, ready |-> <<>>,
       runs |-> 0,
       calls |-> <<>>,          \* history: of TimerOnce and TimerLoop
       fate |-> "running"]

-----------------------------------------------------------------------------
(* expires_after ends the wait that is under way; a new timer has none.    *)
Rearm(s, kind, timer, call) == Begin(Abort(s, kind, timer), Op(kind, timer, call))

TimerOnceImpl(s, call) ==
    LET t == IF s.m_timer_once # 0 THEN s
             ELSE [s EXCEPT !.made = @ + 1, !.m_timer_once = s.made + 1]
    IN  Rearm(t, "once", t.m_timer_once, call)

TimerLoopImpl(s, call) ==
    LET t == IF s.m_timer_loop # 0 THEN s
             ELSE [s EXCEPT !.made = @ + 1, !.m_timer_loop = s.made + 1]
    IN  Rearm(t, "loop", t.m_timer_loop, call)

Impl(s, kind, call) ==
    IF kind = "once" THEN TimerOnceImpl(s, call) ELSE TimerLoopImpl(s, call)

(* TimerOnce and TimerLoop: the thread makes the call itself, later.       *)
SetTimer(s, kind, threaded) ==
    LET call == Len(s.calls) + 1
        t == [s EXCEPT !.calls = Append(@, [kind |-> kind, called |-> 0,
                                            run |-> s.runs, over |-> FALSE])]
    IN  IF threaded THEN [t EXCEPT !.ready = Append(@, Ended(Op("post " \o kind, 0, call), FALSE))]
                    ELSE Impl(t, kind, call)

Timers(s, threaded) ==
    {SetTimer(s, kind, threaded) : kind \in {k \in {"once", "loop"} : Len(s.calls) < TimerLimit}}

(* In a callback of the thread Exit would wait for the thread it is on:    *)
(* join throws.                                                            *)
ExitInCallback(s) ==
    IF s.m_is_exit THEN s
    ELSE LET t == [s EXCEPT !.m_is_exit = TRUE, !.stopped = TRUE]
         IN  IF s.m_thread THEN Crash(t) ELSE t

Callback(s) == {s, ExitInCallback(s)} \cup Timers(s, s.m_thread)

-----------------------------------------------------------------------------
(* Handlers; `failed`, the error code, is not looked at.                   *)

LoopUpdate(s) ==
    IF s.m_keep_run = 0 \/ s.m_is_exit THEN s ELSE Rearm(s, "keep", s.m_keep_run, 0)

TimerLoopUpdate(s, call) ==
    {IF t.m_timer_loop = 0 \/ t.m_is_exit THEN [t EXCEPT !.calls[call].over = TRUE]
                                         ELSE Rearm(t, "loop", t.m_timer_loop, call) :
       t \in Callback(s)}

(* Mutant: a wait that has been aborted is not reported. *)
CalledUnlessFailed(s, call, failed) ==
    IF failed THEN {s} ELSE Callback([s EXCEPT !.calls[call].called = @ + 1])

TimerOnceUpdate(s, call, failed) == Callback([s EXCEPT !.calls[call].called = @ + 1])

Handle(s, e) ==
    CASE e.op.kind = "keep" -> {LoopUpdate(s)}
      [] e.op.kind = "once" -> TimerOnceUpdate(s, e.op.step, e.failed)
      [] e.op.kind = "loop" -> TimerLoopUpdate(s, e.op.step)
      [] e.op.kind = "post once" -> {TimerOnceImpl(s, e.op.step)}
      [] e.op.kind = "post loop" -> {TimerLoopImpl(s, e.op.step)}

RunHandler(s) == Handle([s EXCEPT !.ready = Tail(@)], Head(s.ready))

-----------------------------------------------------------------------------
Alive == schedule.fate = "running"

(* The owner is not inside Run or Exit.                                    *)
Free == Alive /\ ~schedule.joining /\ (schedule.runner # "none" => schedule.m_thread)

Run ==
    /\ Free /\ schedule.m_is_exit /\ schedule.runs < RunLimit
    /\ \E async \in BOOLEAN :
         schedule' = [schedule EXCEPT !.m_is_exit = FALSE, !.m_thread = async,
                                      !.runner = "begins", !.runs = @ + 1,
                                      !.idle = schedule.stopped]

(* setup is called before the assignment to m_thread may be seen.          *)
RunFullBegins ==
    /\ Alive /\ schedule.runner = "begins"
    /\ LET timer == schedule.made + 1
           s == Rearm([schedule EXCEPT !.made = timer, !.m_keep_run = timer, !.runner = "runs"],
                      "keep", timer, 0)
       IN  \E threaded \in {FALSE, schedule.m_thread} :
             schedule' \in {s} \cup Timers(s, threaded)

RunHandles ==
    /\ Alive /\ schedule.runner = "runs" /\ ~schedule.stopped /\ schedule.ready # <<>>
    /\ schedule' \in RunHandler(schedule)

(* run returns; the timers are given up, and what waits on them is aborted.*)
RunFullEnds ==
    /\ Alive /\ schedule.runner = "runs"
    /\ schedule.stopped \/ (schedule.pending = <<>> /\ schedule.ready = <<>>)
    /\ \E s \in Callback([schedule EXCEPT !.stopped = FALSE]) :
         schedule' =
           IF s.fate = "crashed" THEN s
           ELSE [Abort(Abort(Abort(s, "keep", s.m_keep_run),
                             "once", s.m_timer_once), "loop", s.m_timer_loop)
                   EXCEPT !.runner = "none", !.m_keep_run = 0,
                          !.m_timer_once = 0, !.m_timer_loop = 0]

TimerCall == Free /\ schedule' \in Timers(schedule, schedule.m_thread)

Exit ==
    /\ Free /\ ~schedule.m_is_exit
    /\ schedule' = [schedule EXCEPT !.m_is_exit = TRUE, !.stopped = TRUE,
                                    !.joining = schedule.m_thread]

ExitReturns ==
    /\ Alive /\ schedule.joining /\ schedule.runner = "none"
    /\ schedule' = [schedule EXCEPT !.joining = FALSE, !.m_thread = FALSE]

(* RunOne and PollOne restart the io_service and handle what there is;     *)
(* RunOne waits for it.  One that has run out of work is stopped.          *)
RunOne ==
    /\ Free /\ schedule.runner = "none"
    /\ LET restarted == [schedule EXCEPT !.stopped = FALSE]
       IN  \E s \in IF schedule.ready = <<>> THEN {restarted} ELSE RunHandler(restarted) :
             schedule' = [s EXCEPT !.stopped = s.pending = <<>> /\ s.ready = <<>>]

TimerExpires ==
    /\ Alive
    /\ \E i \in DOMAIN schedule.pending : schedule' = End(schedule, i, FALSE)

Next ==
    \/ Run \/ RunFullBegins \/ RunHandles \/ RunFullEnds \/ TimerCall
    \/ Exit \/ ExitReturns \/ RunOne \/ TimerExpires

Spec == Init /\ [][Next]_vars

-----------------------------------------------------------------------------
(* The io_service does not run out of work before Exit: a wait of the      *)
(* timer that keeps it busy, or its handler, is always there, whatever     *)
(* waits of earlier runs have been aborted and are handled in this one;    *)
(* unless RunOne has left it stopped, which RunFull does not look at       *)
(* (carp_schedule.hpp:93).  And every TimerOnce is called exactly once,    *)
(* though all of them share one timer, and every TimerLoop goes on, with   *)
(* one wait, until an Exit, though they share one as well (line 110).      *)
TimersKept ==
    LET Holds(op, k) == op.kind # "keep" /\ op.step = k
        Held(k) ==
          Cardinality({i \in DOMAIN schedule.pending : Holds(schedule.pending[i], k)})
            + Cardinality({i \in DOMAIN schedule.ready : Holds(schedule.ready[i].op, k)})
    IN  /\ Alive /\ schedule.runner = "runs" /\ ~schedule.m_is_exit =>
             /\ schedule.stopped => schedule.idle
             /\ OutstandingOf(schedule, {"keep"}, schedule.m_keep_run) # <<>>
        /\ Alive =>
             \A k \in DOMAIN schedule.calls :
               LET call == schedule.calls[k]
               IN  IF call.kind = "once" THEN call.called + Held(k) = 1
                   ELSE Held(k) = (IF call.over THEN 0 ELSE 1)
=============================================================================
