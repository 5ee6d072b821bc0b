-------------------------------- MODULE Log --------------------------------
(***************************************************************************)
(* CarpLog (carp_log.hpp): a CarpThreadConsumer of lines, which writes them*)
(* into a file that it changes each day.  ThreadConsumer has the threads;  *)
(* what it promises is taken here: lines are a queue of which each is      *)
(* executed once, by the worker or, while Shutdown waits, by Stop.         *)
(*                                                                         *)
(* The time is in hours, of which a day may have few; its first day is over*)
(* when a behaviour begins.  A file is the time at which it was opened,    *)
(* which is its name.  Levels, the console and Flush are left out.         *)
(***************************************************************************)
EXTENDS Integers, Sequences

CONSTANTS DAY,          \* hours of a day, more than one
          TimeLimit,    \* bounds of the model: the time,
          LineLimit,    \* lines,
          SetupLimit    \* and calls of Setup

VARIABLE log

vars == <<log>>

Null == 0

Init ==
    log = [now |-> DAY,
           thread |-> "none",       \* or "runs" or "stops"
           list |-> <<>>,           \* lines that wait, by numbers
           m_file |-> Null, m_cur_day |-> 0,
           closed |-> 0,            \* history: when m_file was set to null last,
           lines |-> 0, setups |-> 0,
           executed |-> <<>>]       \* and what became of each line

Day(hour) == hour \div DAY

Hour ==
    /\ log.now < TimeLimit
    /\ log' = [log EXCEPT !.now = @ + 1]

Setup ==
    /\ log.setups < SetupLimit /\ log.thread # "stops"
    /\ log' = [log EXCEPT !.thread = "runs", !.setups = @ + 1]

(* The function Log: without a thread the line is printed only.            *)
LogLine ==
    /\ log.lines < LineLimit /\ log.thread # "none"
    /\ log' = [log EXCEPT !.list = Append(@, log.lines + 1), !.lines = @ + 1]

Shutdown ==
    /\ log.thread = "runs"
    /\ log' = [log EXCEPT !.thread = "stops"]

(* Stop has returned; m_cur_day stays as it is. *)
ShutdownCloses ==
    /\ log.thread = "stops" /\ log.list = <<>>
    /\ log' = [log EXCEPT !.thread = "none", !.m_file = Null,
                          !.closed = IF log.m_file = Null THEN @ ELSE log.now]

(* CarpTime::CalcTodayBeginTime: tm_isdst, which mktime reads, is not      *)
(* initialized, so that midnight may be taken for the other kind of time,  *)
(* which is an hour off.                                                   *)
CalcTodayBeginTime(cur_time) == {DAY * Day(cur_time) + d : d \in -1..1}

(* The file of another day is closed and one of now opened, if it can be.  *)
WithFile(opened, day) ==
    [log EXCEPT !.m_file = IF opened THEN log.now ELSE Null,
                !.closed = IF opened THEN @ ELSE log.now,
                !.m_cur_day = day]

ChangeFile ==
    IF log.now - log.m_cur_day >= DAY
      THEN {WithFile(opened, day) :
              opened \in BOOLEAN, day \in CalcTodayBeginTime(log.now)}
      ELSE {log}

(* Without a file the line is dropped.                                     *)
Execute ==
    /\ log.list # <<>>
    /\ \E l \in ChangeFile :
         log' = [l EXCEPT !.list = Tail(@),
                          !.executed = Append(@, [line |-> Head(log.list), at |-> log.now,
                                                  file |-> l.m_file, closed |-> l.closed])]

Next == Hour \/ Setup \/ LogLine \/ Shutdown \/ ShutdownCloses \/ Execute

Spec == Init /\ [][Next]_vars

-----------------------------------------------------------------------------
(* Lines are written in the order in which they were logged, each into the *)
(* file of its day or, in the first hour of a day, of the day before; and a*)
(* line is dropped only on a day, and in the hour after it, on which the   *)
(* file could not be opened or Shutdown has closed it: after that the log  *)
(* writes again.                                                           *)
LinesKept ==
    \A i \in DOMAIN log.executed :
        LET e == log.executed[i]
        IN  /\ e.line = i
            /\ e.file # Null => Day(e.at - 1) <= Day(e.file) /\ e.file <= e.at
            /\ e.file = Null => e.closed # 0 /\ Day(e.at - 1) <= Day(e.closed)
=============================================================================
