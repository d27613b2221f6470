------------------------------- MODULE Logger -------------------------------
(***************************************************************************)
(* The logger (log/log.cpp).  Until LogBacker::Init(conf) a line is written*)
(* at once, under LogBacker::spin (is_sync); after it a line is pushed on  *)
(* the list of its thread, for DumperLogger to collect and for Close to    *)
(* flush at exit.  No thread is ever registered with the dumper (the call  *)
(* in LogHelper::OutPut is commented out), so its rounds collect nothing   *)
(* and the only lines written after Init(conf) are those of the thread that*)
(* runs Close.  The clock counts fractions of an hour.                     *)
(***************************************************************************)
EXTENDS Integers, Sequences

CONSTANTS LogThreads, Closer,  \* threads that log; the one that runs Close
          PerThread,           \* bound: lines of each thread
          Hour,                \* 3600 seconds, in ticks
          MaxDelay,            \* bound: ticks from a line's stamp to its writing
          Start, MaxClock      \* the clock when the process starts; its bound

ASSUME LoggerAssumption ==
  /\ Closer \in LogThreads /\ {PerThread, Hour, MaxDelay, Start, MaxClock} \subseteq Nat
  /\ Start > Hour

VARIABLES is_sync, log_isruning,
          clock,
          time, last_create,   \* thread-local: last stamp, last file made
          fd,                  \* when the open file was made, 0 for stdout
          entry,               \* the line a thread waits to write, if any
          _loglist,            \* the lines pushed by each thread
          logged,              \* lines each thread logged so far
          written              \* what was written, in order

lgvars == <<is_sync, log_isruning, clock, time, last_create, fd, entry, _loglist, logged, written>>

LGInit ==
  /\ is_sync \in BOOLEAN /\ log_isruning = TRUE
  /\ clock = Start /\ fd = IF is_sync THEN 0 ELSE Start
  /\ time = [t \in LogThreads |-> 0] /\ last_create = time
  /\ entry = [t \in LogThreads |-> <<>>] /\ _loglist = entry
  /\ logged = [t \in LogThreads |-> 0] /\ written = <<>>
-----------------------------------------------------------------------------
(* LogHelper::OutPut.                                                      *)

\* The line is stamped, and pushed or taken on to LogBacker::OutPut.
Stamp(t) ==
  /\ entry[t] = <<>> /\ logged[t] < PerThread
  /\ log_isruning \/ t # Closer
  /\ logged' = [logged EXCEPT ![t] = @ + 1] /\ time' = [time EXCEPT ![t] = clock]
  /\ LET e == [by |-> t, no |-> logged[t] + 1, at |-> clock]
     IN IF is_sync THEN entry' = [entry EXCEPT ![t] = <<e>>] /\ UNCHANGED _loglist
        ELSE _loglist' = [_loglist EXCEPT ![t] = Append(@, e)] /\ UNCHANGED entry
  /\ UNCHANGED <<is_sync, log_isruning, clock, last_create, fd, written>>
-----------------------------------------------------------------------------
(* LogBacker::OutPut, by thread t.                                         *)

NewFileDue_Once(t) == last_create[t] = 0

\* LogHelper::time - LogHelper::last_create > 3600, both the thread's own.
NewFileDue(t) == time[t] - last_create[t] > Hour

OutPut(t, lines) ==
  /\ IF NewFileDue(t)
     THEN last_create' = [last_create EXCEPT ![t] = time[t]] /\ fd' = time[t]
     ELSE UNCHANGED <<last_create, fd>>
  /\ written' = written \o [i \in DOMAIN lines |-> [line |-> lines[i], file |-> fd']]

\* WriteLock<MutexLock> __(LogBacker::spin): one step.
WriteEntry(t) ==
  /\ entry[t] # <<>>
  /\ OutPut(t, entry[t])
  /\ entry' = [entry EXCEPT ![t] = <<>>]
  /\ UNCHANGED <<is_sync, log_isruning, clock, time, _loglist, logged>>
-----------------------------------------------------------------------------
\* _loglist.Merge(cm._loglist), popped to the end by DumperDefault.
Flushed(t) == _loglist[t]

\* Close, at exit of a process that called Init(conf).
Close ==
  /\ ~ is_sync /\ log_isruning
  /\ log_isruning' = FALSE
  /\ IF Flushed(Closer) = <<>>
     THEN UNCHANGED <<last_create, fd, written>>
     ELSE OutPut(Closer, Flushed(Closer))
  /\ _loglist' = [_loglist EXCEPT ![Closer] = <<>>]
  /\ UNCHANGED <<is_sync, clock, time, entry, logged>>

Tick ==
  /\ clock < MaxClock
  /\ \A t \in LogThreads : \A i \in DOMAIN entry[t] : clock - entry[t][i].at < MaxDelay
  /\ clock' = clock + 1
  /\ UNCHANGED <<is_sync, log_isruning, time, last_create, fd, entry, _loglist, logged, written>>
-----------------------------------------------------------------------------
LGNext == \/ \E t \in LogThreads : Stamp(t) \/ WriteEntry(t)
          \/ Close \/ Tick

LGSpec == LGInit /\ [][LGNext]_lgvars
-----------------------------------------------------------------------------
(* Properties.                                                             *)

WrittenBy(t) == {i \in DOMAIN written : written[i].line.by = t}

\* The lines of a thread are written once each and in its order: all of them,
\* up to the one in hand, before Init(conf); after it the closing thread's at
\* Close, however often the files changed between.
LinesInOrder ==
  \A t \in LogThreads :
    /\ \A i, j \in WrittenBy(t) : i < j => written[i].line.no < written[j].line.no
    /\ \E n \in 0..logged[t] :
         /\ {written[i].line.no : i \in WrittenBy(t)} = 1..n
         /\ is_sync => n = logged[t] - Len(entry[t])
         /\ t = Closer /\ ~ is_sync /\ ~ log_isruning => n = logged[t]

\* Every thread keeps its own time of the last file, while the file is common
\* to all: still no line goes to a file made more than an hour before it, plus
\* what another thread with an older stamp took to make that file.
FileIsRecent ==
  is_sync => \A i \in DOMAIN written : written[i].line.at - written[i].file <= Hour + MaxDelay

\* A thread's lines are written in order and into a recent file.
LinesWritten == LinesInOrder /\ FileIsRecent
=============================================================================
