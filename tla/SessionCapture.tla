--------------------------- MODULE SessionCapture ---------------------------
(* The capture of an interactive shell (execution_archive/terminal.py,
   capture.py, hooks/execution-archive-metadata.bash).

   The shell's hook announces every command on a pipe (B), waits a moment for
   the relay's answer, acknowledges it (A) and runs the command; after it, it
   announces the end (E) and waits again.  The relay forwards what the terminal
   shows and may record it: what shows while a command that it has approved
   runs, and the prompt and the echoed line that led to it, which it holds back
   until then.
   The user can withdraw or suspend his consent from another terminal. *)
EXTENDS Naturals, Sequences, SequencesExt

CONSTANTS Commands,    \* 1..n, the commands in the order they run
          DrainReads,  \* pieces that drain() reads at most (64)
          MaxChunks,   \* pieces of output
          MaxPending,  \* pieces of prompt held back (65536 bytes)
          MaxControls, \* control requests
          MaxFaults    \* late answers and storage errors

VARIABLES excluded,   \* the commands that exclusion() refuses
          shell,      \* what the shell does, in which command, whether it gave up,
                      \* and how many pieces were shown
          tty,        \* what the terminal has shown and the relay has not read
          meta,       \* the events on the pipe
          ack,        \* the answers on their way to the shell
          cap,        \* SessionCapture, and what it has recorded
          failed,     \* storage_failed of the relay
          epoch,      \* history: times the consent was withdrawn or suspended
          unasked,    \* history: commands from the first unanswered one on
          controls, faults

vars == <<excluded, shell, tty, meta, ack, cap, failed, epoch, unasked,
          controls, faults>>

(* A piece is of the command at whose prompt or in whose run it is shown, and of
   none (0) while the hook waits or no command follows, whoever writes it: the
   shell, the command or one that was left in the background.  It is late if a
   boundary has passed before it was read. *)
Chunk == [cmd : Commands \cup {0}, plain : BOOLEAN, late : BOOLEAN]
Kept == [cmd : Commands \cup {0}, late : BOOLEAN, shown : Nat, kept : Nat]
Events == [name : {"H", "B", "A", "E", "F"}, cmd : Commands \cup {0}]

TypeOK ==
  /\ excluded \subseteq Commands
  /\ shell.at \in {"hello", "prompt", "before", "run", "after"}
  /\ shell.cmd \in Commands \cup {0}
  /\ \A i \in DOMAIN tty : tty[i] \in Chunk
  /\ \A i \in DOMAIN meta : meta[i] \in Events
  /\ \A i \in DOMAIN ack : ack[i] \in {"R", "F"}
  /\ cap.phase \in {"startup", "prompt", "pending", "command"}
  /\ Len(cap.pending) <= MaxPending
  /\ cap.recorded \subseteq Kept /\ \A r \in cap.recorded : r.kept <= epoch
  /\ controls \in 0..MaxControls /\ faults \in 0..MaxFaults

Init ==
  /\ excluded \in SUBSET Commands
  /\ shell = [at |-> "hello", cmd |-> 0, alone |-> FALSE, out |-> 0]
  /\ tty = <<>> /\ meta = <<[name |-> "H", cmd |-> 0]>> /\ ack = <<>>
  /\ \E consent \in BOOLEAN :
       cap = [consent |-> consent, paused |-> FALSE, guard |-> FALSE,
              phase |-> "startup", allowed |-> FALSE, waits |-> FALSE,
              pending |-> <<>>, full |-> FALSE, recorded |-> {}]
  /\ failed = FALSE /\ epoch = 0 /\ unasked = {}
  /\ controls = 0 /\ faults = 0

-----------------------------------------------------------------------------
(* SessionCapture as functions of its state. *)

Active(c) == c.consent /\ c.guard /\ c.allowed /\ ~c.paused
Emptied(c) == [c EXCEPT !.pending = <<>>, !.full = FALSE]
Blocked(c) == Emptied([c EXCEPT !.allowed = FALSE, !.waits = FALSE])
Record(c, ps) ==
  IF Active(c)
  THEN [c EXCEPT !.recorded = @ \cup {[cmd |-> ps[i].cmd, late |-> ps[i].late,
                                       shown |-> ps[i].shown, kept |-> epoch] : i \in DOMAIN ps}]
  ELSE c

Hold(c, p) == IF c.full THEN c
              ELSE IF Len(c.pending) < MaxPending
              THEN [c EXCEPT !.pending = Append(@, p)]
              ELSE [c EXCEPT !.pending = <<>>, !.full = TRUE]

(* output: p is what the terminal shows now. *)
Output(c, p) ==
  IF failed \/ ~c.consent \/ c.paused \/ ~c.guard THEN c
  ELSE IF c.phase = "prompt" THEN Hold(c, p)
  ELSE IF c.phase # "command" \/ ~c.allowed THEN c
  ELSE IF ~p.plain THEN Blocked(c) ELSE Record(c, <<p>>)
Shown(p) == [cmd |-> p.cmd, plain |-> p.plain, late |-> p.late, shown |-> epoch]

(* drain: at most so many pieces are read; where there were as many, the capture
   is blocked, and the rest stays for later. *)
Overflow == Len(tty) >= DrainReads
Batch  == IF Overflow THEN SubSeq(tty, 1, DrainReads) ELSE tty
Unread == [i \in 1..(Len(tty) - DrainReads) |-> [tty[i + DrainReads] EXCEPT !.late = TRUE]]
Taken(c) == FoldLeft(LAMBDA d, p : Output(d, Shown(p)), c, Batch)
Drained(c) == IF Overflow THEN Blocked(Taken(c)) ELSE Taken(c)

(* event: the handshake, the classification and the approval of what waits. *)
Before(c, cmd) ==
  LET ok == cmd \notin excluded
      d == [c EXCEPT !.allowed = FALSE, !.phase = "pending", !.waits = ok]
  IN IF ok THEN d ELSE Emptied(d)
After(c) == Emptied([c EXCEPT !.allowed = FALSE, !.phase = "prompt", !.waits = FALSE])
Approved(c) ==
  LET d == [c EXCEPT !.phase = "command", !.allowed = c.waits, !.waits = FALSE]
  IN IF Active(d) /\ \E i \in DOMAIN d.pending : ~d.pending[i].plain
     THEN Blocked(d)
     ELSE Emptied(Record(d, d.pending))
Handled(c, e) ==
  CASE e.name = "H" -> [c EXCEPT !.guard = TRUE, !.phase = "prompt", !.waits = FALSE]
    [] e.name = "B" -> Before(c, e.cmd)
    [] e.name = "E" -> After(c)
    [] e.name = "A" -> Approved(c)
    [] e.name = "F" -> Blocked([c EXCEPT !.guard = FALSE])

-----------------------------------------------------------------------------
(* The shell and its hook. *)

Emit(name) == meta' = Append(meta, [name |-> name, cmd |-> shell.cmd])
Next1(n) == n + 1 \in Commands

(* What the terminal shows, at any time; plain if it is visible and not
   recognizable. *)
Window == CASE shell.at = "run"                          -> shell.cmd
            [] shell.at = "prompt" /\ Next1(shell.cmd) -> shell.cmd + 1
            [] OTHER                                     -> 0
Shows ==
  /\ shell.out < MaxChunks /\ shell' = [shell EXCEPT !.out = @ + 1]
  /\ \E plain \in BOOLEAN : tty' = Append(tty, [cmd |-> Window, plain |-> plain, late |-> FALSE])
  /\ UNCHANGED <<excluded, meta, ack, cap, failed, epoch, unasked, controls, faults>>

(* A command starts, from the prompt or as the next of a list: B, or nothing
   once the hook has given up. *)
Starts ==
  /\ shell.at \in {"prompt", "run"} /\ Next1(shell.cmd)
  /\ LET cmd == shell.cmd + 1
     IN IF shell.alone
        THEN /\ shell' = [shell EXCEPT !.at = "run", !.cmd = cmd]
             /\ UNCHANGED meta
        ELSE /\ shell' = [shell EXCEPT !.at = "before", !.cmd = cmd]
             /\ meta' = Append(meta, [name |-> "B", cmd |-> cmd])
  /\ UNCHANGED <<excluded, tty, ack, cap, failed, epoch, unasked, controls, faults>>

Ends ==
  /\ shell.at = "run" /\ Emit("E")
  /\ shell' = [shell EXCEPT !.at = "after"]
  /\ UNCHANGED <<excluded, tty, ack, cap, failed, epoch, unasked, controls, faults>>

Goes(alone) ==
  shell' = [shell EXCEPT !.at = IF @ = "before" THEN "run" ELSE "prompt",
                         !.alone = @ \/ alone]
GivesUp == /\ Goes(TRUE) /\ Emit("F")
           /\ unasked' = unasked \cup {c \in Commands : c > shell.cmd}
                \cup (IF shell.at = "before" THEN {shell.cmd} ELSE {})

Asking == shell.at \in {"hello", "before", "after"}
Answered ==
  /\ Asking /\ ack # <<>> /\ ack' = Tail(ack)
  /\ IF Head(ack) = "F" THEN GivesUp
     ELSE /\ Goes(FALSE) /\ UNCHANGED unasked
          /\ IF shell.at = "before" THEN Emit("A") ELSE UNCHANGED meta
  /\ UNCHANGED <<excluded, tty, cap, failed, epoch, controls, faults>>

(* No answer within 0.3 s. *)
AnswerLate ==
  /\ faults < MaxFaults /\ faults' = faults + 1
  /\ Asking /\ ack = <<>> /\ GivesUp
  /\ UNCHANGED <<excluded, tty, ack, cap, failed, epoch, controls>>

-----------------------------------------------------------------------------
(* The relay. *)

ReadTty ==
  /\ tty # <<>> /\ tty' = Tail(tty)
  /\ cap' = Output(cap, Shown(Head(tty)))
  /\ UNCHANGED <<excluded, shell, meta, ack, failed, epoch, unasked, controls, faults>>

Replies(e, bad) == IF e.name \in {"H", "B", "E"}
                   THEN ack' = Append(ack, IF bad THEN "F" ELSE "R")
                   ELSE UNCHANGED ack

(* Defect: the tail of a command is not read before its end is handled. *)
Boundary_Begin(e) == e.name = "B"
(* What the terminal showed before B or E is read first, in the old phase. *)
Boundary(e) == e.name \in {"B", "E"}
ReadMeta ==
  /\ meta # <<>> /\ meta' = Tail(meta)
  /\ LET e == Head(meta)
         c == IF Boundary(e) THEN Drained(cap) ELSE cap
     IN /\ tty' = IF Boundary(e) THEN Unread ELSE tty
        /\ cap' = IF failed THEN c ELSE Handled(c, e)
        /\ Replies(e, failed)
  /\ UNCHANGED <<excluded, shell, failed, epoch, unasked, controls, faults>>

(* storage_error, while an event is handled. *)
StorageFails ==
  /\ faults < MaxFaults /\ faults' = faults + 1
  /\ meta # <<>> /\ meta' = Tail(meta)
  /\ failed' = TRUE
  /\ cap' = Emptied([cap EXCEPT !.allowed = FALSE, !.guard = FALSE])
  /\ Replies(Head(meta), TRUE)
  /\ UNCHANGED <<excluded, shell, tty, epoch, unasked, controls>>

(* control: on, off, pause and resume clear what is held back. *)
Cleared(c) == Emptied(c)
Control ==
  /\ controls < MaxControls /\ controls' = controls + 1
  /\ \/ cap.guard /\ cap' = Cleared([cap EXCEPT !.consent = TRUE, !.paused = FALSE])
        /\ UNCHANGED epoch
     \/ cap' = Cleared([cap EXCEPT !.consent = FALSE, !.paused = FALSE])
        /\ epoch' = epoch + 1
     \/ cap' = Cleared([cap EXCEPT !.paused = TRUE]) /\ epoch' = epoch + 1
     \/ cap.guard /\ cap' = Cleared([cap EXCEPT !.paused = FALSE])
        /\ UNCHANGED epoch
  /\ UNCHANGED <<excluded, shell, tty, meta, ack, failed, unasked, faults>>

Next == Shows \/ Starts \/ Ends \/ Answered \/ AnswerLate \/ ReadTty \/ ReadMeta
        \/ StorageFails \/ Control
Spec == Init /\ [][Next]_vars

-----------------------------------------------------------------------------
(* What is recorded was shown at the prompt or in the run of a command that was
   classified and not excluded: neither the tail of an excluded command nor its
   echoed line slips into the capture of a neighbour.  Two things are outside:
   what is shown once the hook has given up on a late or failed relay, which is
   announced nothing any more, and what drain() left unread at a boundary.  Who
   writes a piece is not asked: what an excluded command still writes from the
   background is recorded with the command beside which it shows. *)
OnlyApprovedIsRecorded ==
  \A r \in cap.recorded : r.cmd \in excluded => r.late \/ r.cmd \in unasked

(* What was shown before the consent was withdrawn or suspended and was not yet
   recorded is not recorded after it is given again. *)
WithdrawalForgets == \A r \in cap.recorded : r.shown = r.kept
=============================================================================
