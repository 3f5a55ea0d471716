----------------------------- MODULE Streaming -----------------------------
(***************************************************************************)
(* A script of the repository streams a file to Grbl: stream.py by         *)
(* counting characters, stream.py -s and simple_stream.py by waiting for   *)
(* the answer to every line.  Grbl puts the bytes that arrive into its     *)
(* receive ring (the fifo that Serial implements), and its main loop       *)
(* assembles lines of them, without blanks and comments and in capitals.   *)
(*                                                                         *)
(* Lines are sequences of characters.  What an answer says is left out,    *)
(* except whether it is a status (ok, error) or a report, and its length.  *)
(***************************************************************************)
EXTENDS Integers, Sequences, SequencesExt

CONSTANTS
  RxBufferSize,    \* RX_BUFFER_SIZE, a power of two, the same on both sides
  LineBufferSize,  \* LINE_BUFFER_SIZE
  AnswerSize,      \* the bytes of a status and of a report
  Programs,        \* the lines of files that are streamed by counting,
  SettingsLines,   \* and of those streamed with -s or simple_stream.py
  StoreWords,      \* the commands whose execution may write the EEPROM
  MaxLines         \* bound: lines in a file

(* A line that can never fit makes stream.py wait for ever: none is sent.  *)
ASSUME StreamingAssumption ==
  /\ RxBufferSize \in Nat /\ RxBufferSize > 4
  /\ LineBufferSize \in Nat \ {0, 1}
  /\ AnswerSize \in [{"status", "report"} -> Nat \ {0}]
  /\ MaxLines \in Nat /\ <<>> \notin StoreWords
  /\ \A l \in Programs \cup SettingsLines :
       l \in Seq(STRING) /\ ~Contains(l, "\n") /\ ~Contains(l, "\r")
  /\ \A l \in Programs : Len(l) + 1 < RxBufferSize - 1
  /\ \A l \in SettingsLines : Len(l) + 1 <= RxBufferSize - 1

VARIABLES
  protocol,  \* the script: "counting" or "answers"
  host,      \* where it is: "wake", "next", "room", "answer"
  block,     \* l_block
  cLine,     \* c_line: the lengths believed to be in the receive ring
  inbox,     \* answers the host has not read; the last ones may be on the way
  wire,      \* bytes on the way to Grbl
  ring,      \* the receive ring
  at,        \* Grbl: "read", "execute", "store"
  line,      \* the line assembled so far
  comment,   \* "none", "(" or ";"
  asked,     \* EXEC_STATUS_REPORT
  (* Histories. *)
  sent,      \* the lines sent
  log,       \* the lines executed and the overflows, in order
  lost,      \* a byte did not make it into the ring
  extra,     \* answers that no line of its own stands for
  wide,      \* the script compared with more than RX_BUFFER_SIZE - 1
  stored     \* a line has written the EEPROM

script  == <<protocol, host, block, cLine>>
grbl    == <<at, line, comment, asked>>
history == <<sent, log, lost, extra, wide, stored>>
vars == <<script, inbox, wire, ring, grbl, history>>

-----------------------------------------------------------------------------
(* The scripts.                                                            *)

(* Both send two empty lines, of two line ends each, and wait two seconds. *)
Init ==
  /\ protocol \in {"counting", "answers"} /\ host = "wake"
  /\ block = <<>> /\ cLine = <<>>
  /\ inbox = <<>> /\ wire = <<"\r", "\n", "\r", "\n">> /\ ring = <<>>
  /\ at = "read" /\ line = <<>> /\ comment = "none" /\ asked = FALSE
  /\ sent = <<>> /\ log = <<>> /\ lost = FALSE /\ extra = 0
  /\ wide = FALSE /\ stored = FALSE

(* s.flushInput(), when Grbl has answered all that: two seconds are enough *)
FlushInput ==
  /\ host = "wake" /\ wire = <<>> /\ ring = <<>> /\ at = "read"
  /\ host' = "next" /\ inbox' = <<>> /\ log' = <<>>
  /\ UNCHANGED <<protocol, block, cLine, wire, ring, grbl, sent, lost, extra, wide, stored>>

Write(l) ==
  /\ wire' = wire \o Append(l, "\n")
  /\ sent' = Append(sent, l)

SendAndWait ==
  /\ protocol = "answers" /\ host = "next" /\ Len(sent) < MaxLines
  /\ \E l \in SettingsLines : Write(l)
  /\ host' = "answer"
  /\ UNCHANGED <<protocol, block, cLine, inbox, ring, grbl, log, lost, extra, wide, stored>>

ReadAnswer ==
  /\ host = "answer" /\ inbox # <<>>
  /\ inbox' = Tail(inbox) /\ host' = "next"
  /\ UNCHANGED <<protocol, block, cLine, wire, ring, grbl, history>>

SizeBare(l) == Len(l)                                              \* mutant
Size(l) == Len(l) + 1

CountLine ==
  /\ protocol = "counting" /\ host = "next" /\ Len(sent) < MaxLines
  /\ \E l \in Programs : block' = l /\ cLine' = Append(cLine, Size(l))
  /\ host' = "room"
  /\ UNCHANGED <<protocol, inbox, wire, ring, grbl, history>>

(* The sums of the first k numbers.                                        *)
Sums(numbers) ==
  LET sum[k \in 0 .. Len(numbers)] == IF k = 0 THEN 0 ELSE sum[k - 1] + numbers[k]
  IN  sum

Counted == Sums(cLine)[Len(cLine)]

(* inWaiting() when the first k answers have arrived                       *)
InWaiting(k) == Sums([i \in 1 .. k |-> AnswerSize[inbox[i]]])[k]

(* RX_BUFFER_SIZE-1 | n: "|" binds tighter than ">="                       *)
Limit(n) == (n - (n % RxBufferSize)) + RxBufferSize - 1

(* readline(): a status takes the oldest line off the count                *)
ReadWhileFull ==
  /\ host = "room" /\ inbox # <<>>
  /\ \E k \in 0 .. Len(inbox) : Counted >= Limit(InWaiting(k))
  /\ inbox' = Tail(inbox)
  /\ cLine' = IF Head(inbox) = "status" THEN Tail(cLine) ELSE cLine
  /\ UNCHANGED <<protocol, host, block, wire, ring, grbl, history>>

SendCounted ==
  /\ host = "room"
  /\ \E k \in 0 .. Len(inbox) :
       /\ Counted < Limit(InWaiting(k))
       /\ wide' = (wide \/ InWaiting(k) >= RxBufferSize)
  /\ Write(block) /\ host' = "next"
  /\ UNCHANGED <<protocol, block, cLine, inbox, ring, grbl, log, lost, extra, stored>>

-----------------------------------------------------------------------------
(* Bytes arrive at Grbl.                                                   *)

(* The receive interrupt: "?" asks for a report, and a byte that finds the *)
(* ring full is dropped.                                                   *)
Receive ==
  /\ wire # <<>>
  /\ wire' = Tail(wire)
  /\ asked' = (asked \/ Head(wire) = "?")
  /\ IF Head(wire) = "?"
       THEN UNCHANGED <<ring, lost>>
     ELSE IF Len(ring) < RxBufferSize - 1
       THEN ring' = Append(ring, Head(wire)) /\ UNCHANGED lost
       ELSE lost' = TRUE /\ UNCHANGED ring
  /\ UNCHANGED <<script, inbox, at, line, comment, sent, log, extra, wide, stored>>

(* A byte that comes while one is written to the EEPROM, with interrupts   *)
(* off, is overrun by the next; or it waits in the receiver for Receive.   *)
Overrun ==
  /\ wire # <<>> /\ at = "store"
  /\ wire' = Tail(wire) /\ lost' = TRUE
  /\ UNCHANGED <<script, inbox, ring, grbl, sent, log, extra, wide, stored>>

-----------------------------------------------------------------------------
(* The main loop.                                                          *)

Upcase(c) == IF c = "a" THEN "A" ELSE c

EndOfLineKeepingComment ==                                         \* mutant
  at' = "execute" /\ UNCHANGED <<line, comment, inbox, log, extra>>
(* The line is executed; it and the comment are reset when that returns.   *)
EndOfLine ==
  /\ at' = "execute" /\ comment' = "none"
  /\ UNCHANGED <<line, inbox, log, extra>>

Overflow ==
  /\ line' = <<>> /\ inbox' = Append(inbox, "status")
  /\ log' = Append(log, "overflow") /\ extra' = extra + 1
  /\ UNCHANGED <<at, comment>>

Keep(c) ==
  /\ line' = Append(line, Upcase(c))
  /\ UNCHANGED <<at, comment, inbox, log, extra>>

Skip(c) ==
  /\ comment' = CASE comment = "(" /\ c = ")" -> "none"
                  [] comment = "none" /\ c \in {"(", ";"} -> c
                  [] OTHER -> comment
  /\ UNCHANGED <<at, line, inbox, log, extra>>

Ignored(c) == comment # "none" \/ c \in {" ", "/", "(", ";"}

ReadChar ==
  /\ at = "read" /\ ring # <<>>
  /\ ring' = Tail(ring)
  /\ LET c == Head(ring)
     IN  IF c \in {"\n", "\r"} THEN EndOfLine
         ELSE IF Ignored(c) THEN Skip(c)
         ELSE IF Len(line) >= LineBufferSize - 1 THEN Overflow
         ELSE Keep(c)
  /\ UNCHANGED <<script, wire, asked, sent, lost, wide, stored>>

(* protocol_execute_line(): it may take as long as the motions ahead of it *)
(* do.  $G prints the modes.                                               *)
AsksModes == line = <<"$", "G">>

(* What may write the EEPROM: a setting, and the commands that store a     *)
(* position or a coordinate system or, reading one, restore a bad record.  *)
IsSetting == line # <<>> /\ Head(line) = "$" /\ Contains(line, "=")
Writes == IsSetting \/ StoreWords \cap SubSeqs(line) # {}

(* A line refused, or a record that is good, is answered without that.     *)
Store ==
  /\ at = "execute" /\ Writes
  /\ at' = "store" /\ stored' = TRUE
  /\ UNCHANGED <<script, inbox, wire, ring, line, comment, asked, sent, log,
                 lost, extra, wide>>

Answer ==
  /\ at \in {"execute", "store"}
  /\ inbox' = inbox \o (IF AsksModes THEN <<"report", "status">> ELSE <<"status">>)
  /\ extra' = IF AsksModes THEN extra + 1 ELSE extra
  /\ log' = Append(log, line) /\ line' = <<>> /\ at' = "read"
  /\ UNCHANGED <<script, wire, ring, comment, asked, sent, lost, wide, stored>>

(* A checkpoint finds EXEC_STATUS_REPORT.                                  *)
Report ==
  /\ asked /\ at # "store"
  /\ asked' = FALSE /\ inbox' = Append(inbox, "report") /\ extra' = extra + 1
  /\ UNCHANGED <<script, wire, ring, at, line, comment, sent, log, lost, wide, stored>>

(* Nothing moves any more: the file has ended and the script waits for     *)
(* <Enter>, or a line end was lost and it waits for an answer for ever.    *)
Finished ==
  /\ wire = <<>> /\ ring = <<>> /\ at = "read" /\ ~asked
  /\ \/ Len(sent) = MaxLines /\ host = "next"
     \/ lost /\ host # "next" /\ inbox = <<>>
  /\ UNCHANGED vars

Next ==
  \/ FlushInput \/ SendAndWait \/ ReadAnswer
  \/ CountLine \/ ReadWhileFull \/ SendCounted
  \/ Receive \/ Overrun
  \/ ReadChar \/ Store \/ Answer \/ Report
  \/ Finished

Spec == Init /\ [][Next]_vars
=============================================================================
