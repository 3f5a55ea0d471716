------------------------ MODULE StreamingProperties ------------------------
(***************************************************************************)
(* What streaming a file must keep, and the instance on which TLC checks   *)
(* it.                                                                     *)
(***************************************************************************)
EXTENDS Streaming, TLC

(* Comments left open, one kind within the other, and closed; a line of    *)
(* five characters that overflows the line buffer; a status request; $G;   *)
(* a setting; and G10, which stores a coordinate system.                   *)
MCPrograms == {<<>>, <<"a">>, <<"(", "a", ";">>, <<"a", ";", "a", ")">>,
               <<"a", "(", "a", ")", "/">>, <<"A", "a", "1", "a", "1">>,
               <<"1", "?">>, <<"$", "G">>, <<"G", "1", "0">>, <<"$", "=", "1">>}
MCSettingsLines == {<<"$", "=", "1">>, <<"$", "G">>, <<"a", "?">>,
                    <<"$", "=", "a", "1", "a">>}
MCStoreWords == {<<"G", "1", "0">>}
MCAnswerSize == [status |-> 2, report |-> 5]

-----------------------------------------------------------------------------
(* The reference for one line: the comment in force after its first j      *)
(* characters, and the characters outside of comments and blanks.          *)
CommentAfter(l) ==
  LET c[j \in 0 .. Len(l)] ==
        IF j = 0 THEN "none"
        ELSE IF c[j - 1] = "none" /\ l[j] \in {"(", ";"} THEN l[j]
        ELSE IF c[j - 1] = "(" /\ l[j] = ")" THEN "none"
        ELSE c[j - 1]
  IN  c

Code(l) ==
  LET kept == {j \in 1 .. Len(l) : /\ CommentAfter(l)[j - 1] = "none"
                                   /\ l[j] \notin {" ", "/", "(", ";", "?"}}
  IN  [i \in 1 .. Cardinality(kept) |->
         Upcase(l[CHOOSE j \in kept : Cardinality({k \in kept : k <= j}) = i])]

(* What Grbl makes of it: each LINE_BUFFER_SIZE characters of code are one *)
(* overflow, and what is left is executed.                                 *)
Outcome(l) ==
  LET code == Code(l)
      cut  == Len(code) \div LineBufferSize
  IN  [i \in 1 .. cut |-> "overflow"] \o
      <<SubSeq(code, cut * LineBufferSize + 1, Len(code))>>

Outcomes == FlattenSeq([i \in DOMAIN sent |-> Outcome(sent[i])])
Drained == wire = <<>> /\ ring = <<>> /\ at = "read"

(* No byte of a file is lost, unless an answer came that stands for no     *)
(* line (an overflow; when the script waits for answers, a report as well) *)
(* or stream.py has compared its count with a limit that unread answers    *)
(* had raised, or a line it counted has written the EEPROM.  A script that *)
(* waits for the answers loses nothing to that: settings "must be streamed *)
(* in this manner since the EEPROM accessing cycles shut-off the serial    *)
(* interrupt" (stream.py:92-93).  While it counts, what is under way to    *)
(* Grbl or in its ring is never more than what it has counted.             *)
Overflowed == \E i \in DOMAIN log : log[i] = "overflow"

RingHolds ==
  /\ lost => IF protocol = "counting" THEN Overflowed \/ wide \/ stored ELSE extra > 0
  /\ protocol = "counting" /\ ~Overflowed /\ host # "wake" =>
       Len(wire) + Len(ring) <= Counted

(* While no byte is lost, Grbl executes the lines of the file in order,    *)
(* each without its blanks and comments and whatever came before it; of a  *)
(* line too long for the buffer it executes the end.                       *)
LinesAreTails ==
  ~lost /\ host # "wake" =>
    /\ IsPrefix(log, Outcomes)
    /\ Drained => log = Outcomes
=============================================================================
