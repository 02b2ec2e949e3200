------------------------------ MODULE LineBuffer ------------------------------
(***************************************************************************)
(* Read_buffer: the modem's bytes arrive in chunks of any size, lines are  *)
(* handed to the AT driver one by one.  A character is a letter or EOL     *)
(* (either of the two end-of-line characters).                             *)
(***************************************************************************)
EXTENDS Integers, Sequences, FiniteSets

CONSTANTS
    MAX_LINE_LEN,
    Letters,
    EOL,
    StreamLength     \* bound on what the modem sends

ASSUME LineAssumption ==
    MAX_LINE_LEN \in Nat \ {0} /\ StreamLength \in Nat /\ EOL \notin Letters

VARIABLES
    sent,       \* all the modem has sent
    unread,     \* bytes in the terminal session
    readAvail,  \* signal of the terminal session pending
    handling,   \* "no", "fill" or "consume": the loop of Driver::handle_response
    buffer,     \* the payload of _buffer
    lines       \* lines handed to the driver so far, without empty ones

lineVars == <<sent, unread, readAvail, handling, buffer, lines>>

ModemSends(c) ==
    /\ Len(sent) < StreamLength
    /\ sent' = Append(sent, c) /\ unread' = Append(unread, c) /\ readAvail' = TRUE
    /\ UNCHANGED <<handling, buffer, lines>>

HandleResponse ==
    /\ handling = "no" /\ readAvail
    /\ handling' = "fill" /\ readAvail' = FALSE
    /\ UNCHANGED <<sent, unread, buffer, lines>>

RemainingCapacity == 2 * MAX_LINE_LEN - Len(buffer)

\* One read returns what is there, as far as it fits
fill ==
    /\ handling = "fill"
    /\ LET n == IF Len(unread) <= RemainingCapacity THEN Len(unread) ELSE RemainingCapacity
       IN  /\ buffer' = buffer \o SubSeq(unread, 1, n)
           /\ unread' = SubSeq(unread, n + 1, Len(unread))
           /\ handling' = IF n = 0 THEN "no" ELSE "consume"
    /\ UNCHANGED <<sent, readAvail, lines>>

EndsOfLine == {i \in DOMAIN buffer : buffer[i] = EOL}
LineComplete == EndsOfLine # {}

\* Length of the first line, and of the line with all its end-of-line characters
LineLen == (CHOOSE i \in EndsOfLine : \A j \in EndsOfLine : i <= j) - 1
ConsumedLen ==
    CHOOSE n \in LineLen + 1 .. Len(buffer) :
        /\ \A i \in LineLen + 1 .. n : buffer[i] = EOL
        /\ n = Len(buffer) \/ buffer[n + 1] # EOL

\* fn is called with a line, which is removed afterwards
ConsumeLine ==
    /\ handling = "consume" /\ LineComplete
    /\ lines' = IF LineLen = 0 THEN lines ELSE Append(lines, SubSeq(buffer, 1, LineLen))
    /\ buffer' = SubSeq(buffer, ConsumedLen + 1, Len(buffer))
    /\ UNCHANGED <<sent, unread, readAvail, handling>>

KeptIncomplete_Never  == <<>>
KeptIncomplete == IF Len(buffer) > MAX_LINE_LEN THEN <<>> ELSE buffer

\* The rest is incomplete: keep it, unless it is too long
EndConsume ==
    /\ handling = "consume" /\ ~LineComplete
    /\ buffer' = KeptIncomplete
    /\ handling' = "fill"
    /\ UNCHANGED <<sent, unread, readAvail, lines>>

\* The modem may be silent for ever
Silent == Len(sent) = StreamLength /\ unread = <<>> /\ UNCHANGED lineVars

LineInit ==
    /\ sent = <<>> /\ unread = <<>> /\ readAvail = FALSE /\ handling = "no"
    /\ buffer = <<>> /\ lines = <<>>

LineNext ==
    \/ \E c \in Letters \union {EOL} : ModemSends(c)
    \/ HandleResponse \/ fill \/ ConsumeLine \/ EndConsume \/ Silent

LineSpec == LineInit /\ [][LineNext]_lineVars

(* Properties *)

\* The nonempty lines completed in a stream, by their definition
Starts(s) == {i \in DOMAIN s : s[i] # EOL /\ (i = 1 \/ s[i - 1] = EOL)}
EndOf(s, i) ==
    CHOOSE j \in i .. Len(s) : (\A k \in i .. j : s[k] # EOL) /\ (j = Len(s) \/ s[j + 1] = EOL)
Completed(s) == {i \in Starts(s) : EndOf(s, i) < Len(s)}
Nth(S, i)    == Cardinality({j \in S : j <= i})
LinesOf(s) ==
    [n \in 1 .. Cardinality(Completed(s)) |->
        LET i == CHOOSE i \in Completed(s) : Nth(Completed(s), i) = n
        IN  SubSeq(s, i, EndOf(s, i))]

TooLong(s) == \E i \in Starts(s) : EndOf(s, i) - i + 1 > MAX_LINE_LEN

\* However the bytes are cut into reads, the driver gets the lines of the stream, each
\* once, whole and in order, as soon as the loop is done, provided that no line is
\* longer than MAX_LINE_LEN; and there is always room to read more, so that a read of
\* nothing means that the modem has nothing to say.
LinesIntact ==
    /\ handling = "no" /\ unread = <<>> /\ ~TooLong(sent) => lines = LinesOf(sent)
    /\ handling = "fill" => RemainingCapacity > 0

================================================================================
