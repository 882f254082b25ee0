----------------------------- MODULE MidiParser -----------------------------
(***************************************************************************)
(* The bytes of a MIDI controller go through two parsers: MidiStream of    *)
(* src/include/midi/usb.hpp, whose messages are forwarded to the USB host, *)
(* and midiParseByte() of src/src/midi/midi.cpp, whose messages act on the *)
(* device.  Both know running status; only the first keeps what belongs to *)
(* the system messages.                                                    *)
(***************************************************************************)
EXTENDS Naturals, Sequences

CONSTANTS
    Data,     \* data bytes, below 0x80
    SysexMax  \* sizeof(MidiStream::bytes), 3 or more

VARIABLES
    stream,   \* MidiStream
    parse     \* runningStatus, dataNeed, dataHave and dataBuf of MidiContext

parserVars == <<stream, parse>>

-----------------------------------------------------------------------------
(* Status bytes by what the parsers tell apart: 0x80, 0x90 and 0xc0; and   *)
(* 0xf0, 0xf7, 0xf1, 0xf2, 0xf6, 0xf4 and 0xf8.                            *)
Channel == {"off", "on", "program"}
System  == {"sysex", "eox", "quarter", "position", "tune", "undefined"}
Byte    == Channel \cup System \cup {"clock"} \cup Data

ASSUME ParserAssumption ==
    SysexMax \in Nat /\ SysexMax >= 3 /\ Data \cap (Channel \cup System \cup {"clock"}) = {}

\* Length of a message with its status; 0 for those that have no data.
Length(b) ==
    CASE b \in {"program", "quarter"} -> 2
      [] b \in {"off", "on", "position"} -> 3
      [] OTHER -> 0

NoStatus == "none"
NewStream == [bytes |-> <<>>, needed |-> 0, running |-> NoStatus, sysex |-> FALSE]
NewParse  == [running |-> NoStatus, need |-> 0, have |-> <<>>]

\* What a parser is after a byte, and the message it emits or <<>>.
Step(p, message) == [then |-> p, out |-> message]
Drained(s) == [s EXCEPT !.bytes = <<>>, !.needed = 0]

-----------------------------------------------------------------------------
(* MidiStream::feed                                                        *)

\* A byte of a system exclusive message; a full buffer is emitted as it is.
FeedSysex(s, b) ==
    LET full == Append(s.bytes, b)
    IN  IF b = "eox" THEN Step([s EXCEPT !.bytes = <<>>, !.sysex = FALSE], full)
        ELSE IF Len(full) = SysexMax THEN Step([s EXCEPT !.bytes = <<>>], full)
        ELSE Step([s EXCEPT !.bytes = full], <<>>)

FeedStatus(s, b) ==
    LET fresh == [Drained(s) EXCEPT !.sysex = b = "sysex",
                                    !.running = IF b \in Channel THEN b ELSE NoStatus]
    IN  IF b = "sysex" \/ Length(b) > 0
        THEN Step([fresh EXCEPT !.bytes = <<b>>, !.needed = Length(b)], <<>>)
        ELSE Step(fresh, IF b \in {"tune", "eox"} THEN <<b>> ELSE <<>>)

FeedData(s, b) ==
    LET begun == IF s.bytes = <<>> /\ s.running # NoStatus
                 THEN [s EXCEPT !.bytes = <<s.running>>, !.needed = Length(s.running)] ELSE s
        full  == Append(begun.bytes, b)
    IN  IF begun.needed = 0 THEN Step(begun, <<>>)
        ELSE IF Len(full) = begun.needed THEN Step(Drained(begun), full)
        ELSE Step([begun EXCEPT !.bytes = full], <<>>)

Feed(s, b) ==
    IF b = "clock" THEN Step(s, <<b>>)
    ELSE IF s.sysex /\ (b \in Data \/ b = "eox") THEN FeedSysex(s, b)
    ELSE IF b \in Data THEN FeedData(s, b)
    ELSE FeedStatus(s, b)

-----------------------------------------------------------------------------
(* midiParseByte                                                           *)

ParseByte(p, b) ==
    LET have == Append(p.have, b)
    IN  CASE b = "clock" -> Step(p, <<>>)
          [] b \in System -> Step(NewParse, <<>>)
          [] b \in Channel -> Step([running |-> b, need |-> Length(b) - 1, have |-> <<>>], <<>>)
          [] b \in Data /\ p.running = NoStatus -> Step(p, <<>>)
          [] b \in Data /\ p.running # NoStatus ->
                IF Len(have) >= p.need THEN Step([p EXCEPT !.have = <<>>], <<p.running>> \o have)
                ELSE Step([p EXCEPT !.have = have], <<>>)

-----------------------------------------------------------------------------
\* A byte is read from the controller.
ReadByte(b) ==
    /\ stream' = Feed(stream, b).then
    /\ parse' = ParseByte(parse, b).then

\* The controller is unplugged, or another one found.
Reset == stream' = NewStream /\ parse' = NewParse

ParserInit == stream = NewStream /\ parse = NewParse
ParserNext == Reset \/ \E b \in Byte : ReadByte(b)
ParserSpec == ParserInit /\ [][ParserNext]_parserVars

-----------------------------------------------------------------------------
\* Types, and the buffer of the stream: there is always room for one more byte.
ParserTyped ==
    /\ stream.bytes \in UNION {[1..n -> Byte] : n \in 0..(SysexMax - 1)}
    /\ stream.needed \in {0, 2, 3} /\ stream.sysex \in BOOLEAN
    /\ stream.running \in Channel \cup {NoStatus}
    /\ parse.running \in Channel \cup {NoStatus} /\ parse.need \in 0..2
    /\ parse.have \in UNION {[1..n -> Data] : n \in 0..1}

ChannelMessage(m) == IF m # <<>> /\ m[1] \in Channel THEN m ELSE <<>>

\* Whatever was read before and whatever byte comes next, the host is sent the
\* channel message the device acts on, and no other: running status, messages
\* cut short and bytes of system messages are read alike by both parsers.
ParsersAgree ==
    \A b \in Byte : ChannelMessage(Feed(stream, b).out) = ParseByte(parse, b).out
=============================================================================
