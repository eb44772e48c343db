------------------------------- MODULE TsLink -------------------------------
(***************************************************************************)
(* The serial link of the tuning protocol: FrameAssembler (ts/serial.rs),  *)
(* the frames of ts/proto.rs, and the pump of TsService and of the RP2040  *)
(* loops, which read a chunk, pop a bounded number of frames and answer    *)
(* them.  The host repeats a request that stays unanswered.  The line may  *)
(* lose a byte of a frame or add stray ones.                               *)
(***************************************************************************)
EXTENDS Integers, Sequences, SequencesExt, FiniteSetsExt

CONSTANTS
    BufLen,     \* bytes of FrameAssembler.buf
    InLen,      \* bytes of the buffer a frame is popped into
    ReplyLen,   \* bytes of the buffer a reply is encoded into
    Chunk,      \* bytes one poll reads
    Budget,     \* frames one pump answers
    Requests,   \* the host's requests, in order: [cmd, payload, reply]
    Strays,     \* byte runs noise may add
    Faults      \* how often the line fails

VARIABLES
    asked,      \* the request the host waits for
    wire,       \* bytes on their way
    asm,        \* FrameAssembler: the bytes held
    faults,     \* faults left
    turn        \* alternates with the turns of the loop

linkvars == <<asked, wire, asm, faults, turn>>

Magic0 == 170
Magic1 == 85
Cmds == {16, 17, 18} \cup 32..36 \cup 48..54

\* crc16_ccitt, by what the link needs of it: it depends on every byte.
crc16_ccitt(bytes) ==
    LET sum[i \in 0..Len(bytes)] == IF i = 0 THEN 0 ELSE sum[i - 1] + i * bytes[i]
    IN  <<sum[Len(bytes)] % 256, Len(bytes)>>

Frame(cmd, payload) ==
    LET body == <<cmd>> \o payload
        n == Len(body) + 2
    IN  <<Magic0, Magic1, n % 256, n \div 256>> \o body \o crc16_ccitt(body)

\* encode_reply fails when the frame does not fit the reply buffer.
encode_reply(n) == n + 7 <= ReplyLen

decode_request(frame) ==
    LET body == SubSeq(frame, 5, Len(frame) - 2)
    IN  SubSeq(frame, Len(frame) - 1, Len(frame)) = crc16_ccitt(body) /\ body[1] \in Cmds

feed(buf, bytes) == buf \o SubSeq(bytes, 1, Min({Len(bytes), BufLen - Len(buf)}))

\* Where a header starts; the last three bytes when there is none.
HeaderAt(buf) ==
    LET at == {i \in 1..Len(buf) - 3 : buf[i] = Magic0 /\ buf[i + 1] = Magic1}
    IN  IF at # {} THEN Min(at) ELSE IF Len(buf) > 3 THEN Len(buf) - 2 ELSE 1

\* Mutant of LengthFits: the bytes before the length are forgotten.
LengthFitsHeaderForgotten(length) == length >= 3 /\ length <= BufLen

LengthFits(length) == length >= 3 /\ length <= BufLen - 4

try_pop(held) ==
    LET buf == SubSeq(held, HeaderAt(held), Len(held))
        length == 256 * buf[4] + buf[3]
        total == 4 + length
        none == [buf |-> buf, frame |-> <<>>]
        dropped == [buf |-> Tail(buf), frame |-> <<>>]
    IN  IF Len(buf) < 4 THEN none
        ELSE IF ~LengthFits(length) THEN dropped
        ELSE IF Len(buf) < total THEN none
        ELSE IF total > InLen \/ ~decode_request(SubSeq(buf, 1, total)) THEN dropped
        ELSE [buf |-> SubSeq(buf, total + 1, Len(buf)), frame |-> SubSeq(buf, 1, total)]

\* Pops until one fails or the budget is spent.
RECURSIVE Popped(_, _, _)
Popped(held, left, frames) ==
    LET r == try_pop(held)
    IN  IF left = 0 THEN [buf |-> held, frames |-> frames]
        ELSE IF r.frame = <<>> THEN [buf |-> r.buf, frames |-> frames]
        ELSE Popped(r.buf, left - 1, frames \cup {r.frame})

Request == Requests[asked]
Waiting == asked <= Len(Requests)

\* pump_with_budget: the reply reaches the host, unless it does not fit.
pump_with_budget ==
    LET n == Min({Len(wire), Chunk})
        popped == Popped(feed(asm, SubSeq(wire, 1, n)), Budget, {})
        answered == /\ Waiting
                    /\ encode_reply(Request.reply)
                    /\ Frame(Request.cmd, Request.payload) \in popped.frames
    IN  /\ asm' = popped.buf
        /\ wire' = SubSeq(wire, n + 1, Len(wire))
        /\ asked' = IF answered THEN asked + 1 ELSE asked
        /\ turn' = 1 - turn
        /\ UNCHANGED faults

\* The host sends its request, again when no answer came.
Ask ==
    /\ Waiting
    /\ wire = <<>>
    /\ wire' = Frame(Request.cmd, Request.payload)
    /\ UNCHANGED <<asked, asm, faults, turn>>

LoseByte ==
    /\ faults > 0
    /\ \E i \in 1..Len(wire) : wire' = RemoveAt(wire, i)
    /\ faults' = faults - 1
    /\ UNCHANGED <<asked, asm, turn>>

Noise ==
    /\ faults > 0
    /\ \E s \in Strays : wire' = s \o wire
    /\ faults' = faults - 1
    /\ UNCHANGED <<asked, asm, turn>>

LinkInit == asked = 1 /\ wire = <<>> /\ asm = <<>> /\ faults = Faults /\ turn = 0
LinkNext == pump_with_budget \/ Ask \/ LoseByte \/ Noise

\* The loop never stops, and the host's timeout elapses in the end.
LinkFairness == []<><<pump_with_budget>>_linkvars /\ WF_linkvars(Ask)
LinkSpec == LinkInit /\ [][LinkNext]_linkvars /\ LinkFairness

-----------------------------------------------------------------------------
\* The loop pumps on every turn and the host repeats its request: whatever
\* bytes were lost or added before, every request is answered in the end.
LinkRecovers == \A k \in 1..Len(Requests) : asked = k ~> asked > k
=============================================================================
