----------------------------- MODULE MLowPacket -----------------------------
(***************************************************************************)
(* The outer layers of an MLow payload (internal/voip/media/mlow/red.go,   *)
(* toc.go, decoder.go): the redundancy header, the table-of-contents byte, *)
(* and which frames reach the decoder proper.  Bytes are numbers.          *)
(***************************************************************************)
EXTENDS Integers, Sequences, SequencesExt

opusFrameSamps == 960
Bit(b, n) == (b \div 2^n) % 2

RedError(err) == [err |-> err, frames |-> <<>>]

\* the header: one <<code, size>> per redundant block, until a byte below 128; rem counts
\* what is left for the blocks still to be announced and the main frame
RECURSIVE redHeader(_, _, _, _)
redHeader(p, cur, rem, red) ==
  IF rem = 0 THEN [err |-> "HeaderTooShort"]
  ELSE IF p[cur + 1] < 128
       THEN IF rem <= 1 THEN [err |-> "MainTooShort"]
            ELSE [err |-> "", cur |-> cur, rem |-> rem, red |-> red]
  ELSE IF rem <= 2 THEN [err |-> "RedundantTooShort"]
  ELSE IF p[cur + 2] + 2 >= rem THEN [err |-> "RedundantTooShort"]
  ELSE redHeader(p, cur + 2, rem - p[cur + 2] - 2,
                 Append(red, [code |-> p[cur + 1] - 128, size |-> p[cur + 2]]))

\* the bytes of the main frame: what the header and the redundant blocks leave
mainSizeShort(rem) == rem - 2
mainSize(rem) == rem - 1

DepackSplitRed(p) ==
  LET h == redHeader(p, 0, Len(p), <<>>)
      take(acc, r) == [cur |-> acc.cur + r.size,
                       frames |-> Append(acc.frames, [data |-> SubSeq(p, acc.cur + 1, acc.cur + r.size),
                                                      code |-> r.code, isMain |-> FALSE])]
      blocks == FoldLeft(take, [cur |-> h.cur + 1, frames |-> <<>>], h.red)
  IN  IF p = <<>> THEN RedError("PktSizeZero")
      ELSE IF h.err # "" THEN RedError(h.err)
      ELSE [err |-> "",
            frames |-> Append(blocks.frames,
                              [data |-> SubSeq(p, blocks.cur + 1, blocks.cur + mainSize(h.rem)),
                               code |-> p[h.cur + 1] % 128, isMain |-> TRUE])]

standardOpusFrameMs(b) ==
  LET config == b \div 8
  IN  CASE config < 12 -> <<10, 20, 40, 60>>[(config % 4) + 1]
        [] config \in 12 .. 15 -> <<10, 20>>[((config - 12) % 2) + 1]
        [] OTHER -> <<3, 5, 10, 20>>[(config % 4) + 1]

ParseSmplTOC(b) ==
  LET opus == Bit(b, 7) = 1 /\ Bit(b, 6) = 1
      vad == ~opus /\ Bit(b, 6) = 1
  IN  [stdOpus |-> opus, sid |-> ~opus /\ Bit(b, 7) = 1, vad |-> vad,
       rate |-> IF ~opus /\ Bit(b, 5) = 1 THEN 32000 ELSE 16000,
       ms |-> IF opus THEN standardOpusFrameMs(b) ELSE <<10, 20, 60, 120>>[((b \div 8) % 4) + 1],
       voiced |-> vad /\ Bit(b, 1) = 1, active |-> ~opus /\ (vad \/ Bit(b, 1) = 1),
       flag2 |-> ~opus /\ Bit(b, 2) = 1, flag0 |-> ~opus /\ Bit(b, 0) = 1]

\* what Decode makes of a payload: the samples it returns, and the frame given to
\* decodeActiveFrame, <<>> when it answers with silence
silence(n) == [samples |-> n, active |-> <<>>]

decodeFrame(frame) ==
  LET toc == ParseSmplTOC(frame[1])
      outLen == (toc.rate \div 1000) * toc.ms
  IN  IF frame = <<>> THEN silence(opusFrameSamps)
      ELSE IF toc.stdOpus THEN silence(outLen)
      ELSE IF toc.sid \/ ~toc.active THEN silence(outLen)
      ELSE [samples |-> outLen, active |-> frame]

\* the redundant frames are dropped: a lost packet is not made up from a later one
Decode(payload, redundancy) ==
  LET red == DepackSplitRed(payload)
  IN  IF payload = <<>> THEN silence(opusFrameSamps)
      ELSE IF redundancy = 0 THEN decodeFrame(payload)
      ELSE IF red.err # "" THEN silence(opusFrameSamps)
      ELSE decodeFrame(Last(red.frames).data)

-----------------------------------------------------------------------------
\* Reference: the sender's side of the redundancy layer

Pack(blocks, code, main) ==
  FlattenSeq([i \in DOMAIN blocks |-> <<128 + blocks[i].code, Len(blocks[i].data)>>]) \o <<code>>
    \o FlattenSeq([i \in DOMAIN blocks |-> blocks[i].data]) \o main
=============================================================================
