----------------------------- MODULE RangeCoder -----------------------------
(***************************************************************************)
(* The range coder under the MLow bitstream (internal/voip/media/mlow):    *)
(* symbols go to the front of the buffer through the interval arithmetic,  *)
(* raw bits to its back.  The widths are parameters: the code has symbols  *)
(* of 8 bits and an interval of 32, TLC checks 2 and 8, the same ratio.    *)
(***************************************************************************)
EXTENDS Integers, Sequences, SequencesExt

CONSTANTS SymBits, CodeBits, \* ecSymBits, ecCodeBits
          UintBits,          \* ecUintBits
          FineBits,          \* a fine lag has 2^FineBits values (64 in the code)
          Storage            \* bytes of the buffer

SymMax == 2^SymBits - 1
CodeTop == 2^(CodeBits - 1)
CodeBot == CodeTop \div 2^SymBits
CodeExtra == ((CodeBits - 2) % SymBits) + 1
CodeShift == CodeBits - SymBits - 1
WindowSize == CodeBits

\* floor(log2(x)) + 1, and 0 for 0
ilog(x) == CHOOSE n \in 0 .. CodeBits : x < 2^n /\ (n = 0 \/ 2^(n - 1) <= x)

-----------------------------------------------------------------------------
\* RangeEncoder

NewRangeEncoder == [front |-> <<>>, back |-> <<>>, window |-> 0, nend |-> 0,
                    rng |-> CodeTop, val |-> 0, ext |-> 0, rem |-> -1, err |-> FALSE]

Full(e) == Len(e.front) + Len(e.back) >= Storage
writeByte(e, b) == IF Full(e) THEN [e EXCEPT !.err = TRUE]
                   ELSE [e EXCEPT !.front = Append(@, b % 2^SymBits)]
writeByteAtEnd(e, b) == IF Full(e) THEN [e EXCEPT !.err = TRUE]
                        ELSE [e EXCEPT !.back = Append(@, b)]

carryOutLost(e, c) ==
  IF c = SymMax THEN [e EXCEPT !.ext = @ + 1]
  ELSE LET e1 == IF e.rem >= 0 THEN writeByte(e, e.rem + c \div 2^SymBits) ELSE e
           fill(x, i) == writeByte(x, SymMax)
       IN  [FoldLeft(fill, e1, [i \in 1 .. e.ext |-> i]) EXCEPT !.ext = 0,
                                                                !.rem = c % 2^SymBits]

\* a byte waits in rem, and the run of SymMax bytes after it in ext, until it is known
\* whether a carry goes through them
carryOut(e, c) ==
  IF c = SymMax THEN [e EXCEPT !.ext = @ + 1]
  ELSE LET carry == c \div 2^SymBits
           e1 == IF e.rem >= 0 THEN writeByte(e, e.rem + carry) ELSE e
           fill(x, i) == writeByte(x, (SymMax + carry) % 2^SymBits)
       IN  [FoldLeft(fill, e1, [i \in 1 .. e.ext |-> i]) EXCEPT !.ext = 0,
                                                                !.rem = c % 2^SymBits]

RECURSIVE normalizeEnc(_)
normalizeEnc(e) ==
  IF e.rng > CodeBot THEN e
  ELSE normalizeEnc([carryOut(e, e.val \div 2^CodeShift) EXCEPT
                       !.val = (e.val * 2^SymBits) % CodeTop, !.rng = e.rng * 2^SymBits])

Encode(e, fl, fh, ft) ==
  LET r == e.rng \div ft
  IN  normalizeEnc(IF fl > 0
                   THEN [e EXCEPT !.val = @ + e.rng - r * (ft - fl), !.rng = r * (fh - fl)]
                   ELSE [e EXCEPT !.rng = @ - r * (ft - fh)])

EncodeBitLogp(e, bit, logp) ==
  LET s == e.rng \div 2^logp
  IN  normalizeEnc(IF bit = 1 THEN [e EXCEPT !.val = @ + e.rng - s, !.rng = s]
                   ELSE [e EXCEPT !.rng = @ - s])

EncodeICDF(e, s, icdf, ftb) ==
  LET r == e.rng \div 2^ftb
  IN  normalizeEnc(IF s > 0
                   THEN [e EXCEPT !.val = @ + e.rng - r * icdf[s],
                                  !.rng = r * (icdf[s] - icdf[s + 1])]
                   ELSE [e EXCEPT !.rng = @ - r * icdf[s + 1]])

\* a table may be a window of a larger one: it starts at its own base
EncodeCDF(e, s, cdf) ==
  LET n == Len(cdf) IN
  IF n < 2 \/ s < 0 \/ s + 1 >= n \/ cdf[n] <= cdf[1] THEN [e EXCEPT !.err = TRUE]
  ELSE Encode(e, cdf[s + 1] - cdf[1], cdf[s + 2] - cdf[1], cdf[n] - cdf[1])

RECURSIVE spill(_, _)
spill(e, keep) ==
  IF e.nend < keep THEN e
  ELSE spill([writeByteAtEnd(e, e.window % 2^SymBits) EXCEPT
                !.window = e.window \div 2^SymBits, !.nend = e.nend - SymBits], keep)

EncodeBitsN(e, fl, n) ==
  LET e1 == IF e.nend + n > WindowSize THEN spill(e, SymBits) ELSE e
  IN  [e1 EXCEPT !.window = @ + fl * 2^e1.nend, !.nend = @ + n]

\* the high part goes through the coder, the low bits to the back
EncodeUint(e, fl, ft0) ==
  LET ft == ft0 - 1
      shift == ilog(ft) - UintBits
  IN  IF shift > 0
      THEN EncodeBitsN(Encode(e, fl \div 2^shift, fl \div 2^shift + 1, ft \div 2^shift + 1),
                       fl % 2^shift, shift)
      ELSE Encode(e, fl, fl + 1, ft + 1)

EncodeRawSymbol(e, sym, nbits) == Encode(e, sym, sym + 1, 2^nbits)
Encode64FineSym(e, sym) == Encode(e, sym, sym + 1, 2^FineBits)

\* the shortest number in [val, val + rng) is written out, then the raw bits are merged
RECURSIVE flush(_, _, _)
flush(e, end, l) ==
  IF l <= 0 THEN e
  ELSE flush(carryOut(e, end \div 2^CodeShift), (end * 2^SymBits) % CodeTop, l - SymBits)

Ending(e) ==
  LET l == CodeBits - ilog(e.rng)
      end(unit) == ((e.val + unit - 1) \div unit) * unit
      unit == CodeTop \div 2^l
      half == (unit - 1) \div 2 + 1
  IN  IF end(unit) + unit - 1 >= e.val + e.rng THEN [e |-> e, l |-> l + 1, end |-> end(half)]
      ELSE [e |-> e, l |-> l, end |-> end(unit)]

Done(e) ==
  LET last == Ending(e)
      e1 == flush(e, last.end, last.l)
      e2 == IF e1.rem >= 0 \/ e1.ext > 0 THEN carryOut(e1, 0) ELSE e1
      e3 == spill(e2, SymBits)
  IN  [e3 EXCEPT !.err = @ \/ (e3.nend > 0 /\ Full(e3))]

\* the buffer: front, zeros, the bits left in the window, back
Bytes(e) ==
  LET gap == Storage - Len(e.front) - Len(e.back)
      bits == [i \in 1 .. gap |-> IF i = gap /\ e.nend > 0 THEN e.window % 2^SymBits ELSE 0]
  IN  e.front \o bits \o Reverse(e.back)

ConsumedLen(e) == Len(e.front) + Len(e.back)

-----------------------------------------------------------------------------
\* RangeDecoder

RECURSIVE normalizeDec(_)
readByte(d) == IF d.offs < Len(d.buf) THEN d.buf[d.offs + 1] ELSE 0
Advance(d) == IF d.offs < Len(d.buf) THEN d.offs + 1 ELSE d.offs

normalizeDec(d) ==
  IF d.rng > CodeBot THEN d
  ELSE LET sym == ((d.rem * 2^SymBits + readByte(d)) \div 2^(SymBits - CodeExtra)) % 2^SymBits
       IN  normalizeDec([d EXCEPT !.rng = @ * 2^SymBits, !.rem = readByte(d), !.offs = Advance(d),
                                  !.val = (@ * 2^SymBits + SymMax - sym) % CodeTop])

NewRangeDecoder(buf) ==
  LET d == [buf |-> buf, offs |-> 0, endOffs |-> 0, window |-> 0, nend |-> 0,
            rng |-> 2^CodeExtra, val |-> 0, ext |-> 1, rem |-> 0, err |-> FALSE]
  IN  normalizeDec([d EXCEPT !.rem = readByte(d), !.offs = Advance(d),
                             !.val = 2^CodeExtra - 1 - readByte(d) \div 2^(SymBits - CodeExtra)])

\* the cumulative frequency, in [0, ft), of the next symbol
Decode(d, ft) ==
  IF ft = 0 \/ d.rng < ft THEN [fs |-> 0, d |-> [d EXCEPT !.err = TRUE, !.ext = 1]]
  ELSE LET ext == d.rng \div ft
           s == d.val \div ext + 1
       IN  [fs |-> ft - (IF s < ft THEN s ELSE ft), d |-> [d EXCEPT !.ext = ext]]

\* values wrap as the code's unsigned ones do on a corrupt stream
Update(d, fl, fh, ft) ==
  LET s == d.ext * (ft - fh)
  IN  normalizeDec([d EXCEPT !.val = @ - s, !.rng = IF fl > 0 THEN d.ext * (fh - fl) ELSE @ - s])

DecodeBitLogp(d, logp) ==
  LET s == d.rng \div 2^logp
      bit == IF d.val < s THEN 1 ELSE 0
  IN  [v |-> bit, d |-> normalizeDec(IF bit = 1 THEN [d EXCEPT !.rng = s]
                                     ELSE [d EXCEPT !.val = @ - s, !.rng = @ - s])]

DecodeICDF(d, icdf, ftb) ==
  LET r == d.rng \div 2^ftb
      k == CHOOSE i \in 1 .. Len(icdf) :
             /\ d.val >= r * icdf[i] \/ i = Len(icdf)
             /\ \A j \in 1 .. i - 1 : d.val < r * icdf[j]
      top == IF k = 1 THEN d.rng ELSE r * icdf[k - 1]
  IN  [v |-> k - 1, d |-> normalizeDec([d EXCEPT !.val = @ - r * icdf[k], !.rng = top - r * icdf[k]])]

DecodeCDF(d, cdf) ==
  LET n == Len(cdf) IN
  IF n < 2 \/ cdf[n] <= cdf[1] THEN [v |-> 0, d |-> [d EXCEPT !.err = TRUE]]
  ELSE LET ft == cdf[n] - cdf[1]
           x == Decode(d, ft)
           k == CHOOSE i \in 1 .. n - 1 : /\ cdf[i + 1] - cdf[1] > x.fs
                                          /\ \A j \in 1 .. i - 1 : cdf[j + 1] - cdf[1] <= x.fs
       IN  [v |-> k - 1, d |-> Update(x.d, cdf[k] - cdf[1], cdf[k + 1] - cdf[1], ft)]

RECURSIVE refill(_)
refill(d) ==
  IF d.nend > WindowSize - SymBits THEN d
  ELSE LET more == d.endOffs < Len(d.buf)
           b == IF more THEN d.buf[Len(d.buf) - d.endOffs] ELSE 0
       IN  refill([d EXCEPT !.window = @ + b * 2^d.nend, !.nend = @ + SymBits,
                            !.endOffs = IF more THEN @ + 1 ELSE @])

DecodeBitsN(d, n) ==
  LET d1 == IF d.nend < n THEN refill(d) ELSE d
  IN  [v |-> d1.window % 2^n, d |-> [d1 EXCEPT !.window = @ \div 2^n, !.nend = @ - n]]

Uniform(d, ft) == LET x == Decode(d, ft) IN [v |-> x.fs, d |-> Update(x.d, x.fs, x.fs + 1, ft)]

DecodeUint(d, ft0) ==
  LET ft == ft0 - 1
      ftb == ilog(ft) - UintBits
  IN  IF ftb <= 0 THEN Uniform(d, ft0)
      ELSE LET hi == Uniform(d, ft \div 2^ftb + 1)
               lo == DecodeBitsN(hi.d, ftb)
               v == hi.v * 2^ftb + lo.v
           IN  IF v <= ft THEN [v |-> v, d |-> lo.d]
               ELSE [v |-> ft, d |-> [lo.d EXCEPT !.err = TRUE]]

DecodeRawSymbol(d, nbits) == Uniform(d, 2^nbits)

Decode64FineSym(d) ==
  LET ext == d.rng \div 2^FineBits
      s == 2^FineBits - 1 - d.val \div ext
      sym == IF s < 0 THEN 0 ELSE s
  IN  [v |-> sym, d |-> Update([d EXCEPT !.ext = ext], sym, sym + 1, 2^FineBits)]
=============================================================================
