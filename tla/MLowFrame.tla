----------------------------- MODULE MLowFrame ------------------------------
(***************************************************************************)
(* The MLow frame on the wire: which symbol is written against which       *)
(* table, and which one the decoder reads.  A write is a table, named by   *)
(* what selects it, and a symbol; the range coder carries it (RangeCoder). *)
(* The tables depend on what earlier parts of the frame said and on the    *)
(* predictor, which the encoder starts afresh for every packet and the     *)
(* decoder keeps from packet to packet.                                    *)
(***************************************************************************)
EXTENDS Integers, Sequences, SequencesExt

CONSTANTS PosPer,          \* sample positions of a subframe (80)
          SubfrMax,        \* pulses of a subframe (40); a half holds twice that (80)
          SignBatch,       \* signs in one raw symbol (15)
          Coefs,           \* stage-2 residuals (16)
          Blocks, Blocksize, \* lag blocks (9) and lags per block (64)
          Contours,        \* lag contours: sequences of [blk, len], sorted by first block
          GainWeight       \* weight of an ACB gain index; 1 and 2 stand for the thresholds

Sf == 1 .. 4
Abs(x) == IF x < 0 THEN -x ELSE x
Least(a, b) == IF a < b THEN a ELSE b
Most(a, b) == IF a < b THEN b ELSE a
Total(c) == c[1] + c[2] + c[3] + c[4]
NoPredictor == [stage1 |-> 0, gain |-> -1, filt |-> -1, blk |-> -1, idx |-> -1]

\* The decoder's side of a read, and the encoder's of a write; n is the number of symbols
Read(d, tab) == IF d.in # <<>> /\ Head(d.in).tab = tab
                THEN [v |-> Head(d.in).sym, d |-> [d EXCEPT !.in = Tail(@)]]
                ELSE [v |-> 0, d |-> [d EXCEPT !.ok = FALSE]]
Put(tab, n, s) == <<[tab |-> tab, sym |-> s, fits |-> s \in 0 .. n - 1]>>
RECURSIVE ReadAll(_, _)
ReadAll(d, tabs) ==
  IF tabs = <<>> THEN [v |-> <<>>, d |-> d]
  ELSE LET x == Read(d, Head(tabs))
           rest == ReadAll(x.d, Tail(tabs))
       IN  [v |-> <<x.v>> \o rest.v, d |-> rest.d]

-----------------------------------------------------------------------------
\* LSF block and predictor

advanceLsfStateKeeping(st, intf, stage1) == [st EXCEPT !.stage1 = stage1]

\* an internal frame that does not continue its predecessor resets the predictor
advanceLsfState(st, intf, stage1) ==
  IF intf # 0 /\ stage1 = st.stage1 THEN st ELSE [NoPredictor EXCEPT !.stage1 = stage1]

Selector(st, intf) == <<"sel", IF intf = 0 THEN 0 ELSE IF st.stage1 # 0 THEN 2 ELSE 1>>
Grid(st, intf, stage1) == <<"grid", intf # 0 /\ stage1 = st.stage1, stage1 # 0>>
Stage2(stage1, config, grid) == [k \in 1 .. Coefs |-> <<"stage2", stage1, config, grid, k>>]

encodeSmplLsf(st, config, intf, lsf) ==
  LET tabs == Stage2(lsf.stage1, config, lsf.grid)
      put(acc, k) == acc \o Put(tabs[k], 3, lsf.stage2[k])
  IN  Put(Selector(st, intf), 2, lsf.stage1) \o Put(Grid(st, intf, lsf.stage1), 2, lsf.grid)
        \o FoldLeft(put, <<>>, [k \in 1 .. Coefs |-> k]) \o Put(<<"extra">>, 3, lsf.extra)

DecodeSmplLsf(d, config, intf) ==
  LET s == Read(d, Selector(d.st, intf))
      g == Read(s.d, Grid(d.st, intf, s.v))
      r == ReadAll(g.d, Stage2(s.v, config, g.v))
      x == Read(r.d, <<"extra">>)
  IN  [lsf |-> [stage1 |-> s.v, grid |-> g.v, stage2 |-> r.v, extra |-> x.v],
       d |-> [x.d EXCEPT !.st = advanceLsfState(d.st, intf, s.v)]]

-----------------------------------------------------------------------------
\* Pulses

\* triT: cumulative triangular prior over 0 .. l, in 16 bits
triT(k, l) == ((k + 2) * (l + 1) - ((k - 1) * (k - 2)) \div 2) % 2^16
triFrom(k, l) == IF k > 0 THEN triT(k - 1, l) ELSE 0
\* the decoder's search: the first k whose interval holds val
triSearch(val, l) ==
  LET holds(k) == triFrom(k, l) <= val /\ val < triT(k, l)
  IN  CHOOSE k \in 0 .. l + 1 : (k = l + 1 \/ holds(k)) /\ \A j \in 0 .. k - 1 : ~holds(j)

\* smplBuildPulseParams: counts, run lengths within each subframe, signs in batches
Subfr(pulse) == [sf \in Sf |-> LET add(a, n) == a + Abs(pulse[n])
                               IN  FoldLeft(add, 0, [i \in 1 .. PosPer |-> PosPer * (sf - 1) + i])]

Runs(pulse, sf) ==
  LET step(acc, n) ==
        IF pulse[n] = 0 THEN acc
        ELSE [at |-> n, runs |-> acc.runs \o <<n - acc.at>> \o [i \in 1 .. Abs(pulse[n]) - 1 |-> 0]]
  IN  FoldLeft(step, [at |-> PosPer * (sf - 1) + 1, runs |-> <<>>],
               [i \in 1 .. PosPer |-> PosPer * (sf - 1) + i]).runs

RECURSIVE signSyms(_)
signSyms(signs) ==
  IF signs = <<>> THEN <<>>
  ELSE LET n == Least(SignBatch, Len(signs))
           bit(acc, s) == 2 * acc + (IF s > 0 THEN 1 ELSE 0)
       IN  <<[sym |-> FoldLeft(bit, 0, SubSeq(signs, 1, n)), nbits |-> n]>>
             \o signSyms(SubSeq(signs, n + 1, Len(signs)))

smplBuildPulseParams(pulse) ==
  [subfr |-> Subfr(pulse), runs |-> [sf \in Sf |-> Runs(pulse, sf)],
   signs |-> signSyms(SelectSeq(pulse, LAMBDA x : x # 0))]

\* where a half's and a subframe's share of a count may lie
HalfWindow(total) == [lo |-> Most(0, total - 2 * SubfrMax), hi |-> total - Most(0, total - 2 * SubfrMax)]
Share(count) == [lo |-> Most(0, count - SubfrMax), hi |-> Least(count, SubfrMax)]

encodeSplit(count, s0) ==
  LET w == Share(count) IN
  IF w.lo >= w.hi THEN <<>>
  ELSE Put(<<"split", count, w.lo, w.hi - w.lo + 2>>, w.hi - w.lo + 1, s0 - w.lo)

smplSplit(d, count) ==
  LET w == Share(count)
      x == Read(d, <<"split", count, w.lo, w.hi - w.lo + 2>>)
  IN  IF count <= 0 THEN [v |-> 0, d |-> d]
      ELSE IF w.lo = w.hi THEN [v |-> w.lo, d |-> d] ELSE [v |-> x.v + w.lo, d |-> x.d]

encodeRuns(runs) ==
  LET step(acc, m) ==
        [out |-> acc.out \o Put(<<"run", acc.c, acc.pos>>, acc.pos, m),
         pos |-> acc.pos - m, c |-> acc.c - 1]
  IN  FoldLeft(step, [out |-> <<>>, pos |-> PosPer, c |-> Len(runs)], runs).out

encodeSmplPulses(frameLen, pp) ==
  LET total == Total(pp.subfr)
      sum == pp.subfr[1] + pp.subfr[2]
      w == HalfWindow(total)
      runs(acc, sf) == acc \o encodeRuns(pp.runs[sf])
      signs(acc, s) == acc \o Put(<<"raw", s.nbits>>, 2^s.nbits, s.sym)
  IN  Put(<<"count", frameLen>>, frameLen + 1, total)
        \o (IF total = 0 THEN <<>> ELSE
              (IF w.lo < w.hi THEN Put(<<"split", total, 0, w.hi - w.lo + 2>>,
                                       w.hi - w.lo + 1, sum - w.lo) ELSE <<>>)
              \o (IF sum > 0 THEN encodeSplit(sum, pp.subfr[1]) ELSE <<>>)
              \o (IF sum < total THEN encodeSplit(total - sum, pp.subfr[3]) ELSE <<>>)
              \o FoldLeft(runs, <<>>, <<1, 2, 3, 4>>) \o FoldLeft(signs, <<>>, pp.signs))

\* one subframe's runs: a run of zero adds to the pulse before it, except the first
RECURSIVE decodeRuns(_, _, _, _)
decodeRuns(d, cnt, c, acc) ==
  IF c = 0 THEN [d |-> d, at |-> acc.at]
  ELSE LET m == Read(d, <<"run", c, acc.pos>>)
           run == acc.run + m.v
           at == IF m.v > 0 \/ c = cnt THEN Append(acc.at, [n |-> run, mag |-> 1])
                 ELSE [acc.at EXCEPT ![Len(acc.at)].mag = @ + 1]
       IN  decodeRuns(m.d, cnt, c - 1, [run |-> run, pos |-> acc.pos - m.v, at |-> at])

RECURSIVE decodeSigns(_, _)
decodeSigns(d, n) ==
  IF n <= 0 THEN [v |-> <<>>, d |-> d]
  ELSE LET k == Least(SignBatch, n)
           x == Read(d, <<"raw", k>>)
           rest == decodeSigns(x.d, n - k)
       IN  [v |-> [i \in 1 .. k |-> IF (x.v \div 2^(k - i)) % 2 = 1 THEN 1 ELSE -1] \o rest.v,
            d |-> rest.d]

\* the total's share in the first half, the halves' in their subframes, the runs, the signs
decodeHalf(t) ==
  LET w == HalfWindow(t.v)
      x == Read(t.d, <<"split", t.v, 0, w.hi - w.lo + 2>>)
  IN  IF t.v > 0 /\ w.lo < w.hi THEN [d |-> x.d, total |-> t.v, first |-> x.v + w.lo]
      ELSE [d |-> t.d, total |-> t.v, first |-> w.lo]
decodeCounts(h) ==
  LET step(acc, n) == LET s == smplSplit(acc.d, n) IN [d |-> s.d, subfr |-> acc.subfr \o <<s.v, n - s.v>>]
  IN  FoldLeft(step, [d |-> h.d, subfr |-> <<>>], <<h.first, h.total - h.first>>)
decodeMagnitudes(c) ==
  LET step(acc, sf) ==
        LET n == c.subfr[sf]
            x == decodeRuns(acc.d, n, n, [run |-> PosPer * (sf - 1) + 1, pos |-> PosPer, at |-> <<>>])
        IN  IF n <= 0 THEN acc ELSE [acc EXCEPT !.d = x.d, !.at = @ \o x.at]
  IN  FoldLeft(step, [d |-> c.d, subfr |-> c.subfr, at |-> <<>>], <<1, 2, 3, 4>>)
decodePulses(m) ==
  LET s == decodeSigns(m.d, Len(m.at))
      set(acc, i) == [acc EXCEPT ![m.at[i].n] = m.at[i].mag * s.v[i]]
  IN  [subfr |-> m.subfr, d |-> s.d,
       pulses |-> FoldLeft(set, [n \in 1 .. 4 * PosPer |-> 0], [i \in 1 .. Len(m.at) |-> i])]

DecodeSmplPulses(d, frameLen) ==
  decodePulses(decodeMagnitudes(decodeCounts(decodeHalf(Read(d, <<"count", frameLen>>)))))

-----------------------------------------------------------------------------
\* Gains of an unvoiced frame: only subframes with pulses have an energy residual

NrgTable(gp, cnt, sf) == <<"nrgres", Least(cnt \div 10, 3), gp.main, gp.delta, sf>>

encodeSmplGains(subfr, gp) ==
  LET put(acc, sf) == IF subfr[sf] > 0 THEN acc \o Put(NrgTable(gp, subfr[sf], sf), 3, gp.nrg[sf]) ELSE acc
  IN  Put(<<"main">>, 2, gp.main) \o Put(<<"delta">>, 2, gp.delta) \o FoldLeft(put, <<>>, <<1, 2, 3, 4>>)

DecodeSmplGains(d, subfr) ==
  LET m == Read(d, <<"main">>)
      g == Read(m.d, <<"delta">>)
      gp == [main |-> m.v, delta |-> g.v, nrg |-> [sf \in Sf |-> 0]]
      get(acc, sf) == IF subfr[sf] <= 0 THEN acc
                      ELSE LET x == Read(acc.d, NrgTable(gp, subfr[sf], sf))
                           IN  [d |-> x.d, gp |-> [acc.gp EXCEPT !.nrg[sf] = x.v]]
  IN  FoldLeft(get, [d |-> g.d, gp |-> gp], <<1, 2, 3, 4>>)

-----------------------------------------------------------------------------
\* Pitch of a voiced frame: LTP gains against the previous gain, then the lag contour

Mode(gains) == Least(2, (GainWeight[gains[1]] + GainWeight[gains[2]]
                         + GainWeight[gains[3]] + GainWeight[gains[4]]) \div 4)
FirstIs(b) == {i \in DOMAIN Contours : Contours[i][1].blk = b}
\* FirstblockRange: the contours that begin in a block are consecutive
RangeStart(b) == CHOOSE i \in FirstIs(b) : \A j \in FirstIs(b) : i <= j
Near(blk, prev) == prev > -1 /\ blk - prev \in -1 .. 2
\* the part of the delta-lag table that starts at the block's first lag
DeltaTable(mode, blk, prevIdx) == <<"lag", mode, blk * Blocksize - prevIdx + 2 * Blocksize - 1>>

\* encodeLagsWire: lags holds one lag index per segment of the contour
encodeLagsWire(contour, lags, st, mode) ==
  LET segs == Contours[contour]
      b0 == segs[1].blk
      sel == IF st.blk < 0 THEN Put(<<"contour">>, Len(Contours), contour - 1)
             ELSE Put(<<"block", st.blk>>, Blocks, b0)
                    \o Put(<<"contour", b0>>, Len(Contours), contour - RangeStart(b0))
      fine == ~Near(b0, st.blk)
      step(acc, k) == [out |-> acc.out \o Put(DeltaTable(mode, segs[k].blk, acc.idx), Blocksize,
                                              lags[k] - segs[k].blk * Blocksize),
                       idx |-> lags[k]]
      from == IF fine THEN [out |-> Put(<<"fine">>, Blocksize, lags[1] - b0 * Blocksize), idx |-> lags[1]]
              ELSE [out |-> <<>>, idx |-> st.idx]
  IN  sel \o FoldLeft(step, from, [k \in 1 .. Len(segs) - (IF fine THEN 1 ELSE 0)
                                     |-> IF fine THEN k + 1 ELSE k]).out

lagsPredictorAfter(st, contour, lags) ==
  [st EXCEPT !.blk = Contours[contour][Len(Contours[contour])].blk, !.idx = lags[Len(lags)]]

encodeSmplPitch(st, subfr, pp) ==
  LET step(acc, sf) ==
        LET e1 == acc.out \o Put(<<"acb", acc.st.gain>>, 3, pp.gain[sf])
            st1 == [acc.st EXCEPT !.gain = pp.gain[sf]]
        IN  IF subfr[sf] <= 0 THEN [out |-> e1, st |-> st1]
            ELSE [out |-> e1 \o Put(<<"fcb", acc.st.filt>>, 3, pp.filt[sf]),
                  st |-> [st1 EXCEPT !.filt = pp.filt[sf]]]
      g == FoldLeft(step, [out |-> <<>>, st |-> st], <<1, 2, 3, 4>>)
  IN  [out |-> g.out \o encodeLagsWire(pp.contour, pp.lags, g.st, Mode(pp.gain)),
       st |-> lagsPredictorAfter(g.st, pp.contour, pp.lags)]

\* the gains and filters of the subframes, the contour, its lags
decodeGains(d, subfr) ==
  LET filter(acc, g, sf) ==
        LET f == Read(g.d, <<"fcb", g.d.st.filt>>)
        IN  IF subfr[sf] <= 0 THEN [d |-> g.d, gain |-> Append(acc.gain, g.v), filt |-> Append(acc.filt, -1)]
            ELSE [d |-> [f.d EXCEPT !.st.filt = f.v], gain |-> Append(acc.gain, g.v),
                  filt |-> Append(acc.filt, f.v)]
      gain(acc, sf) ==
        LET g == Read(acc.d, <<"acb", acc.d.st.gain>>)
        IN  filter(acc, [g EXCEPT !.d.st.gain = g.v], sf)
  IN  FoldLeft(gain, [d |-> d, gain |-> <<>>, filt |-> <<>>], <<1, 2, 3, 4>>)
decodeContour(g) ==
  LET prev == g.d.st.blk
      within(b) == IF FirstIs(b.v) = {} THEN b
                   ELSE LET x == Read(b.d, <<"contour", b.v>>) IN [x EXCEPT !.v = @ + RangeStart(b.v)]
      x == IF prev >= 0 THEN within(Read(g.d, <<"block", prev>>))
           ELSE LET c == Read(g.d, <<"contour">>) IN [c EXCEPT !.v = @ + 1]
  IN  [d |-> x.d, gain |-> g.gain, filt |-> g.filt, contour |-> x.v]
decodeLags(c) ==
  LET segs == Contours[c.contour]
      fine == ~Near(segs[1].blk, c.d.st.blk)
      add(acc, k, x) ==
        LET lag == segs[k].blk * Blocksize + x.v
        IN  [d |-> [x.d EXCEPT !.st.blk = segs[k].blk, !.st.idx = lag], lags |-> Append(acc.lags, lag)]
      step(acc, k) ==
        add(acc, k, Read(acc.d, IF k = 1 /\ fine THEN <<"fine">>
                                ELSE DeltaTable(Mode(c.gain), segs[k].blk, acc.d.st.idx)))
      pitch(r) == [d |-> r.d, pp |-> [gain |-> c.gain, filt |-> c.filt, contour |-> c.contour, lags |-> r.lags]]
  IN  IF c.contour \notin DOMAIN Contours THEN [d |-> [c.d EXCEPT !.ok = FALSE], pp |-> <<>>]
      ELSE pitch(FoldLeft(step, [d |-> c.d, lags |-> <<>>], [k \in DOMAIN segs |-> k]))

DecodeSmplPitch(d, subfr) == decodeLags(decodeContour(decodeGains(d, subfr)))

-----------------------------------------------------------------------------
\* The three internal frames of a packet

\* EncodeSmplFrame starts from a fresh predictor
EncodeSmplFrame(frames) ==
  LET step(acc, f) ==
        LET ip == frames[f + 1]
            pp == smplBuildPulseParams(ip.pulses)
            st == advanceLsfState(acc.st, f, ip.lsf.stage1)
            head == acc.out \o encodeSmplLsf(acc.st, 0, f, ip.lsf) \o encodeSmplPulses(4 * SubfrMax, pp)
            p == encodeSmplPitch(st, pp.subfr, ip.pitch)
        IN  IF ip.lsf.stage1 = 1 THEN [out |-> head \o p.out, st |-> p.st]
            ELSE [out |-> head \o encodeSmplGains(pp.subfr, ip.gains), st |-> st]
  IN  FoldLeft(step, [out |-> <<>>, st |-> [NoPredictor EXCEPT !.gain = 0, !.filt = 0, !.blk = 0, !.idx = 0]],
               <<0, 1, 2>>).out

\* decodeActiveFrame goes on with the predictor the last packet left
decodeActiveFrame(in, st) ==
  LET excitation(out, lsf, p) ==
        LET ip == [lsf |-> lsf, pulses |-> p.pulses, pitch |-> <<>>, gains |-> <<>>]
            voiced(v) == [d |-> v.d, out |-> Append(out, [ip EXCEPT !.pitch = v.pp])]
            unvoiced(g) == [d |-> g.d, out |-> Append(out, [ip EXCEPT !.gains = g.gp])]
        IN  IF lsf.stage1 = 1 THEN voiced(DecodeSmplPitch(p.d, p.subfr)) ELSE unvoiced(DecodeSmplGains(p.d, p.subfr))
      pulses(out, l) == excitation(out, l.lsf, DecodeSmplPulses(l.d, 4 * SubfrMax))
      step(acc, f) == IF ~acc.d.ok THEN acc ELSE pulses(acc.out, DecodeSmplLsf(acc.d, 0, f))
  IN  FoldLeft(step, [d |-> [in |-> in, ok |-> TRUE, st |-> st], out |-> <<>>], <<0, 1, 2>>)
=============================================================================
