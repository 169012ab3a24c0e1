---------------------------- MODULE Sha256Core ----------------------------
(***************************************************************************)
(* The datapath of sha256_core.v and sha256_w_mem.v, bit for bit: the      *)
(* sliding window that expands the block, the working registers a .. h and *)
(* the chaining value H0 .. H7.  It hashes the messages of the testbenches *)
(* and is checked against FIPS 180-4 and the digests they expect.          *)
(***************************************************************************)
EXTENDS Sha256Ctrl, Sequences

CONSTANT Messages   \* what is hashed, each a mode and its padded blocks

(***************************************************************************)
(* 32-bit words and the functions the core computes on them.  A word is    *)
(* the set of the positions of its one bits, 0 being the least significant.*)
(***************************************************************************)
Bit  == 0 .. 31
Word32 == SUBSET Bit

\* The word with upper half hi and lower half lo.
X(hi, lo) ==
  LET Ones(n) == {i \in 0 .. 15 : (n \div 2^i) % 2 = 1}
  IN  Ones(lo) \cup {16 + i : i \in Ones(hi)}

Xor(x, y)    == (x \ y) \cup (y \ x)
Xor3(x, y, z) == Xor(x, Xor(y, z))
Not(x)       == Bit \ x

\* {x[n-1 : 0], x[31 : n]}: rotate right; {n'b0, x[31 : n]}: shift right.
Rotr(x, n) == {(i - n) % 32 : i \in x}
Shr(x, n)  == {i - n : i \in {j \in x : j >= n}}

\* A carry reaches bit i from a lower bit where both words are one, through
\* bits where at least one is; the carry out of bit 31 is lost.
Carries(x, y) ==
  {i \in Bit : \E j \in x \cap y : j < i /\ (j + 1) .. (i - 1) \subseteq x \cup y}
Add(x, y) == Xor3(x, y, Carries(x, y))

sum0(x) == Xor3(Rotr(x, 2), Rotr(x, 13), Rotr(x, 22))
sum1(x) == Xor3(Rotr(x, 6), Rotr(x, 11), Rotr(x, 25))
d0(x)   == Xor3(Rotr(x, 7), Rotr(x, 18), Shr(x, 3))
d1(x)   == Xor3(Rotr(x, 17), Rotr(x, 19), Shr(x, 10))

ch(e, f, g)  == Xor(e \cap f, Not(e) \cap g)
maj(a, b, c) == Xor3(a \cap b, a \cap c, b \cap c)

\* K[round + 1]
K == <<
   X(\h428a, \h2f98), X(\h7137, \h4491), X(\hb5c0, \hfbcf),
     X(\he9b5, \hdba5), X(\h3956, \hc25b), X(\h59f1, \h11f1),
     X(\h923f, \h82a4), X(\hab1c, \h5ed5), X(\hd807, \haa98),
     X(\h1283, \h5b01), X(\h2431, \h85be), X(\h550c, \h7dc3),
     X(\h72be, \h5d74), X(\h80de, \hb1fe), X(\h9bdc, \h06a7),
     X(\hc19b, \hf174), X(\he49b, \h69c1), X(\hefbe, \h4786),
     X(\h0fc1, \h9dc6), X(\h240c, \ha1cc), X(\h2de9, \h2c6f),
     X(\h4a74, \h84aa), X(\h5cb0, \ha9dc), X(\h76f9, \h88da),
     X(\h983e, \h5152), X(\ha831, \hc66d), X(\hb003, \h27c8),
     X(\hbf59, \h7fc7), X(\hc6e0, \h0bf3), X(\hd5a7, \h9147),
     X(\h06ca, \h6351), X(\h1429, \h2967), X(\h27b7, \h0a85),
     X(\h2e1b, \h2138), X(\h4d2c, \h6dfc), X(\h5338, \h0d13),
     X(\h650a, \h7354), X(\h766a, \h0abb), X(\h81c2, \hc92e),
     X(\h9272, \h2c85), X(\ha2bf, \he8a1), X(\ha81a, \h664b),
     X(\hc24b, \h8b70), X(\hc76c, \h51a3), X(\hd192, \he819),
     X(\hd699, \h0624), X(\hf40e, \h3585), X(\h106a, \ha070),
     X(\h19a4, \hc116), X(\h1e37, \h6c08), X(\h2748, \h774c),
     X(\h34b0, \hbcb5), X(\h391c, \h0cb3), X(\h4ed8, \haa4a),
     X(\h5b9c, \hca4f), X(\h682e, \h6ff3), X(\h748f, \h82ee),
     X(\h78a5, \h636f), X(\h84c8, \h7814), X(\h8cc7, \h0208),
     X(\h90be, \hfffa), X(\ha450, \h6ceb), X(\hbef9, \ha3f7),
     X(\hc671, \h78f2)>>

SHA224_H0 == <<
   X(\hc105, \h9ed8), X(\h367c, \hd507), X(\h3070, \hdd17),
     X(\hf70e, \h5939), X(\hffc0, \h0b31), X(\h6858, \h1511),
     X(\h64f9, \h8fa7), X(\hbefa, \h4fa4)>>
SHA256_H0 == <<
   X(\h6a09, \he667), X(\hbb67, \hae85), X(\h3c6e, \hf372),
     X(\ha54f, \hf53a), X(\h510e, \h527f), X(\h9b05, \h688c),
     X(\h1f83, \hd9ab), X(\h5be0, \hcd19)>>

(***************************************************************************)
(* The registers and a clock cycle.                                        *)
(***************************************************************************)
VARIABLES
  H,         \* H0_reg .. H7_reg
  a_h,       \* a_reg .. h_reg
  w_mem,     \* the window, w_mem[1] being the register w_mem[0] of the source
  w_ctr,     \* w_ctr_reg, 6 bits
  msg,       \* the message being hashed
  absorbed   \* blocks of it started so far

dataVars == <<H, a_h, w_mem, w_ctr>>
coreVars == <<ctrlVars, dataVars>>
vars     == <<coreVars, msg, absorbed>>

Zero == {}

CoreInit ==
  /\ CtrlInit
  /\ H = [i \in 1 .. 8 |-> Zero]
  /\ a_h = [i \in 1 .. 8 |-> Zero]
  /\ w_mem = [i \in 1 .. 16 |-> Zero]
  /\ w_ctr = 0

H0(mode) == IF mode = "sha256" THEN SHA256_H0 ELSE SHA224_H0

\* The wires of sha256_w_mem.
w_new  == Add(Add(d1(w_mem[15]), w_mem[10]), Add(d0(w_mem[2]), w_mem[1]))
w_data == IF w_ctr < 16 THEN w_mem[w_ctr + 1] ELSE w_new

\* t1_logic and t2_logic.
t1 ==
  Add(Add(a_h[8], sum1(a_h[5])),
      Add(ch(a_h[5], a_h[6], a_h[7]), Add(w_data, K[t_ctr + 1])))
t2 == Add(sum0(a_h[1]), maj(a_h[1], a_h[2], a_h[3]))

\* digest_logic.
DigestTick(init, mode) ==
  H' = IF digest_init(init) THEN H0(mode)
       ELSE IF digest_update THEN [i \in 1 .. 8 |-> Add(H[i], a_h[i])]
       ELSE H

\* state_logic.
StateTick(init, next, mode) ==
  a_h' = IF state_init(init, next) THEN IF digest_init(init) THEN H0(mode) ELSE H
         ELSE IF state_update
           THEN <<Add(t1, t2), a_h[1], a_h[2], a_h[3],
                  Add(a_h[4], t1), a_h[5], a_h[6], a_h[7]>>
         ELSE a_h

\* The window slides only once its sixteen words have been used.
BugWindowSlidesLate == IF w_ctr > 16 THEN Append(Tail(w_mem), w_new) ELSE w_mem

SlideWindow == IF w_ctr > 15 THEN Append(Tail(w_mem), w_new) ELSE w_mem

\* w_mem_update_logic and w_ctr.
WindowTick(init, next, block) ==
  /\ w_mem' = IF state_init(init, next) THEN block
              ELSE IF state_update THEN SlideWindow ELSE w_mem
  /\ w_ctr' = IF state_init(init, next) THEN 0
              ELSE IF state_update THEN (w_ctr + 1) % 64 ELSE w_ctr

CoreTick(init, next, mode, block) ==
  /\ CtrlTick(init, next)
  /\ DigestTick(init, mode)
  /\ StateTick(init, next, mode)
  /\ WindowTick(init, next, block)

(***************************************************************************)
(* What the core is given.                                                 *)
(***************************************************************************)
Message(m, b) == [mode |-> m, blocks |-> b]

MessagesAssumption ==
  \A m \in Messages : /\ m.mode \in {"sha224", "sha256"}
                      /\ m.blocks \in Seq([1 .. 16 -> Word32]) \ {<<>>}

Nothing == Message("sha256", <<>>)

Init == CoreInit /\ msg = Nothing /\ absorbed = 0

Begin ==
  /\ core_ready
  /\ \E m \in Messages :
       /\ CoreTick(TRUE, FALSE, m.mode, m.blocks[1])
       /\ msg' = m /\ absorbed' = 1

Continue ==
  /\ core_ready /\ absorbed < Len(msg.blocks)
  /\ CoreTick(FALSE, TRUE, msg.mode, msg.blocks[absorbed + 1])
  /\ absorbed' = absorbed + 1
  /\ UNCHANGED msg

\* While the core is busy its inputs may be anything.
Compute ==
  /\ ~core_ready
  /\ \E init \in BOOLEAN, next \in BOOLEAN, m \in Messages :
       CoreTick(init, next, m.mode, m.blocks[1])
  /\ UNCHANGED <<msg, absorbed>>

Next == Begin \/ Continue \/ Compute

Spec == Init /\ [][Next]_vars

(***************************************************************************)
(* SHA-224 and SHA-256 as FIPS 180-4 defines them: the schedule of all 64  *)
(* words, the 64 rounds, the sum.  No registers, no clock.                 *)
(***************************************************************************)
Extend(W) ==
  LET t == Len(W) + 1
  IN  Append(W, Add(Add(d1(W[t - 2]), W[t - 7]), Add(d0(W[t - 15]), W[t - 16])))

\* The first 16 + n words of the schedule.
Words(block) == LET W[n \in 0 .. 48] == IF n = 0 THEN block ELSE Extend(W[n - 1]) IN W
Schedule(block) == Words(block)[48]

OneRound(v, w, k) ==
  LET T1 == Add(Add(Add(Add(v[8], sum1(v[5])), ch(v[5], v[6], v[7])), k), w)
      T2 == Add(sum0(v[1]), maj(v[1], v[2], v[3]))
  IN  [v EXCEPT ![1] = Add(T1, T2), ![2] = v[1], ![3] = v[2], ![4] = v[3],
                ![5] = Add(v[4], T1), ![6] = v[5], ![7] = v[6], ![8] = v[7]]

\* a .. h after t rounds.
Rounds(h, block) ==
  LET W == Schedule(block)
      v[t \in 0 .. Len(W)] == IF t = 0 THEN h ELSE OneRound(v[t - 1], W[t], K[t])
  IN  v

Absorb(h, block) ==
  LET v == Rounds(h, block)[64] IN [i \in 1 .. 8 |-> Add(h[i], v[i])]

\* The digest of the first n blocks.
Hash(mode, blocks) ==
  LET D[n \in 0 .. Len(blocks)] == IF n = 0 THEN H0(mode) ELSE Absorb(D[n - 1], blocks[n])
  IN  D

(***************************************************************************)
(* The messages of sha256_tests and of the mining testbench, with the      *)
(* digests written there, and three more, in the other mode or with        *)
(* carries through whole words.                                            *)
(***************************************************************************)
\* "tanphandev", of sha256_tests.
NameBlock == <<
   X(\h7461, \h6e70), X(\h6861, \h6e64), X(\h6576, \h8000),
   X(\h0000, \h0000), X(\h0000, \h0000), X(\h0000, \h0000),
   X(\h0000, \h0000), X(\h0000, \h0000), X(\h0000, \h0000),
   X(\h0000, \h0000), X(\h0000, \h0000), X(\h0000, \h0000),
   X(\h0000, \h0000), X(\h0000, \h0000), X(\h0000, \h0000),
   X(\h0000, \h0050)>>
NameDigest == <<
   X(\h85e9, \ha47f), X(\hc5dc, \h216f), X(\h9b3f, \hf562),
   X(\h488d, \h35c9), X(\h3210, \hcfd8), X(\hd265, \h688d),
   X(\hfeb0, \h612c), X(\h56f7, \h6886)>>

\* A header with its winning nonce, the digest of it and the digest of that.
HeadBlock == <<
   X(\h00a0, \h112e), X(\h535d, \h5123), X(\h62f8, \h0687),
   X(\h5112, \h04ab), X(\hed45, \hae64), X(\hcca1, \ha05e),
   X(\h822a, \h0000), X(\h0000, \h0000), X(\h0000, \h0000),
   X(\h9374, \h13ff), X(\h6cdb, \h14f4), X(\h8933, \hdbf2),
   X(\h3ebb, \he375), X(\hde11, \h9214), X(\h347d, \h8a36),
   X(\h8eac, \h954f)>>
TailBlock == <<
   X(\h94a1, \h141e), X(\h85d8, \h2e64), X(\h3e02, \h0617),
   X(\h9448, \ha802), X(\h8000, \h0000), X(\h0000, \h0000),
   X(\h0000, \h0000), X(\h0000, \h0000), X(\h0000, \h0000),
   X(\h0000, \h0000), X(\h0000, \h0000), X(\h0000, \h0000),
   X(\h0000, \h0000), X(\h0000, \h0000), X(\h0000, \h0000),
   X(\h0000, \h0280)>>
FirstDigest == <<
   X(\h0f16, \h950a), X(\h5584, \h36f8), X(\h0888, \h9fa4),
   X(\hbc20, \he178), X(\hdf3a, \h0ce0), X(\h2b76, \h700f),
   X(\hf199, \h12af), X(\hbc6a, \h2a6a)>>
SecondDigest == <<
   X(\h7754, \h4997), X(\h8ab7, \h0603), X(\h3849, \h5193),
   X(\hfd5e, \h3020), X(\h0ec4, \hea03), X(\h199d, \h0500),
   X(\h0000, \h0000), X(\h0000, \h0000)>>

\* padding_for_first_hash
PadBlock ==
  FirstDigest \o <<X(\h8000, 0)>> \o [i \in 1 .. 6 |-> Zero] \o <<X(0, \h0100)>>

\* A block no test uses: carries through whole words.
OnesBlock == [i \in 1 .. 16 |-> Bit]

Tested ==
  {[message |-> Message("sha256", <<NameBlock>>),            digest |-> NameDigest],
   [message |-> Message("sha256", <<HeadBlock, TailBlock>>), digest |-> FirstDigest],
   [message |-> Message("sha256", <<PadBlock>>),             digest |-> SecondDigest]}

TestMessages ==
  {t.message : t \in Tested}
    \cup {Message("sha224", <<NameBlock>>), Message("sha224", <<HeadBlock, TailBlock>>),
          Message("sha256", <<OnesBlock, NameBlock>>)}

\* The standard gives the testbenches' messages the digests written there.
AnswersAssumption ==
  \A t \in Tested : Hash(t.message.mode, t.message.blocks)[Len(t.message.blocks)] = t.digest

-----------------------------------------------------------------------------
TypeOK ==
  /\ CtrlTypeOK
  /\ H \in [1 .. 8 -> Word32] /\ a_h \in [1 .. 8 -> Word32]
  /\ w_mem \in [1 .. 16 -> Word32] /\ w_ctr \in 0 .. 63

Schedules == [b \in UNION {{m.blocks[i] : i \in 1 .. Len(m.blocks)} : m \in Messages}
                |-> Schedule(b)]
Digests   == [m \in Messages |-> [n \in 1 .. Len(m.blocks) |-> Hash(m.mode, m.blocks)[n]]]

\* In every round the sliding window of 16 words and its own counter deliver the
\* word of the 64-word schedule that belongs to the round the state machine is in.
WindowInStep ==
  state_update => w_data = Schedules[msg.blocks[absorbed]][t_ctr + 1]

\* A core that says its digest is valid holds the digest of the blocks absorbed
\* since the last INIT, whatever it hashed before and however far it got.
DigestCorrect ==
  core_ready /\ core_digest_valid => H = Digests[msg][absorbed]

\* The three messages of the testbenches give the digests written there, the last
\* being the double hash of the header whose nonce the mining testbench looks for.
KnownAnswers ==
  core_ready /\ core_digest_valid /\ absorbed = Len(msg.blocks)
    => \A t \in Tested : msg = t.message => H = t.digest
=============================================================================
