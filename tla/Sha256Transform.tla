--------------------------- MODULE Sha256Transform ---------------------------
(* Transform of sha_2_256_old.cpp, the 64 unrolled rounds on one chunk of 64 *)
(* bytes: the eight registers never move, each round names them shifted by   *)
(* one place, and the sixteen words of the schedule are replaced in place.   *)
(* One round is one step. A 32-bit word is two halves of 16 bits.            *)
EXTENDS Integers, Sequences, SequencesExt, Bitwise

CONSTANT
  Chunks,           \* sequences of 64 bytes
  ChunkBound        \* bound: chunks of one message

VARIABLES
  shaS,             \* s, the chaining value
  shaRegs,          \* a to h
  shaW,             \* w0 to w15
  shaRound,         \* rounds done of this Transform; -1 between two
  shaChunks,        \* the chunks given since Initialize
  stdHash,          \* the standard's hash value, working variables and
  stdWork,          \* message schedule, computed next to the code's
  stdSchedule

shaVars == <<shaS, shaRegs, shaW, shaRound, shaChunks, stdHash, stdWork, stdSchedule>>

-----------------------------------------------------------------------------
Half == 65536
WordType == (0..Half - 1) \X (0..Half - 1)

Plus(x, y) == <<(x[1] + y[1] + ((x[2] + y[2]) \div Half)) % Half, (x[2] + y[2]) % Half>>
XorW(x, y) == <<x[1] ^^ y[1], x[2] ^^ y[2]>>
AndW(x, y) == <<x[1] & y[1], x[2] & y[2]>>
OrW(x, y) == <<x[1] | y[1], x[2] | y[2]>>

RightW(x, n) ==
  IF n >= 16 THEN <<0, x[1] \div 2^(n - 16)>>
  ELSE <<x[1] \div 2^n, (x[2] \div 2^n) + (x[1] % 2^n) * 2^(16 - n)>>
LeftW(x, n) ==
  IF n >= 16 THEN <<(x[2] % 2^(32 - n)) * 2^(n - 16), 0>>
  ELSE <<((x[1] % 2^(16 - n)) * 2^n) + (x[2] \div 2^(16 - n)), (x[2] % 2^(16 - n)) * 2^n>>
Turn(x, n) == OrW(RightW(x, n), LeftW(x, 32 - n))

Ch(x, y, z) == XorW(z, AndW(x, XorW(y, z)))
Maj(x, y, z) == OrW(AndW(x, y), AndW(z, OrW(x, y)))
Sigma0(x) == XorW(XorW(Turn(x, 2), Turn(x, 13)), Turn(x, 22))
Sigma1(x) == XorW(XorW(Turn(x, 6), Turn(x, 11)), Turn(x, 25))
sigma0(x) == XorW(XorW(Turn(x, 7), Turn(x, 18)), RightW(x, 3))
sigma1(x) == XorW(XorW(Turn(x, 17), Turn(x, 19)), RightW(x, 10))

(* The constants of the 64 rounds, in the order of the source. *)
RoundConstants ==
  <<
   <<17034,12184>>, <<28983,17553>>, <<46528,64463>>, <<59829,56229>>, <<14678,49755>>, <<23025,4593>>, <<37439,33444>>, <<43804,24277>>,
   <<55303,43672>>, <<4739,23297>>, <<9265,34238>>, <<21772,32195>>, <<29374,23924>>, <<32990,45566>>, <<39900,1703>>, <<49563,61812>>,
   <<58523,27073>>, <<61374,18310>>, <<4033,40390>>, <<9228,41420>>, <<11753,11375>>, <<19060,33962>>, <<23728,43484>>, <<30457,35034>>,
   <<38974,20818>>, <<43057,50797>>, <<45059,10184>>, <<48985,32711>>, <<50912,3059>>, <<54695,37191>>, <<1738,25425>>, <<5161,10599>>,
   <<10167,2693>>, <<11803,8504>>, <<19756,28156>>, <<21304,3347>>, <<25866,29524>>, <<30314,2747>>, <<33218,51502>>, <<37490,11397>>,
   <<41663,59553>>, <<43034,26187>>, <<49739,35696>>, <<51052,20899>>, <<53650,59417>>, <<54937,1572>>, <<62478,13701>>, <<4202,41072>>,
   <<6564,49430>>, <<7735,27656>>, <<10056,30540>>, <<13488,48309>>, <<14620,3251>>, <<20184,43594>>, <<23452,51791>>, <<26670,28659>>,
   <<29839,33518>>, <<30885,25455>>, <<33992,30740>>, <<36039,520>>, <<37054,65530>>, <<42064,27883>>, <<48889,41975>>, <<50801,30962>>
  >>

(* Initialize *)
InitialState ==
  <<<<27145,58983>>, <<47975,44677>>, <<15470,62322>>, <<42319,62778>>, <<20750,21119>>, <<39685,26764>>, <<8067,55723>>, <<23520,52505>>>>

(* load_big_u32(chunk + 4 * i) *)
LoadWord(chunk, i) == <<256 * chunk[4 * i + 1] + chunk[4 * i + 2], 256 * chunk[4 * i + 3] + chunk[4 * i + 4]>>

-----------------------------------------------------------------------------
(* The compression function of FIPS 180-4: a schedule of 64 words, none of   *)
(* which is overwritten, and working variables that move on by one place     *)
(* every round.                                                              *)
Choose(x, y, z) == XorW(AndW(x, y), AndW(<<Half - 1 - x[1], Half - 1 - x[2]>>, z))
Majority(x, y, z) == XorW(XorW(AndW(x, y), AndW(x, z)), AndW(y, z))

Scheduled(w, t) ==
  IF t <= 16 THEN w
  ELSE Append(w, Plus(Plus(sigma1(w[t - 2]), w[t - 7]), Plus(sigma0(w[t - 15]), w[t - 16])))

Worked(v, k, word) ==
  LET t1 == Plus(Plus(Plus(Plus(v[8], Sigma1(v[5])), Choose(v[5], v[6], v[7])), k), word)
      t2 == Plus(Sigma0(v[1]), Majority(v[1], v[2], v[3]))
  IN  <<Plus(t1, t2), v[1], v[2], v[3], Plus(v[4], t1), v[5], v[6], v[7]>>

-----------------------------------------------------------------------------
Sha256TransformInit ==
  /\ shaS = InitialState /\ shaRegs = InitialState
  /\ shaW = [i \in 0..15 |-> <<0, 0>>]
  /\ shaRound = -1 /\ shaChunks = <<>>
  /\ stdHash = InitialState /\ stdWork = InitialState /\ stdSchedule = <<>>

(* The registers are loaded; the words of the chunk as the first rounds do.  *)
LoadChunk ==
  /\ shaRound = -1 /\ Len(shaChunks) < ChunkBound
  /\ \E chunk \in Chunks :
       /\ shaW' = [i \in 0..15 |-> LoadWord(chunk, i)]
       /\ shaChunks' = Append(shaChunks, chunk)
       /\ stdSchedule' = [i \in 1..16 |-> LoadWord(chunk, i - 1)]
  /\ shaRegs' = shaS /\ stdWork' = stdHash
  /\ shaRound' = 0
  /\ UNCHANGED <<shaS, stdHash>>

\* Mutant: the schedule reads the word after the one it should.
NextWordLate(w, t) ==
  IF t < 16 THEN w[t]
  ELSE Plus(w[t % 16], Plus(Plus(sigma1(w[(t + 14) % 16]), w[(t + 9) % 16]), sigma0(w[(t + 2) % 16])))

(* The word of round t: from the chunk, later computed over the oldest word. *)
NextWord(w, t) ==
  IF t < 16 THEN w[t]
  ELSE Plus(w[t % 16], Plus(Plus(sigma1(w[(t + 14) % 16]), w[(t + 9) % 16]), sigma0(w[(t + 1) % 16])))

(* The place of the register that round t passes as the i-th of a to h. *)
Place(i, t) == 1 + ((i - 1 - t) % 8)

(* Round; the last two do not keep their word. *)
ShaRound ==
  /\ shaRound \in 0..63
  /\ LET R(i) == shaRegs[Place(i, shaRound)]
         word == NextWord(shaW, shaRound)
         t1 == Plus(Plus(Plus(Plus(R(8), Sigma1(R(5))), Ch(R(5), R(6), R(7))), RoundConstants[shaRound + 1]), word)
         t2 == Plus(Sigma0(R(1)), Maj(R(1), R(2), R(3)))
     IN  /\ shaRegs' = [shaRegs EXCEPT ![Place(4, shaRound)] = Plus(@, t1), ![Place(8, shaRound)] = Plus(t1, t2)]
         /\ shaW' = IF shaRound < 62 THEN [shaW EXCEPT ![shaRound % 16] = word] ELSE shaW
  /\ stdSchedule' = Scheduled(stdSchedule, shaRound + 1)
  /\ stdWork' = Worked(stdWork, RoundConstants[shaRound + 1], stdSchedule'[shaRound + 1])
  /\ shaRound' = shaRound + 1
  /\ UNCHANGED <<shaS, shaChunks, stdHash>>

(* s[i] += the register *)
AddRegisters ==
  /\ shaRound = 64
  /\ shaS' = [i \in 1..8 |-> Plus(shaS[i], shaRegs[i])]
  /\ stdHash' = [i \in 1..8 |-> Plus(stdHash[i], stdWork[i])]
  /\ shaRound' = -1
  /\ UNCHANGED <<shaRegs, shaW, shaChunks, stdWork, stdSchedule>>

Sha256TransformNext == LoadChunk \/ ShaRound \/ AddRegisters

-----------------------------------------------------------------------------
(* The one chunk of the message "abc", and its digest in sha_2_test.cpp. *)
AbcChunk == [i \in 1..64 |-> CASE i = 1 -> 97 [] i = 2 -> 98 [] i = 3 -> 99 [] i = 4 -> 128 [] i = 64 -> 24 [] OTHER -> 0]
AbcDigest ==
  <<<<47736,5823>>, <<36609,53226>>, <<16705,16606>>, <<23982,8739>>, <<45059,24995>>, <<38423,31388>>, <<46096,65377>>, <<61952,5549>>>>

(* Every member holds a value of its type. *)
Sha256TransformTypeOK ==
  /\ shaS \in [1..8 -> WordType] /\ shaRegs \in [1..8 -> WordType]
  /\ shaW \in [0..15 -> WordType] /\ shaRound \in -1..64
  /\ shaChunks \in Seq(Chunks)

(* Round by round the registers hold the standard's working variables, each  *)
(* at the place the next round will look for it, although no register moves  *)
(* and only 16 words are kept; and "abc" has the digest the tests give it    *)
(* (sha_2_256_old.cpp:47-129).                                               *)
ChainsAsStandard ==
  /\ Sha256TransformTypeOK
  /\ shaS = stdHash
  /\ shaRound # -1 => \A i \in 1..8 : shaRegs[Place(i, shaRound)] = stdWork[i]
  /\ shaRound = -1 /\ shaChunks = <<AbcChunk>> => shaS = AbcDigest
=============================================================================
