------------------------------ MODULE KernelProofs ------------------------------
(* The boot of the kernel half, for every layout that fits: the handover from  *)
(* sections to page tables under the running kernel.                           *)
EXTENDS KernelProperties, MmuCoherence, WellFoundedInduction

-----------------------------------------------------------------------------
(* Pages and words.                                                            *)

LEMMA DivMod ==
    ASSUME NEW n \in Nat, NEW c \in Nat \ {0}
    PROVE  /\ n \div c \in Nat /\ n % c \in 0..(c - 1)
           /\ n = (n \div c) * c + (n % c)
<1>1. n = (n \div c) * c + (n % c) /\ n % c \in 0..(c - 1) /\ n \div c \in Int
  OBVIOUS
<1>2. SUFFICES ASSUME n \div c < 0 PROVE FALSE
  BY <1>1
<1>3. (n \div c) * c <= -c
  BY <1>1, <1>2
<1>4. QED
  BY <1>1, <1>3

LEMMA DivUnique ==
    ASSUME NEW q \in Nat, NEW c \in Nat \ {0}, NEW r \in 0..(c - 1)
    PROVE  (q * c + r) \div c = q /\ (q * c + r) % c = r
  OBVIOUS

LEMMA MulMonotone ==
    ASSUME NEW a \in Nat, NEW b \in Nat, a < b, NEW c \in Nat
    PROVE  a * c + c <= b * c
<1>1. (a + 1) * c <= b * c
  OBVIOUS
<1>2. (a + 1) * c = a * c + c
  OBVIOUS
<1>3. QED
  BY <1>1, <1>2

LEMMA DivMonotone ==
    ASSUME NEW a \in Nat, NEW b \in Nat, a <= b, NEW c \in Nat \ {0}
    PROVE  a \div c <= b \div c
<1>1. SUFFICES ASSUME b \div c < a \div c PROVE FALSE
  BY DivMod
<1>2. (b \div c) * c + c <= (a \div c) * c
  BY <1>1, MulMonotone, DivMod
<1>3. b < (b \div c) * c + c /\ (a \div c) * c <= a
  BY DivMod
<1>4. (a \div c) * c \in Nat /\ (b \div c) * c \in Nat
  BY DivMod
<1>5. QED
  BY <1>2, <1>3, <1>4

LEMMA Layout ==
    ASSUME PgDiv > 0
    PROVE  /\ PgtbCnt \in Nat \ {0} /\ PgdCnt \in Nat \ {0} /\ DivSection \in 1..PgdCnt
           /\ KernPgtbs = PgdCnt - DivSection /\ KernPgtbs \in Nat
           /\ {kp_start, k_pgd, lmi_start, k_stack, hmi_start, k_start, k_end} \subseteq Nat
           /\ kp_start <= lmi_start /\ lmi_start < k_stack /\ k_stack <= hmi_start
           /\ hmi_start < k_start /\ k_start < k_end
  BY GeometryAssumption, LayoutAssumption DEF KernPgtbs

\* The physical pages the kernel half has room for.
Window == kp_start..(kp_start + KernPgtbs * PgtbCnt - 1)

(* Every page of the window has its own page of the kernel half.               *)
LEMMA KernelHalf ==
    ASSUME LayoutFits, NEW p \in Window
    PROVE  /\ phy_to_kvm(p) \in VPages
           /\ PgdIdx(phy_to_kvm(p)) \in DivSection..(PgdCnt - 1)
           /\ PgdIdx(phy_to_kvm(p)) = DivSection + (p - kp_start) \div PgtbCnt
           /\ PgtbIdx(phy_to_kvm(p)) = (p - kp_start) % PgtbCnt
           /\ PgtbIdx(phy_to_kvm(p)) \in 0..(PgtbCnt - 1)
           /\ p = kp_start + (PgdIdx(phy_to_kvm(p)) - DivSection) * PgtbCnt + PgtbIdx(phy_to_kvm(p))
<1> DEFINE n == p - kp_start
           q == n \div PgtbCnt
           v == phy_to_kvm(p)
<1>1. PgDiv > 0
  BY DEF LayoutFits
<1>2. KernPgtbs * PgtbCnt \in Nat
  BY <1>1, Layout
<1>3. n \in Nat /\ n < KernPgtbs * PgtbCnt /\ p = kp_start + n
  BY <1>1, <1>2, Layout DEF Window
<1>4. v = <<DivSection + q, n % PgtbCnt>>
  BY DEF phy_to_kvm, KernPage
<1>5. q \in Nat /\ n % PgtbCnt \in 0..(PgtbCnt - 1) /\ n = q * PgtbCnt + (n % PgtbCnt)
  BY <1>1, <1>3, Layout, DivMod
<1>6. q < KernPgtbs
  <2>1. SUFFICES ASSUME KernPgtbs <= q PROVE FALSE
    BY <1>1, <1>5, Layout
  <2>2. KernPgtbs * PgtbCnt <= q * PgtbCnt
    BY <1>1, <1>5, <2>1, Layout
  <2>3. q * PgtbCnt \in Nat
    BY <1>1, <1>5, Layout
  <2>4. QED
    BY <1>1, <1>2, <1>3, <1>5, <2>2, <2>3, Layout
<1>7. PgdIdx(v) = DivSection + q /\ PgtbIdx(v) = n % PgtbCnt
  BY <1>4 DEF PgdIdx, PgtbIdx
<1>8. PgdIdx(v) \in DivSection..(PgdCnt - 1) /\ PgdIdx(v) - DivSection = q
  BY <1>1, <1>5, <1>6, <1>7, Layout
<1>9. v \in VPages
  BY <1>1, <1>4, <1>5, <1>7, <1>8, Layout DEF VPages
<1>10. p = kp_start + q * PgtbCnt + (n % PgtbCnt)
  <2>1. q * PgtbCnt \in Nat
    BY <1>1, <1>5, Layout
  <2>2. QED
    BY <1>1, <1>3, <1>5, <2>1, Layout
<1>11. p = kp_start + (PgdIdx(v) - DivSection) * PgtbCnt + PgtbIdx(v)
  BY <1>7, <1>8, <1>10
<1>12. QED
  BY <1>5, <1>7, <1>8, <1>9, <1>11

(* Pages with the same word of the tables are the same.                        *)
LEMMA OwnWord ==
    ASSUME LayoutFits, NEW s \in DivSection..(PgdCnt - 1), NEW x \in 0..(PgtbCnt - 1),
           NEW p \in Window,
           TabWord(phy_to_kvm(p)) = <<TabBase + s - DivSection, x>>, TabBase \in Nat
    PROVE  phy_to_kvm(p) = <<s, x>> /\ p = kp_start + (s - DivSection) * PgtbCnt + x
<1>1. PgDiv > 0
  BY DEF LayoutFits
<1>2. PgdIdx(phy_to_kvm(p)) = s /\ PgtbIdx(phy_to_kvm(p)) = x
  <2>1. /\ TabBase + PgdIdx(phy_to_kvm(p)) - DivSection = TabBase + s - DivSection
        /\ PgtbIdx(phy_to_kvm(p)) = x
    BY DEF TabWord
  <2>2. PgdIdx(phy_to_kvm(p)) \in Nat /\ s \in Nat /\ DivSection \in Nat
    BY <1>1, KernelHalf, Layout
  <2>3. \A a, b, c \in Nat : TabBase + a - c = TabBase + b - c => a = b
    OBVIOUS
  <2>4. QED
    BY <2>1, <2>2, <2>3
<1>3. phy_to_kvm(p) = <<s, x>>
  BY <1>2, KernelHalf DEF VPages, PgdIdx, PgtbIdx
<1>4. QED
  BY <1>2, <1>3, KernelHalf

LEMMA TabBaseNat ==
    ASSUME PgDiv > 0
    PROVE  TabBase \in Nat
<1>1. (k_end \div PgtbCnt + 1) * PgtbCnt \in Nat
  BY Layout
<1>2. TabsPerPage \in Nat
  BY LayoutAssumption
<1>3. QED
  BY <1>1, <1>2 DEF TabBase, mmu_pgtb_reg, Region

LEMMA TabWordsAreWords ==
    ASSUME LayoutFits
    PROVE  /\ TabWords \subseteq Words
           /\ \A s \in DivSection..(PgdCnt - 1) : <<BootPgd, s>> \in Words /\ <<BootPgd, s>> \notin TabWords
           /\ \A v : PgdIdx(v) \in DivSection..(PgdCnt - 1) /\ PgtbIdx(v) \in 0..(PgtbCnt - 1)
                        => TabWord(v) \in TabWords
<1>1. PgDiv > 0
  BY DEF LayoutFits
<1>2. TabBase..(TabBase + KernPgtbs - 1) \subseteq PgTabs
  BY DEF LayoutFits
<1>3. TabWords \subseteq Words
  BY <1>2 DEF TabWords, Words
<1>4. BootPgd \in KernPgds /\ BootPgd \notin PgTabs
  BY SystemAssumption, GeometryAssumption
<1>5. ASSUME NEW s \in DivSection..(PgdCnt - 1)
      PROVE  <<BootPgd, s>> \in Words /\ <<BootPgd, s>> \notin TabWords
  <2>1. s \in 0..(PgdCnt - 1)
    BY <1>1, Layout
  <2>2. QED
    BY <1>2, <1>4, <2>1 DEF Words, TabWords
<1>6. ASSUME NEW v, PgdIdx(v) \in DivSection..(PgdCnt - 1), PgtbIdx(v) \in 0..(PgtbCnt - 1)
      PROVE  TabWord(v) \in TabWords
  BY <1>1, <1>6, Layout, TabBaseNat DEF TabWord, TabWords
<1>7. QED
  BY <1>3, <1>5, <1>6

-----------------------------------------------------------------------------
(* The sections of vexpress_boot_init.                                         *)

LEMMA SectionOfPage ==
    ASSUME PgDiv > 0, NEW n \in Nat
    PROVE  SectionOf(kp_start + n) = kp_start + (n \div PgtbCnt) * PgtbCnt
<1> DEFINE k == kp_start \div PgtbCnt
           q == n \div PgtbCnt
           r == n % PgtbCnt
<1>1. k \in Nat /\ kp_start = k * PgtbCnt
  <2>1. kp_start % PgtbCnt = 0
    BY LayoutAssumption
  <2>2. k \in Nat /\ kp_start = k * PgtbCnt + (kp_start % PgtbCnt)
    BY Layout, DivMod
  <2>3. k * PgtbCnt \in Nat
    BY <2>2, Layout
  <2>4. QED
    BY <2>1, <2>2, <2>3
<1>2. q \in Nat /\ r \in 0..(PgtbCnt - 1) /\ n = q * PgtbCnt + r
  BY Layout, DivMod
<1> HIDE DEF k, q, r
<1>3. (k + q) * PgtbCnt = k * PgtbCnt + q * PgtbCnt /\ k * PgtbCnt \in Nat /\ q * PgtbCnt \in Nat
  BY <1>1, <1>2, Layout
<1>4. kp_start + n = (k + q) * PgtbCnt + r
  BY <1>1, <1>2, <1>3, Layout
<1>5. k + q \in Nat /\ PgtbCnt \in Nat \ {0}
  BY <1>1, <1>2, Layout
<1>6. ((k + q) * PgtbCnt + r) \div PgtbCnt = k + q
  BY <1>2, <1>5, DivUnique
<1>7. SectionOf(kp_start + n) = (k + q) * PgtbCnt
  BY <1>4, <1>6 DEF SectionOf
<1>8. QED
  BY <1>1, <1>3, <1>7 DEF q

\* Where init_kern_pg_dir is in round i.
RoundPage(i) == lmi_start + i * PgtbCnt
High         == {i \in 0..(SectionCnt - 1) : PgdIdx(phy_to_kvm(RoundPage(i))) < PgdCnt}

LEMMA RoundSection ==
    ASSUME PgDiv > 0, NEW i \in Nat
    PROVE  /\ PgdIdx(phy_to_kvm(RoundPage(i))) = DivSection + (lmi_start - kp_start) \div PgtbCnt + i
           /\ (lmi_start - kp_start) \div PgtbCnt \in Nat
           /\ SectionOf(RoundPage(i))
                = kp_start + (PgdIdx(phy_to_kvm(RoundPage(i))) - DivSection) * PgtbCnt
<1> DEFINE m == lmi_start - kp_start
           q == m \div PgtbCnt
           r == m % PgtbCnt
           n == (q + i) * PgtbCnt + r
<1>1. m \in Nat /\ PgtbCnt \in Nat \ {0} /\ DivSection \in Nat /\ lmi_start = kp_start + m /\ kp_start \in Nat
  BY Layout
<1>2. q \in Nat /\ r \in 0..(PgtbCnt - 1) /\ m = q * PgtbCnt + r
  BY <1>1, DivMod
<1> HIDE DEF q, r, m
<1>3. (q + i) * PgtbCnt = q * PgtbCnt + i * PgtbCnt /\ q * PgtbCnt \in Nat /\ i * PgtbCnt \in Nat
  BY <1>1, <1>2
<1>4. n = m + i * PgtbCnt /\ n \in Nat
  BY <1>1, <1>2, <1>3
<1>5. RoundPage(i) = kp_start + n /\ RoundPage(i) - kp_start = n
  BY <1>1, <1>3, <1>4 DEF RoundPage
<1>6. q + i \in Nat
  BY <1>2
<1>7. n \div PgtbCnt = q + i
  BY <1>1, <1>2, <1>6, DivUnique
<1>8. PgdIdx(phy_to_kvm(RoundPage(i))) = DivSection + (q + i)
  BY <1>5, <1>7 DEF phy_to_kvm, KernPage, PgdIdx
<1>9. SectionOf(RoundPage(i)) = kp_start + (q + i) * PgtbCnt
  BY <1>4, <1>5, <1>7, SectionOfPage
<1>10. DivSection + (q + i) - DivSection = q + i /\ DivSection + (q + i) = DivSection + q + i
  BY <1>1, <1>6, <1>2
<1>11. PgdIdx(phy_to_kvm(RoundPage(i))) = DivSection + q + i
  BY <1>8, <1>10
<1>12. PgdIdx(phy_to_kvm(RoundPage(i))) - DivSection = q + i
  BY <1>1, <1>6, <1>8
<1>13. QED
  BY <1>2, <1>9, <1>11, <1>12 DEF q, m

\* The words of BootWords, without its LET.
LEMMA BootWordsAre ==
    \A s \in 0..(PgdCnt - 1) :
        BootWords[s] = IF s < DivSection THEN init_pg_dir_entry(s * PgtbCnt)
                       ELSE IF \E i \in High : s = PgdIdx(phy_to_kvm(RoundPage(i)))
                       THEN init_pg_dir_entry(RoundPage(CHOOSE i \in High : s = PgdIdx(phy_to_kvm(RoundPage(i)))))
                       ELSE JunkPgd
  BY DEF BootWords, RoundPage, High

\* Every round is in High while there is room for its section.
LEMMA RoundsCounted ==
    ASSUME PgDiv > 0
    PROVE  /\ SectionCnt \in Nat /\ High \subseteq Nat
           /\ \A s \in 0..(PgdCnt - 1) :
                 s \in BootMapped <=> \E i \in High : s = PgdIdx(phy_to_kvm(RoundPage(i)))
<1>1. k_end - lmi_start \in Nat /\ PgtbCnt \in Nat \ {0} /\ PgdCnt \in Nat
  BY Layout
<1>2. SectionCnt \in Nat
  BY <1>1, DivMod DEF SectionCnt
<1>3. \A s \in 0..(PgdCnt - 1) : s < PgdCnt
  BY <1>1
<1>4. QED
  BY <1>2, <1>3 DEF High, BootMapped, RoundPage

(* A section init_kern_pg_dir writes is the one of its place in the window.    *)
LEMMA MappedSection ==
    ASSUME PgDiv > 0, NEW s \in DivSection..(PgdCnt - 1), s \in BootMapped
    PROVE  BootWords[s] =
              [type |-> "section", addr |-> kp_start + (s - DivSection) * PgtbCnt,
               dom |-> "USER_DOMAIN", ap |-> "KRW_URW"]
<1>1. s \in 0..(PgdCnt - 1) /\ ~(s < DivSection)
  BY Layout
<1>2. \E i \in High : s = PgdIdx(phy_to_kvm(RoundPage(i)))
  BY <1>1, RoundsCounted
<1> DEFINE i == CHOOSE x \in High : s = PgdIdx(phy_to_kvm(RoundPage(x)))
<1>3. i \in High /\ s = PgdIdx(phy_to_kvm(RoundPage(i)))
  BY <1>2
<1>4. BootWords[s] = init_pg_dir_entry(RoundPage(i))
  BY <1>1, <1>2, BootWordsAre
<1> HIDE DEF i
<1>5. i \in Nat
  BY <1>3, RoundsCounted
<1>6. SectionOf(RoundPage(i)) = kp_start + (s - DivSection) * PgtbCnt
  BY <1>3, <1>5, RoundSection
<1>7. QED
  BY <1>4, <1>6 DEF init_pg_dir_entry

(* The others keep what was in memory.                                         *)
LEMMA UnmappedSection ==
    ASSUME PgDiv > 0, NEW s \in DivSection..(PgdCnt - 1), s \notin BootMapped
    PROVE  BootWords[s] = JunkPgd
<1>1. s \in 0..(PgdCnt - 1) /\ ~(s < DivSection)
  BY Layout
<1>2. QED
  BY <1>1, RoundsCounted, BootWordsAre

LEMMA ImageInWindow ==
    ASSUME LayoutFits, NEW p \in lmi_start..(k_end - 1)
    PROVE  p \in Window
<1>1. PgDiv > 0 /\ k_end - kp_start <= KernPgtbs * PgtbCnt
  BY DEF LayoutFits
<1>2. KernPgtbs * PgtbCnt \in Nat
  BY <1>1, Layout
<1>3. QED
  BY <1>1, <1>2, Layout DEF Window

(* The number of sections, taken from the length of the image, reaches the     *)
(* section of its last page.                                                   *)
LEMMA CountReaches ==
    ASSUME PgDiv > 0, SectionsSuffice
    PROVE  (k_end - 1 - kp_start) \div PgtbCnt < (lmi_start - kp_start) \div PgtbCnt + SectionCnt
<1> DEFINE c == PgtbCnt
           k == kp_start \div c
           a == lmi_start \div c
           ra == lmi_start % c
           n == (k_end - lmi_start) \div c
           rn == (k_end - lmi_start) % c
<1>1. c \in Nat \ {0} /\ {kp_start, lmi_start, k_end} \subseteq Nat
      /\ kp_start <= lmi_start /\ k_end - lmi_start \in Nat
  BY Layout
<1>2. k \in Nat /\ kp_start = k * c
  <2>1. kp_start % c = 0
    BY LayoutAssumption
  <2>2. k \in Nat /\ kp_start = k * c + (kp_start % c)
    BY <1>1, DivMod
  <2> HIDE DEF k
  <2>3. k * c \in Nat
    BY <1>1, <2>2
  <2>4. QED
    BY <2>1, <2>2, <2>3
<1>3. a \in Nat /\ ra \in 0..(c - 1) /\ lmi_start = a * c + ra
  BY <1>1, DivMod
<1>4. n \in Nat /\ rn \in 0..(c - 1) /\ k_end - lmi_start = n * c + rn
  BY <1>1, DivMod
<1>5. ra + rn <= c /\ SectionCnt = n + 1
  BY DEF SectionsSuffice, SectionCnt
<1> HIDE DEF k, a, n, ra, rn, c
<1>6. k <= a
  <2>1. SUFFICES ASSUME a < k PROVE FALSE
    BY <1>2, <1>3
  <2>2. a * c + c <= k * c
    BY <1>1, <1>2, <1>3, <2>1, MulMonotone
  <2>3. a * c \in Nat /\ k * c \in Nat
    BY <1>1, <1>2, <1>3
  <2>4. QED
    BY <1>1, <1>2, <1>3, <2>2, <2>3
<1> DEFINE q == a - k
<1>7. q \in Nat /\ lmi_start - kp_start = q * c + ra
  <2>1. q \in Nat /\ a = k + q
    BY <1>2, <1>3, <1>6
  <2> HIDE DEF q
  <2>2. (k + q) * c = k * c + q * c /\ k * c \in Nat /\ q * c \in Nat
    BY <1>1, <1>2, <2>1
  <2>3. QED
    BY <1>2, <1>3, <2>1, <2>2
<1> HIDE DEF q
<1>8. (lmi_start - kp_start) \div c = q
  BY <1>1, <1>3, <1>7, DivUnique
<1>9. k_end - 1 - kp_start \in Nat /\ k_end - 1 - kp_start <= (q + n) * c + (c - 1)
  <2>1. (q + n) * c = q * c + n * c /\ q * c \in Nat /\ n * c \in Nat
    BY <1>1, <1>4, <1>7
  <2>2. k_end - 1 - kp_start = (lmi_start - kp_start) + (k_end - lmi_start) - 1
    BY <1>1
  <2>3. k_end - 1 - kp_start \in Nat
    BY Layout
  <2>4. QED
    BY <1>1, <1>3, <1>4, <1>5, <1>7, <2>1, <2>2, <2>3
<1>10. ((q + n) * c + (c - 1)) \div c = q + n /\ (q + n) * c + (c - 1) \in Nat
  <2>1. q + n \in Nat /\ c - 1 \in 0..(c - 1)
    BY <1>1, <1>4, <1>7
  <2>2. PICK m \in Nat, d \in 0..(c - 1) : m = q + n /\ d = c - 1
    BY <2>1
  <2>3. (m * c + d) \div c = m
    BY <1>1, <2>2, DivUnique
  <2>4. m * c \in Nat /\ m * c + d \in Nat
    BY <1>1, <2>2
  <2>5. QED
    BY <2>2, <2>3, <2>4
<1>11. (k_end - 1 - kp_start) \div c <= q + n
  BY <1>1, <1>9, <1>10, DivMonotone
<1>12. (k_end - 1 - kp_start) \div c \in Nat
  BY <1>1, <1>9, DivMod
<1>13. QED
  BY <1>4, <1>5, <1>7, <1>8, <1>11, <1>12 DEF c

(* The sections reach all of the image.                                        *)
LEMMA ImageMapped ==
    ASSUME LayoutFits, SectionsSuffice, NEW p \in lmi_start..(k_end - 1)
    PROVE  p \in Window /\ PgdIdx(phy_to_kvm(p)) \in BootMapped
<1> DEFINE s == PgdIdx(phy_to_kvm(p))
           q == (lmi_start - kp_start) \div PgtbCnt
           e == (k_end - 1 - kp_start) \div PgtbCnt
           n == p - kp_start
<1>1. PgDiv > 0 /\ e < q + SectionCnt
  BY CountReaches DEF LayoutFits
<1>2. p \in Window
  BY ImageInWindow
<1>3. s = DivSection + n \div PgtbCnt
  BY <1>2, KernelHalf
<1>4. n \in Nat /\ lmi_start - kp_start \in Nat /\ k_end - 1 - kp_start \in Nat
      /\ PgtbCnt \in Nat \ {0} /\ DivSection \in Nat
  BY <1>1, Layout
<1>5. lmi_start - kp_start <= n /\ n <= k_end - 1 - kp_start
  BY <1>1, Layout
<1>6. q <= n \div PgtbCnt /\ n \div PgtbCnt <= e /\ q \in Nat /\ n \div PgtbCnt \in Nat /\ e \in Nat
  BY <1>4, <1>5, DivMonotone, DivMod
<1> DEFINE j == n \div PgtbCnt - q
<1>7. j \in 0..(SectionCnt - 1) /\ j \in Nat /\ n \div PgtbCnt = q + j
  BY <1>1, <1>6, RoundsCounted
<1>8. PgdIdx(phy_to_kvm(RoundPage(j))) = DivSection + q + j
  BY <1>1, <1>7, RoundSection
<1>9. DivSection + q + j = DivSection + (q + j)
  BY <1>4, <1>6, <1>7
<1>10. s = PgdIdx(phy_to_kvm(RoundPage(j)))
  BY <1>3, <1>7, <1>8, <1>9
<1> HIDE DEF s, j
<1>11. QED
  BY <1>2, <1>7, <1>10 DEF s, BootMapped, RoundPage

(* Every word of the directory is a descriptor.                                *)
LEMMA BootWordsType ==
    ASSUME LayoutFits, NEW s \in 0..(PgdCnt - 1)
    PROVE  BootWords[s] \in Descs
<1>1. PgDiv > 0 /\ 0..(DivSection * PgtbCnt - 1) \subseteq Frames /\ Window \subseteq Frames
  BY DEF LayoutFits, Window
<1>2. ASSUME NEW p, SectionOf(p) \in Frames PROVE init_pg_dir_entry(p) \in Descs
  BY <1>2 DEF init_pg_dir_entry, Descs, Section, Domains, AccPerms
<1>3. JunkPgd \in Descs
  BY LayoutAssumption DEF Descs
<1>4. CASE s < DivSection
  <2>1. s \in Nat /\ PgtbCnt \in Nat \ {0} /\ DivSection \in Nat
    BY <1>1, Layout
  <2>2. s * PgtbCnt + PgtbCnt <= DivSection * PgtbCnt
    BY <1>4, <2>1, MulMonotone
  <2>3. s * PgtbCnt \in Nat /\ DivSection * PgtbCnt \in Nat
    BY <2>1
  <2>4. s * PgtbCnt \in 0..(DivSection * PgtbCnt - 1)
    BY <2>1, <2>2, <2>3
  <2>5. (s * PgtbCnt + 0) \div PgtbCnt = s
    BY <2>1, DivUnique
  <2>6. SectionOf(s * PgtbCnt) = s * PgtbCnt
    BY <2>3, <2>5 DEF SectionOf
  <2>7. QED
    BY <1>1, <1>2, <1>4, <2>4, <2>6, BootWordsAre
<1>5. CASE ~(s < DivSection) /\ \E i \in High : s = PgdIdx(phy_to_kvm(RoundPage(i)))
  <2> DEFINE i == CHOOSE x \in High : s = PgdIdx(phy_to_kvm(RoundPage(x)))
  <2>1. i \in High /\ s = PgdIdx(phy_to_kvm(RoundPage(i)))
    BY <1>5
  <2>2. BootWords[s] = init_pg_dir_entry(RoundPage(i))
    BY <1>5, BootWordsAre
  <2> HIDE DEF i
  <2>3. i \in Nat
    <3>1. k_end - lmi_start \in Nat /\ PgtbCnt \in Nat \ {0}
      BY <1>1, Layout
    <3>2. SectionCnt \in Nat
      BY <3>1, DivMod DEF SectionCnt
    <3>3. QED
      BY <2>1, <3>2 DEF High
  <2> DEFINE t == s - DivSection
  <2>4. SectionOf(RoundPage(i)) = kp_start + t * PgtbCnt
    BY <1>1, <2>1, <2>3, RoundSection
  <2>5. t \in Nat /\ t < KernPgtbs /\ PgtbCnt \in Nat \ {0} /\ KernPgtbs \in Nat /\ kp_start \in Nat
    BY <1>1, <1>5, Layout
  <2> HIDE DEF t
  <2>6. t * PgtbCnt + PgtbCnt <= KernPgtbs * PgtbCnt
    BY <2>5, MulMonotone
  <2>7. t * PgtbCnt \in Nat /\ KernPgtbs * PgtbCnt \in Nat
    BY <2>5
  <2>8. kp_start + t * PgtbCnt \in Window
    BY <2>5, <2>6, <2>7 DEF Window
  <2>9. QED
    BY <1>1, <1>2, <2>2, <2>4, <2>8
<1>6. CASE ~(s < DivSection) /\ ~ \E i \in High : s = PgdIdx(phy_to_kvm(RoundPage(i)))
  BY <1>3, <1>6, BootWordsAre
<1>7. QED
  BY <1>4, <1>5, <1>6

-----------------------------------------------------------------------------
(* The top bit of a count.                                                     *)

LEMMA SmallestCase ==
    ASSUME NEW S \in SUBSET Nat, S # {}
    PROVE  \E x \in S : \A y \in S : x <= y
<1>1. PICK x \in S : \A y \in S : ~ (<<y, x>> \in OpToRel(<, Nat))
  BY WFMin, NatLessThanWellFounded
<1>2. \A y \in S : ~(y < x)
  BY <1>1 DEF OpToRel
<1>3. QED
  BY <1>2

LEMMA Halves ==
    ASSUME NEW n \in Nat, n > 1
    PROVE  n \div 2 \in 1..(n - 1) /\ (n = 2 * (n \div 2) \/ n = 2 * (n \div 2) + 1)
  OBVIOUS

\* g is TopBit up to n.
TopBits(g, n) ==
    /\ g \in [1..n -> Nat]
    /\ \A m \in 1..n : g[m] = IF m = 1 THEN 1 ELSE 2 * g[m \div 2]

LEMMA TopBitsExist ==
    ASSUME NEW n \in Nat
    PROVE  \E g : TopBits(g, n)
<1> DEFINE S == {k \in Nat : ~ \E g : TopBits(g, k)}
<1>1. SUFFICES ASSUME S # {} PROVE FALSE
  OBVIOUS
<1>2. PICK k \in S : \A j \in S : k <= j
  BY <1>1, SmallestCase
<1>3. k # 0
  <2> DEFINE g == [m \in 1..0 |-> 0]
  <2>1. TopBits(g, 0)
    BY DEF TopBits
  <2> HIDE DEF g
  <2>2. QED
    BY <1>2, <2>1
<1>4. PICK g : TopBits(g, k - 1)
  BY <1>2, <1>3
<1> DEFINE h == [m \in 1..k |-> IF m < k THEN g[m] ELSE IF m = 1 THEN 1 ELSE 2 * g[m \div 2]]
<1>5. \A m \in 1..k : m # 1 => m \div 2 \in 1..(k - 1) /\ m \div 2 < m
  BY <1>2, Halves
<1>6. \A m \in 1..k : h[m] \in Nat
  <2>1. TAKE m \in 1..k
  <2>2. \A j \in 1..(k - 1) : g[j] \in Nat
    BY <1>4 DEF TopBits
  <2>3. CASE m < k
    BY <1>2, <2>2, <2>3
  <2>4. CASE ~(m < k) /\ m # 1
    <3>1. m \div 2 \in 1..(k - 1)
      BY <1>5, <2>4
    <3>2. h[m] = 2 * g[m \div 2]
      BY <2>4
    <3>3. QED
      BY <2>2, <3>1, <3>2
  <2>5. CASE ~(m < k) /\ m = 1
    BY <2>5
  <2>6. QED
    BY <2>3, <2>4, <2>5
<1>7. \A m \in 1..k : h[m] = IF m = 1 THEN 1 ELSE 2 * h[m \div 2]
  <2>1. TAKE m \in 1..k
  <2>2. m # 1 => m \div 2 \in 1..k /\ m \div 2 < k
    BY <1>2, <1>5
  <2>3. m # 1 => h[m \div 2] = g[m \div 2]
    BY <2>2
  <2>4. CASE m < k
    BY <1>2, <1>4, <2>3, <2>4 DEF TopBits
  <2>5. CASE ~(m < k)
    BY <2>3, <2>5
  <2>6. QED
    BY <2>4, <2>5
<1>8. TopBits(h, k)
  BY <1>6, <1>7 DEF TopBits
<1>9. QED
  BY <1>2, <1>8

LEMMA TopBitsUnique ==
    ASSUME NEW n \in Nat, NEW m \in Nat, NEW g, NEW h, TopBits(g, n), TopBits(h, m)
    PROVE  \A k \in 1..n : k <= m => g[k] = h[k]
<1> DEFINE S == {k \in 1..n : k <= m /\ g[k] # h[k]}
<1>1. SUFFICES ASSUME S # {} PROVE FALSE
  OBVIOUS
<1>2. S \in SUBSET Nat
  OBVIOUS
<1>3. PICK k \in S : \A j \in S : k <= j
  BY <1>1, <1>2, SmallestCase
<1>4. k # 1 => k \div 2 \in 1..n /\ k \div 2 <= m /\ k \div 2 < k
  BY <1>3, Halves
<1>5. k # 1 => g[k \div 2] = h[k \div 2]
  BY <1>3, <1>4
<1>6. k \in 1..n /\ k \in 1..m
  BY <1>3
<1>7. g[k] = h[k]
  BY <1>5, <1>6 DEF TopBits
<1>8. QED
  BY <1>3, <1>7

LEMMA TopBitIs ==
    ASSUME NEW n \in Nat \ {0}
    PROVE  TopBit[n] = IF n = 1 THEN 1 ELSE 2 * TopBit[n \div 2]
<1> DEFINE G(k) == CHOOSE g : TopBits(g, k)
           F == [k \in Nat \ {0} |-> G(k)[k]]
<1>1. \A k \in Nat : TopBits(G(k), k)
  BY TopBitsExist
<1> HIDE DEF G
<1>2. ASSUME NEW k \in Nat \ {0}
      PROVE  F[k] = IF k = 1 THEN 1 ELSE 2 * F[k \div 2]
  <2>1. G(k)[k] = IF k = 1 THEN 1 ELSE 2 * G(k)[k \div 2]
    BY <1>1 DEF TopBits
  <2>2. CASE k # 1
    <3> DEFINE j == k \div 2
    <3>1. j \in 1..(k - 1) /\ j \in Nat \ {0} /\ j \in 1..k /\ k \in Nat
      BY <2>2, Halves
    <3> HIDE DEF j
    <3>2. G(k)[j] = G(j)[j]
      BY <1>1, <3>1, TopBitsUnique
    <3>3. QED
      BY <2>1, <2>2, <3>1, <3>2 DEF j
  <2>3. QED
    BY <2>1, <2>2
<1>3. F = [k \in Nat \ {0} |-> IF k = 1 THEN 1 ELSE 2 * F[k \div 2]]
  BY <1>2
<1> HIDE DEF F
<1>4. TopBit = [k \in Nat \ {0} |-> IF k = 1 THEN 1 ELSE 2 * TopBit[k \div 2]]
  BY <1>3 DEF TopBit
<1>5. QED
  BY <1>4

(* clr_lv_msb: the top bit, and half of what is above it.                      *)
LEMMA TopBitBounds ==
    ASSUME NEW n \in Nat \ {0}
    PROVE  TopBit[n] \in Nat /\ TopBit[n] <= n /\ n < 2 * TopBit[n]
<1> DEFINE Good(k) == TopBit[k] \in Nat /\ TopBit[k] <= k /\ k < 2 * TopBit[k]
           S == {k \in Nat \ {0} : ~Good(k)}
<1>1. SUFFICES ASSUME S # {} PROVE FALSE
  OBVIOUS
<1>2. S \in SUBSET Nat
  OBVIOUS
<1>3. PICK k \in S : \A j \in S : k <= j
  BY <1>1, <1>2, SmallestCase
<1>4. CASE k = 1
  BY <1>3, <1>4, TopBitIs
<1>5. CASE k # 1
  <2> DEFINE j == k \div 2
  <2>1. j \in 1..(k - 1) /\ (k = 2 * j \/ k = 2 * j + 1)
    BY <1>3, <1>5, Halves
  <2>2. TopBit[k] = 2 * TopBit[j]
    BY <1>3, <1>5, TopBitIs
  <2> HIDE DEF j
  <2>3. Good(j)
    BY <1>3, <2>1
  <2>4. QED
    BY <1>3, <2>1, <2>2, <2>3
<1>6. QED
  BY <1>4, <1>5

(* init_map_kern_pgtb never rounds a count down.                               *)
LEMMA PgCntCovers ==
    ASSUME NEW size \in Nat
    PROVE  PgCnt(size) \in Nat /\ size <= PgCnt(size)
<1>1. CASE size = 0
  BY <1>1 DEF PgCnt
<1>2. CASE size # 0
  BY <1>2, TopBitBounds DEF PgCnt, IsPowerOfTwo
<1>3. QED
  BY <1>1, <1>2

-----------------------------------------------------------------------------
(* The regions.                                                                *)

LEMMA MappedRegions ==
    ASSUME PgDiv > 0
    PROVE  /\ DOMAIN Mapped = 1..5 /\ Len(Mapped) = 5
           /\ \A k \in 1..5 : Mapped[k].base \in Nat /\ Mapped[k].size \in Nat
           /\ \A k \in 1..5 : PgCnt(Mapped[k].size) \in Nat /\ Mapped[k].size <= PgCnt(Mapped[k].size)
<1>1. DOMAIN Mapped = 1..5 /\ Len(Mapped) = 5
  BY DEF Mapped
<1>2. kinit_reg.base \in Nat /\ kinit_reg.size \in Nat
  BY Layout DEF kinit_reg, Region
<1>3. kern_reg.base \in Nat /\ kern_reg.size \in Nat
  BY Layout DEF kern_reg, Region
<1>4. kstack_reg.base \in Nat /\ kstack_reg.size \in Nat
  BY Layout DEF kstack_reg, Region
<1>5. mmu_pgtb_reg.base \in Nat /\ mmu_pgtb_reg.size \in Nat
  <2>1. TabsPerPage \in Nat \ {0}
    BY LayoutAssumption
  <2>2. k_end \div PgtbCnt \in Nat /\ KernPgtbs \div TabsPerPage \in Nat /\ PgtbCnt \in Nat
    BY <2>1, Layout, DivMod
  <2>3. (k_end \div PgtbCnt + 1) * PgtbCnt \in Nat
    BY <2>2
  <2>4. QED
    BY <2>2, <2>3 DEF mmu_pgtb_reg, Region
<1>6. mmu_pgd_reg.base \in Nat /\ mmu_pgd_reg.size \in Nat
  BY Layout, LayoutAssumption DEF mmu_pgd_reg, Region
<1>7. \A k \in 1..5 : Mapped[k].base \in Nat /\ Mapped[k].size \in Nat
  <2>1. \A k \in 1..5 : k = 1 \/ k = 2 \/ k = 3 \/ k = 4 \/ k = 5
    OBVIOUS
  <2>2. /\ Mapped[1] = kinit_reg /\ Mapped[2] = kern_reg /\ Mapped[3] = kstack_reg
        /\ Mapped[4] = mmu_pgtb_reg /\ Mapped[5] = mmu_pgd_reg
    BY DEF Mapped
  <2>3. QED
    BY <1>2, <1>3, <1>4, <1>5, <1>6, <2>1, <2>2
<1>8. QED
  BY <1>1, <1>7, PgCntCovers

LEMMA RoundIs ==
    /\ \A r \in Rounds : r \in (DOMAIN Mapped) \X Nat
    /\ \A k \in DOMAIN Mapped : \A i \in 0..(PgCnt(Mapped[k].size) - 1) : <<k, i>> \in Rounds
    /\ \A r \in Rounds : r = <<r[1], r[2]>> /\ r[2] \in 0..(PgCnt(Mapped[r[1]].size) - 1)
  BY DEF Rounds

-----------------------------------------------------------------------------
(* The stores of the boot.                                                     *)

(* What is stored are descriptors.                                             *)
LEMMA EmptyType == Empty \in Descs
  BY DEF Empty, Descs, Invalid, Domains, AccPerms

LEMMA EntryType ==
    ASSUME LayoutFits, NEW r \in Rounds
    PROVE  /\ EntryWord(r) \in TabWords /\ PgtbDesc(EntryOf(r)) \in Descs
           /\ PgtbDesc(EntryOf(r)).type = "small" /\ PgtbDesc(EntryOf(r)).addr = EntryOf(r).phy
           /\ PgtbDesc(EntryOf(r)).ap = "KRW_NOU"
           /\ EntryOf(r).phy \in Frames
<1>1. EntryWord(r) \in TabWords /\ EntryOf(r).phy \in Frames
  BY DEF LayoutFits
<1>2. EntryOf(r).type = "small" /\ EntryOf(r).ap = "KRW_NOU"
  BY DEF EntryOf, MapEntry
<1>3. QED
  BY <1>1, <1>2 DEF PgtbDesc, Descs, SmallPg, AccPerms

LEMMA LinkType ==
    ASSUME LayoutFits, NEW s \in DivSection..(PgdCnt - 1)
    PROVE  /\ LinkDesc(s) \in Table /\ LinkDesc(s) \in Descs
           /\ LinkDesc(s).type = "table" /\ LinkDesc(s).dom = "USER_DOMAIN"
<1>1. LinkDesc(s).addr \in PgTabs
  BY DEF LayoutFits
<1>2. LinkDesc(s) = [type |-> "table", addr |-> LinkDesc(s).addr, dom |-> "USER_DOMAIN", ap |-> "KRW_NOU"]
  BY DEF LinkDesc, PgdDesc, LinkEntry
<1>3. QED
  BY <1>1, <1>2 DEF Descs, Table, Domains

(* init_setup_kern_pgtb stores the link of section i.                          *)
LEMMA LinkIsStored ==
    ASSUME LayoutFits, BootOrder, enabled, NEW i \in 0..(KernPgtbs - 1)
    PROVE  /\ armv7_mmu_map_pgd(LinkEntry(i)) = Put(<<BootPgd, DivSection + i>>, LinkDesc(DivSection + i))
           /\ DivSection + i \in DivSection..(PgdCnt - 1)
<1> DEFINE e == LinkEntry(i)
<1>1. PgDiv > 0
  BY DEF LayoutFits
<1>2. i \in Nat /\ PgtbCnt \in Nat \ {0} /\ DivSection \in Nat /\ DivSection + i \in DivSection..(PgdCnt - 1)
  BY <1>1, Layout
<1>3. (i * PgtbCnt + 0) \div PgtbCnt = i /\ i * PgtbCnt \in Nat
  BY <1>2, DivUnique
<1>4. e.type = "table" /\ PgdIdx(e.va) = DivSection + i
  BY <1>3 DEF LinkEntry, KernPage, PgdIdx
<1>5. PgdOf(e.va) = BootPgd
  BY <1>1, <1>2, <1>4 DEF PgdOf, is_higher_half, BootOrder
<1>6. TablesReachable
  BY SystemAssumption DEF TablesReachable, BootOrder
<1>7. LinkDesc(DivSection + i) = PgdDesc(e)
  <2>1. PICK s : s = DivSection + i
    OBVIOUS
  <2>2. PICK j : j = s - DivSection
    OBVIOUS
  <2>3. j = i
    BY <1>2, <2>1, <2>2
  <2>4. LinkDesc(s) = PgdDesc(LinkEntry(j))
    BY <2>2 DEF LinkDesc
  <2>5. QED
    BY <2>1, <2>3, <2>4
<1> HIDE DEF e
<1>8. armv7_mmu_map_pgd(e) = Put(<<BootPgd, DivSection + i>>, LinkDesc(DivSection + i))
  BY <1>4, <1>5, <1>6, <1>7 DEF armv7_mmu_map_pgd, armv7_is_supported_pgd_type, create_pgd_entry
<1>9. QED
  BY <1>2, <1>8 DEF e

-----------------------------------------------------------------------------
(* The start.                                                                  *)

LEMMA InitHandover == LayoutFits /\ BootInit => HandoverInvariant
<1> SUFFICES ASSUME LayoutFits, BootInit PROVE HandoverInvariant
  OBVIOUS
<1> DEFINE words == [w \in Words |-> IF w[1] = BootPgd THEN BootWords[w[2]] ELSE JunkPgtb]
<1>1. /\ enabled = FALSE /\ ttbr0 = BootPgd /\ ttbr1 = BootPgd
      /\ mem = words /\ buf = [w \in Words |-> <<>>]
      /\ tlb = [v \in VPages |-> None] /\ walk = None
      /\ call = NoCall /\ ret = "ESUCC" /\ owed = "nothing"
      /\ boot = [at |-> "enable", reg |-> 1, i |-> 0]
  BY DEF BootInit, Booting
<1>2. PgDiv > 0
  BY DEF LayoutFits
<1>3. BootPgd \in KernPgds
  BY SystemAssumption
<1>4. mem \in [Words -> Descs]
  <2>1. ASSUME NEW w \in Words PROVE words[w] \in Descs
    <3>1. CASE w[1] = BootPgd
      <4>1. w[2] \in 0..(PgdCnt - 1)
        BY <1>2, <1>3, <3>1, Layout, GeometryAssumption DEF Words
      <4>2. QED
        BY <3>1, <4>1, BootWordsType
    <3>2. CASE w[1] # BootPgd
      BY <3>2, LayoutAssumption DEF Descs
    <3>3. QED
      BY <3>1, <3>2
  <2>2. QED
    BY <1>1, <2>1
<1>5. TypeOK
  <2>1. buf \in [Words -> Seq(Descs)]
    BY <1>1
  <2>2. tlb \in [VPages -> Translations \union {None}] /\ walk \in Walks \union {None}
    BY <1>1
  <2>3. call \in Calls /\ ret \in Errno /\ owed \in {"nothing", "flush", "barrier"}
    BY <1>1, CallType DEF Errno
  <2>4. QED
    BY <1>1, <1>3, <1>4, <2>1, <2>2, <2>3 DEF TypeOK
<1>6. QuietWhenOff
  BY <1>1 DEF QuietWhenOff
<1>7. BootOrder
  BY <1>1, <1>2, MappedRegions DEF BootOrder, Before, At
<1>8. boot.at = "enable"
  BY <1>1
<1>9. Linked = {}
  BY <1>8 DEF Linked, After
<1>10. DirectoryInvariant
  <2>1. ASSUME NEW s \in DivSection..(PgdCnt - 1)
        PROVE  mem[<<BootPgd, s>>] = BootWords[s] /\ buf[<<BootPgd, s>>] = <<>>
    BY <1>1, TabWordsAreWords
  <2>2. QED
    BY <1>9, <2>1 DEF DirectoryInvariant
<1>11. TablesInvariant
  BY <1>8 DEF TablesInvariant, After, At
<1>12. WalkerInvariant
  <2>1. ASSUME NEW p \in KernPages, tlb[phy_to_kvm(p)] # None PROVE FALSE
    <3>1. p \in lmi_start..(k_end - 1)
      BY <1>2, Layout DEF KernPages, Pages, kinit_reg, kern_reg, kstack_reg, Region
    <3>2. phy_to_kvm(p) \in VPages
      BY <3>1, ImageInWindow, KernelHalf
    <3>3. QED
      BY <1>1, <2>1, <3>2
  <2>2. QED
    BY <1>1, <2>1 DEF WalkerInvariant
<1>13. QED
  BY <1>5, <1>6, <1>7, <1>10, <1>11, <1>12 DEF HandoverInvariant, BootInvariant

-----------------------------------------------------------------------------
(* Steps that store nothing.                                                   *)

Building == {"map", "dsb"} \union After

(* They keep the tables, as long as the CPU goes on to a step only when what   *)
(* it takes for granted there is done.                                         *)
LEMMA QuietStep ==
    ASSUME BootInvariant, TypeOK', QuietWhenOff', BootOrder', UNCHANGED <<mem, buf>>,
           Linked' = Linked, RoundsDone' = RoundsDone,
           boot'.at \in After => boot.at \in After \/ Drained,
           boot'.at = "memset" => boot' = boot \/ boot'.i = 0,
           boot'.at \in Building =>
               boot.at \in Building \/ (RoundsDone = {} /\ \A w \in TabWords : Load(w) = Empty),
           TabWords \subseteq Words,
           \A w \in TabWords : w[1] - TabBase \in Nat /\ w[2] \in Nat, PgtbCnt \in Nat
    PROVE  BootInvariant'
<1>1. \A w : Load(w)' = Load(w)
  BY DEF Load
<1>2. DirectoryInvariant'
  BY <1>1 DEF BootInvariant, DirectoryInvariant
<1>3. ASSUME NEW w \in TabWords, boot'.at \in After PROVE buf'[w] = <<>>
  BY <1>3 DEF BootInvariant, TablesInvariant, Drained
<1>4. ASSUME NEW w \in TabWords, boot'.at = "memset", (w[1] - TabBase) * PgtbCnt + w[2] < boot'.i
      PROVE  Load(w)' = Empty
  <2>1. CASE boot' = boot
    BY <1>1, <1>4, <2>1 DEF BootInvariant, TablesInvariant, At
  <2>2. CASE boot'.i = 0
    <3>1. (w[1] - TabBase) * PgtbCnt \in Nat /\ w[2] \in Nat
      OBVIOUS
    <3>2. QED
      BY <1>4, <2>2, <3>1
  <2>3. QED
    BY <1>4, <2>1, <2>2
<1>5. ASSUME NEW w \in TabWords, boot'.at \in Building
      PROVE  \/ Load(w)' = Empty /\ \A r \in RoundsDone' : EntryWord(r) # w
             \/ \E r \in RoundsDone' : EntryWord(r) = w /\ Load(w)' = PgtbDesc(EntryOf(r))
  <2>1. CASE boot.at \in Building
    <3>1. \/ Load(w) = Empty /\ \A r \in RoundsDone : EntryWord(r) # w
          \/ \E r \in RoundsDone : EntryWord(r) = w /\ Load(w) = PgtbDesc(EntryOf(r))
      BY <2>1 DEF BootInvariant, TablesInvariant, Building
    <3>2. QED
      BY <1>1, <3>1
  <2>2. CASE RoundsDone = {} /\ \A x \in TabWords : Load(x) = Empty
    BY <1>1, <2>2
  <2>3. QED
    BY <1>5, <2>1, <2>2
<1>6. TablesInvariant'
  BY <1>3, <1>4, <1>5 DEF TablesInvariant, At, Building
<1>7. QED
  BY <1>2, <1>6 DEF BootInvariant

\* What QuietStep asks of the layout.
LEMMA TabIndices ==
    ASSUME LayoutFits
    PROVE  /\ TabWords \subseteq Words /\ PgtbCnt \in Nat
           /\ \A w \in TabWords : w[1] - TabBase \in Nat /\ w[2] \in Nat
<1>1. PgDiv > 0
  BY DEF LayoutFits
<1>2. TabBase \in Nat /\ KernPgtbs \in Nat /\ PgtbCnt \in Nat
  BY <1>1, TabBaseNat, Layout
<1>3. QED
  BY <1>2, TabWordsAreWords DEF TabWords

(* Before vexpress_init builds the tables nothing is linked or mapped.         *)
LEMMA NothingYet ==
    /\ boot.at \notin After => Linked = {}
    /\ boot.at \notin Building => RoundsDone = {}
  BY DEF Linked, RoundsDone, Building, At

LEMMA EnableHandover ==
    ASSUME LayoutFits, BootInvariant, Enable
    PROVE  BootInvariant'
<1>1. TypeOK'
  <2>1. Next
    BY DEF Enable, Next, Cpu, ClientCall
  <2>2. QED
    BY <2>1, NextType DEF BootInvariant
<1>2. UNCHANGED <<mem, buf, ttbr0, ttbr1>> /\ boot.at \in {"enable", "enabled"}
  BY DEF Enable, EnableMmu, InvalidateTlb, At
<1>3. boot' \in [at : {"enabled", "memset"}, reg : {1}, i : {0}] /\ enabled' = TRUE
  BY DEF Enable, EnableMmu, InvalidateTlb, Goto, At, BootInvariant, BootOrder
<1>4. QuietWhenOff'
  BY <1>3 DEF QuietWhenOff
<1>5. BootOrder'
  BY <1>2, <1>3, MappedRegions DEF BootInvariant, BootOrder, Before, At, LayoutFits
<1>6. Linked' = Linked /\ RoundsDone' = RoundsDone
  BY <1>2, <1>3 DEF Linked, RoundsDone, After, At
<1>7. boot'.at \notin Building
  BY <1>3 DEF Building, After
<1>8. QED
  BY <1>1, <1>2, <1>3, <1>4, <1>5, <1>6, <1>7, QuietStep, TabIndices DEF Building

-----------------------------------------------------------------------------
(* The tables: cleared, filled, and waited for.                                *)

(* A store to a word of the tables before the first link leaves the directory. *)
LEMMA TabStore ==
    ASSUME LayoutFits, BootInvariant, boot.at \in {"memset", "map"},
           NEW w \in TabWords, NEW d \in Descs, Perform(Put(w, d), NoCall), Round,
           UNCHANGED <<enabled, ttbr0, ttbr1, mem, mmuVars, owed>>
    PROVE  /\ TypeOK' /\ QuietWhenOff' /\ BootOrder' /\ DirectoryInvariant'
           /\ Load(w)' = d
           /\ \A x \in TabWords \ {w} : Load(x)' = Load(x)
           /\ boot'.at = boot.at /\ boot'.reg = boot.reg /\ boot'.i = boot.i + 1
<1>1. w \in Words /\ TypeOK
  BY TabWordsAreWords DEF BootInvariant
<1>2. /\ buf' \in [Words -> Seq(Descs)] /\ call' \in Calls /\ ret' \in Errno
      /\ Load(w)' = d
      /\ \A x \in Words \ {w} : buf'[x] = buf[x] /\ Load(x)' = Load(x)
  BY <1>1, StoreStep
<1>3. TypeOK'
  BY <1>1, <1>2 DEF TypeOK, mmuVars
<1>4. QuietWhenOff'
  BY DEF BootInvariant, QuietWhenOff, mmuVars
<1>5. boot' = [boot EXCEPT !.i = @ + 1] /\ boot.i \in Nat
  BY DEF Round, BootInvariant, BootOrder
<1>6. boot'.at = boot.at /\ boot'.reg = boot.reg /\ boot'.i = boot.i + 1
  <2>1. boot \in [at : Before \union After, reg : DOMAIN Mapped, i : Nat]
    BY DEF BootInvariant, BootOrder
  <2>2. QED
    BY <1>5, <2>1
<1>7. BootOrder'
  BY <1>5, <1>6 DEF BootInvariant, BootOrder, At
<1>8. Linked = {} /\ Linked' = {}
  BY <1>6 DEF Linked, After
<1>9. DirectoryInvariant'
  <2>1. ASSUME NEW s \in DivSection..(PgdCnt - 1)
        PROVE  /\ buf'[<<BootPgd, s>>] = buf[<<BootPgd, s>>]
               /\ Load(<<BootPgd, s>>)' = Load(<<BootPgd, s>>)
    <3>1. <<BootPgd, s>> \in Words \ {w}
      BY TabWordsAreWords
    <3>2. QED
      BY <1>2, <3>1
  <2>2. DirectoryInvariant
    BY DEF BootInvariant
  <2>3. QED
    BY <1>8, <2>1, <2>2 DEF DirectoryInvariant
<1>10. \A x \in TabWords \ {w} : Load(x)' = Load(x)
  BY <1>2, TabWordsAreWords
<1>11. QED
  BY <1>2, <1>3, <1>4, <1>6, <1>7, <1>9, <1>10

(* The word memset clears in round i, and the words it has cleared by then.    *)
LEMMA ClearedWord ==
    ASSUME LayoutFits, NEW i \in Nat, NEW w \in TabWords
    PROVE  /\ i < KernPgtbs * PgtbCnt => <<TabBase + i \div PgtbCnt, i % PgtbCnt>> \in TabWords
           /\ (w[1] - TabBase) * PgtbCnt + w[2] \in Nat
           /\ (w[1] - TabBase) * PgtbCnt + w[2] < KernPgtbs * PgtbCnt
           /\ (w[1] - TabBase) * PgtbCnt + w[2] = i =>
                 w = <<TabBase + i \div PgtbCnt, i % PgtbCnt>>
<1> DEFINE q == w[1] - TabBase
<1>1. PgDiv > 0
  BY DEF LayoutFits
<1>2. TabBase \in Nat /\ KernPgtbs \in Nat /\ PgtbCnt \in Nat \ {0}
  BY <1>1, TabBaseNat, Layout
<1>3. w = <<w[1], w[2]>> /\ q \in 0..(KernPgtbs - 1) /\ w[2] \in 0..(PgtbCnt - 1) /\ w[1] = TabBase + q
  BY <1>2 DEF TabWords
<1>4. i \div PgtbCnt \in Nat /\ i % PgtbCnt \in 0..(PgtbCnt - 1) /\ i = (i \div PgtbCnt) * PgtbCnt + (i % PgtbCnt)
  BY <1>2, DivMod
<1>5. i < KernPgtbs * PgtbCnt => <<TabBase + i \div PgtbCnt, i % PgtbCnt>> \in TabWords
  <2>1. SUFFICES ASSUME i < KernPgtbs * PgtbCnt, KernPgtbs <= i \div PgtbCnt PROVE FALSE
    BY <1>2, <1>4 DEF TabWords
  <2>2. KernPgtbs * PgtbCnt <= (i \div PgtbCnt) * PgtbCnt
    BY <1>2, <1>4, <2>1
  <2>3. KernPgtbs * PgtbCnt \in Nat /\ (i \div PgtbCnt) * PgtbCnt \in Nat
    BY <1>2, <1>4
  <2>4. QED
    BY <1>4, <2>1, <2>2, <2>3
<1>6. q * PgtbCnt + w[2] \in Nat /\ q * PgtbCnt + w[2] < KernPgtbs * PgtbCnt
  <2> HIDE DEF q
  <2>1. q * PgtbCnt + PgtbCnt <= KernPgtbs * PgtbCnt
    BY <1>2, <1>3, MulMonotone
  <2>2. q * PgtbCnt \in Nat /\ KernPgtbs * PgtbCnt \in Nat
    BY <1>2, <1>3
  <2>3. QED
    BY <1>2, <1>3, <2>1, <2>2
<1>7. q * PgtbCnt + w[2] = i => w = <<TabBase + i \div PgtbCnt, i % PgtbCnt>>
  <2>1. (q * PgtbCnt + w[2]) \div PgtbCnt = q /\ (q * PgtbCnt + w[2]) % PgtbCnt = w[2]
    BY <1>2, <1>3, DivUnique
  <2>2. QED
    BY <1>3, <2>1
<1>8. QED
  BY <1>5, <1>6, <1>7

LEMMA ClearHandover ==
    ASSUME LayoutFits, BootInvariant, ClearTables
    PROVE  BootInvariant'
<1>1. boot.at = "memset" /\ boot.i \in Nat /\ PgDiv > 0
  BY DEF ClearTables, At, BootInvariant, BootOrder, LayoutFits
<1>2. CASE boot.i < KernPgtbs * PgtbCnt
  <2>0. PICK w : w = <<TabBase + boot.i \div PgtbCnt, boot.i % PgtbCnt>>
    OBVIOUS
  <2>1. w \in TabWords
    <3>1. TabWords # {}
      <4>1. 0 \in Nat /\ TabBase \in Nat /\ KernPgtbs \in Nat /\ PgtbCnt \in Nat \ {0}
        BY <1>1, TabBaseNat, Layout
      <4>2. KernPgtbs > 0
        BY <1>1, <1>2, <4>1
      <4>3. <<TabBase, 0>> \in TabWords
        BY <4>1, <4>2 DEF TabWords
      <4>4. QED
        BY <4>3
    <3>2. QED
      BY <1>1, <1>2, <2>0, <3>1, ClearedWord
  <2>2. /\ Perform(Put(w, Empty), NoCall) /\ Round
        /\ UNCHANGED <<enabled, ttbr0, ttbr1, mem, mmuVars, owed>>
    BY <1>2, <2>0 DEF ClearTables
  <2>3. /\ TypeOK' /\ QuietWhenOff' /\ BootOrder' /\ DirectoryInvariant'
        /\ Load(w)' = Empty
        /\ \A x \in TabWords \ {w} : Load(x)' = Load(x)
        /\ boot'.at = "memset" /\ boot'.i = boot.i + 1
    BY <1>1, <2>1, <2>2, EmptyType, TabStore
  <2>4. ASSUME NEW x \in TabWords, (x[1] - TabBase) * PgtbCnt + x[2] < boot.i + 1
        PROVE  Load(x)' = Empty
    <3>1. CASE x = w
      BY <2>3, <3>1
    <3>2. CASE x # w
      <4> DEFINE n == (x[1] - TabBase) * PgtbCnt + x[2]
      <4>1. n \in Nat /\ n # boot.i
        BY <1>1, <2>0, <3>2, ClearedWord
      <4>2. n < boot.i
        BY <1>1, <2>4, <4>1
      <4>3. Load(x) = Empty
        BY <1>1, <4>2 DEF BootInvariant, TablesInvariant, At
      <4>4. QED
        BY <2>3, <3>2, <4>3
    <3>3. QED
      BY <3>1, <3>2
  <2>5. TablesInvariant'
    BY <2>3, <2>4 DEF TablesInvariant, After, At
  <2>6. QED
    BY <2>3, <2>5 DEF BootInvariant
<1>3. CASE ~(boot.i < KernPgtbs * PgtbCnt)
  <2>1. UNCHANGED vars /\ boot' = [at |-> "map", reg |-> 1, i |-> 0]
    BY <1>3 DEF ClearTables, NoStore, Goto
  <2>2. TypeOK'
    BY <2>1, NextType DEF BootInvariant
  <2>3. QuietWhenOff'
    BY <2>1 DEF BootInvariant, QuietWhenOff, vars
  <2>4. BootOrder'
    BY <1>1, <2>1 DEF BootInvariant, BootOrder, Mapped, Before, At, vars
  <2>5. RoundsDone = {} /\ Linked = {} /\ Linked' = {}
    BY <1>1, <2>1 DEF RoundsDone, Linked, After, At
  <2>6. RoundsDone' = {}
    <3>1. ASSUME NEW r \in Rounds PROVE r[1] \in Nat /\ r[2] \in Nat /\ r[1] >= 1
      BY <1>1, MappedRegions, RoundIs
    <3>2. QED
      BY <2>1, <3>1 DEF RoundsDone, After, At
  <2>7. ASSUME NEW w \in TabWords PROVE Load(w) = Empty
    <3>1. (w[1] - TabBase) * PgtbCnt + w[2] < KernPgtbs * PgtbCnt /\ (w[1] - TabBase) * PgtbCnt + w[2] \in Nat
      BY ClearedWord, <1>1
    <3>2. KernPgtbs * PgtbCnt \in Nat
      BY <1>1, Layout
    <3>3. (w[1] - TabBase) * PgtbCnt + w[2] < boot.i
      BY <1>1, <1>3, <3>1, <3>2
    <3>4. QED
      BY <1>1, <3>3 DEF BootInvariant, TablesInvariant, At
  <2>8. UNCHANGED <<mem, buf>> /\ boot'.at \notin After /\ boot'.at # "memset"
    BY <2>1 DEF vars, After
  <2>9. QED
    BY <2>2, <2>3, <2>4, <2>5, <2>6, <2>7, <2>8, QuietStep, TabIndices
<1>4. QED
  BY <1>2, <1>3

(* One round of init_map_kern_pgtb: its word holds its entry, whatever it      *)
(* held before, and no other word changes.                                     *)
LEMMA RoundHandover ==
    ASSUME LayoutFits, BootInvariant, MapRegions, boot.i < PgCnt(Mapped[boot.reg].size)
    PROVE  BootInvariant'
<1>1. /\ boot.at = "map" /\ enabled /\ PgDiv > 0 /\ ttbr0 = BootPgd
      /\ boot.reg \in DOMAIN Mapped /\ boot.i \in Nat
  BY DEF MapRegions, At, BootInvariant, BootOrder, LayoutFits
<1>2. PICK k, i : k = boot.reg /\ i = boot.i
  OBVIOUS
<1>3. PICK r : r = <<k, i>>
  OBVIOUS
<1>4. r \in Rounds /\ r[1] = k /\ r[2] = i
  <2>1. PgCnt(Mapped[k].size) \in Nat
    BY <1>1, <1>2, MappedRegions
  <2>2. i \in 0..(PgCnt(Mapped[k].size) - 1)
    BY <1>1, <1>2, <2>1
  <2>3. QED
    BY <1>1, <1>2, <1>3, <2>2, RoundIs
<1>5. PICK w, d : w = EntryWord(r) /\ d = PgtbDesc(EntryOf(r))
  OBVIOUS
<1>6. w \in TabWords /\ d \in Descs
  BY <1>4, <1>5, EntryType
<1>7. create_pgtb_entry(MapTable(Mapped[k], i), MapEntry(Mapped[k], i)) = Put(w, d)
  <2>1. TablesReachable
    BY <1>1, SystemAssumption DEF TablesReachable
  <2>2. EntryOf(r) = MapEntry(Mapped[k], i) /\ EntryWord(r)[1] = MapTable(Mapped[k], i)
    BY <1>4 DEF EntryOf, EntryWord
  <2>3. EntryWord(r) = <<MapTable(Mapped[k], i), PgtbIdx(EntryOf(r).va)>>
    BY <1>4 DEF EntryWord
  <2>4. QED
    BY <1>5, <2>1, <2>2, <2>3 DEF create_pgtb_entry
<1>8. /\ Perform(Put(w, d), NoCall) /\ Round
      /\ UNCHANGED <<enabled, ttbr0, ttbr1, mem, mmuVars, owed>>
  BY <1>2, <1>7 DEF MapRegions
<1>9. /\ TypeOK' /\ QuietWhenOff' /\ BootOrder' /\ DirectoryInvariant'
      /\ Load(w)' = d
      /\ \A x \in TabWords \ {w} : Load(x)' = Load(x)
      /\ boot'.at = "map" /\ boot'.reg = k /\ boot'.i = i + 1
  BY <1>1, <1>2, <1>6, <1>8, TabStore
<1>10. RoundsDone' = RoundsDone \union {r}
  <2>1. ASSUME NEW q \in Rounds PROVE q[1] \in Nat /\ q[2] \in Nat /\ q = <<q[1], q[2]>>
    BY <1>1, MappedRegions, RoundIs
  <2>2. k \in Nat /\ i \in Nat
    BY <1>1, <1>2, MappedRegions
  <2>3. ASSUME NEW q \in Rounds
        PROVE  (q[1] < k \/ (q[1] = k /\ q[2] < i + 1)) <=> ((q[1] < k \/ (q[1] = k /\ q[2] < i)) \/ q = r)
    BY <1>3, <1>4, <2>1, <2>2
  <2>4. \A q \in Rounds : q \in RoundsDone <=> q[1] < k \/ (q[1] = k /\ q[2] < i)
    BY <1>1, <1>2 DEF RoundsDone, At, After
  <2>5. \A q \in Rounds : q \in RoundsDone' <=> q[1] < k \/ (q[1] = k /\ q[2] < i + 1)
    BY <1>9 DEF RoundsDone, At, After
  <2>6. RoundsDone \subseteq Rounds /\ RoundsDone' \subseteq Rounds
    BY DEF RoundsDone
  <2>7. QED
    BY <1>4, <2>3, <2>4, <2>5, <2>6
<1>11. ASSUME NEW x \in TabWords
       PROVE  \/ Load(x)' = Empty /\ \A q \in RoundsDone' : EntryWord(q) # x
              \/ \E q \in RoundsDone' : EntryWord(q) = x /\ Load(x)' = PgtbDesc(EntryOf(q))
  <2>1. CASE x = w
    BY <1>5, <1>9, <1>10, <2>1
  <2>2. CASE x # w
    <3>1. \/ Load(x) = Empty /\ \A q \in RoundsDone : EntryWord(q) # x
          \/ \E q \in RoundsDone : EntryWord(q) = x /\ Load(x) = PgtbDesc(EntryOf(q))
      BY <1>1 DEF BootInvariant, TablesInvariant
    <3>2. QED
      BY <1>5, <1>9, <1>10, <2>2, <3>1
  <2>3. QED
    BY <2>1, <2>2
<1>12. TablesInvariant'
  BY <1>9, <1>11 DEF TablesInvariant, After, At
<1>13. QED
  BY <1>9, <1>12 DEF BootInvariant

(* The end of the loop for a region: every round of it is done.                *)
LEMMA RegionHandover ==
    ASSUME LayoutFits, BootInvariant, MapRegions, ~(boot.i < PgCnt(Mapped[boot.reg].size))
    PROVE  BootInvariant'
<1>1. /\ boot.at = "map" /\ PgDiv > 0 /\ boot.i \in Nat /\ boot.reg \in 1..5
      /\ Len(Mapped) = 5 /\ DOMAIN Mapped = 1..5 /\ enabled
  BY MappedRegions DEF MapRegions, At, BootInvariant, BootOrder, LayoutFits
<1>2. UNCHANGED vars
  BY DEF MapRegions, NoStore
<1>3. boot' = IF boot.reg < 5 THEN [at |-> "map", reg |-> boot.reg + 1, i |-> 0]
                              ELSE [at |-> "dsb", reg |-> 1, i |-> 0]
  BY <1>1 DEF MapRegions, Goto
<1>4. TypeOK'
  BY <1>2, NextType DEF BootInvariant
<1>5. QuietWhenOff'
  BY <1>2 DEF BootInvariant, QuietWhenOff, vars
<1>6. boot' \in [at : {"map", "dsb"}, reg : 1..5, i : {0}]
  BY <1>1, <1>3
<1>7. BootOrder'
  BY <1>1, <1>2, <1>6 DEF BootInvariant, BootOrder, Before, At, vars
<1>8. Linked = {} /\ Linked' = {}
  BY <1>1, <1>6 DEF Linked, After
<1>9. RoundsDone' = RoundsDone
  <2>1. ASSUME NEW q \in Rounds
        PROVE  q[1] \in 1..5 /\ q[2] \in Nat /\ (q[1] = boot.reg => q[2] < boot.i)
    <3>1. q[1] \in 1..5 /\ q[2] \in Nat /\ q[2] \in 0..(PgCnt(Mapped[q[1]].size) - 1)
      BY <1>1, RoundIs
    <3>2. PgCnt(Mapped[boot.reg].size) \in Nat
      BY <1>1, MappedRegions
    <3>3. QED
      BY <1>1, <3>1, <3>2
  <2>2. \A q \in Rounds : q \in RoundsDone <=> q[1] < boot.reg \/ (q[1] = boot.reg /\ q[2] < boot.i)
    BY <1>1 DEF RoundsDone, At, After
  <2>3. RoundsDone \subseteq Rounds /\ RoundsDone' \subseteq Rounds
    BY DEF RoundsDone
  <2>4. CASE boot.reg < 5
    <3>1. \A q \in Rounds : q \in RoundsDone' <=> q[1] < boot.reg + 1 \/ (q[1] = boot.reg + 1 /\ q[2] < 0)
      BY <1>3, <2>4 DEF RoundsDone, At, After
    <3>2. \A q \in Rounds : q \in RoundsDone' <=> q \in RoundsDone
      BY <1>1, <2>1, <2>2, <3>1
    <3>3. QED
      BY <2>3, <3>2
  <2>5. CASE ~(boot.reg < 5)
    <3>1. \A q \in Rounds : q \in RoundsDone'
      BY <1>3, <2>5 DEF RoundsDone, At, After
    <3>2. \A q \in Rounds : q \in RoundsDone
      BY <1>1, <2>1, <2>2, <2>5
    <3>3. QED
      BY <2>3, <3>1, <3>2
  <2>6. QED
    BY <2>4, <2>5
<1>10. UNCHANGED <<mem, buf>> /\ boot'.at \notin After /\ boot'.at # "memset" /\ boot.at \in Building
  BY <1>1, <1>2, <1>6 DEF vars, After, Building
<1>11. QED
  BY <1>4, <1>5, <1>7, <1>8, <1>9, <1>10, QuietStep, TabIndices

(* The dsb: every store to the tables is in memory.                            *)
LEMMA BarrierHandover ==
    ASSUME LayoutFits, BootInvariant, Barrier
    PROVE  BootInvariant'
<1>1. boot.at = "dsb" /\ Dsb /\ Drained /\ boot' = [at |-> "link", reg |-> 1, i |-> 0] /\ PgDiv > 0
  BY DEF Barrier, At, Dsb, Goto, LayoutFits
<1>2. TypeOK'
  BY <1>1, NextType DEF BootInvariant, Next, Cpu
<1>3. UNCHANGED <<enabled, ttbr0, ttbr1, mem, buf, mmuVars>>
  BY <1>1 DEF Dsb
<1>4. QuietWhenOff'
  BY <1>3 DEF BootInvariant, QuietWhenOff, mmuVars
<1>5. BootOrder'
  BY <1>1, <1>3, MappedRegions DEF BootInvariant, BootOrder, After, At
<1>6. Linked = {} /\ Linked' = {}
  <2>1. \A s \in DivSection..(PgdCnt - 1) : ~(s - DivSection < 0)
    BY <1>1, Layout
  <2>2. QED
    BY <1>1, <2>1 DEF Linked, After, At
<1>7. RoundsDone' = RoundsDone
  BY <1>1 DEF RoundsDone, After, At
<1>8. boot'.at # "memset" /\ boot.at \in Building
  BY <1>1 DEF Building
<1>9. QED
  BY <1>1, <1>2, <1>3, <1>4, <1>5, <1>6, <1>7, <1>8, QuietStep, TabIndices

-----------------------------------------------------------------------------
(* The links.                                                                  *)

(* One link: the newest word of its section is the link, and the tables and    *)
(* the other sections stay.                                                    *)
LEMMA LinkHandover ==
    ASSUME LayoutFits, BootInvariant, LinkTables, boot.i < KernPgtbs
    PROVE  BootInvariant'
<1>1. /\ boot.at = "link" /\ enabled /\ PgDiv > 0 /\ boot.i \in Nat /\ TypeOK
      /\ DivSection \in Nat /\ KernPgtbs \in Nat
  BY Layout DEF LinkTables, At, BootInvariant, BootOrder, LayoutFits
<1>2. PICK i : i = boot.i
  OBVIOUS
<1>3. i \in 0..(KernPgtbs - 1)
  BY <1>1, <1>2
<1>4. PICK s : s = DivSection + i
  OBVIOUS
<1>5. PICK w, d : w = <<BootPgd, s>> /\ d = LinkDesc(s)
  OBVIOUS
<1>6. armv7_mmu_map_pgd(LinkEntry(i)) = Put(w, d) /\ s \in DivSection..(PgdCnt - 1)
  BY <1>1, <1>3, <1>4, <1>5, LinkIsStored DEF BootInvariant
<1>7. w \in Words /\ w \notin TabWords /\ d \in Descs
  BY <1>5, <1>6, TabWordsAreWords, LinkType
<1>8. /\ Perform(Put(w, d), NoCall) /\ Round /\ owed' = "barrier"
      /\ UNCHANGED <<enabled, ttbr0, ttbr1, mem, mmuVars>>
  BY <1>2, <1>6 DEF LinkTables, OweForStore, Put
<1>9. /\ buf' \in [Words -> Seq(Descs)] /\ call' \in Calls /\ ret' \in Errno
      /\ Load(w)' = d
      /\ \A x \in Words \ {w} : buf'[x] = buf[x] /\ Load(x)' = Load(x)
      /\ Len(buf'[w]) = Len(buf[w]) + 1
      /\ \A n \in 1..Len(buf'[w]) :
            buf'[w][n] = IF n <= Len(buf[w]) THEN buf[w][n] ELSE d
  BY <1>1, <1>7, <1>8, StoreStep
<1>10. TypeOK'
  BY <1>1, <1>8, <1>9 DEF TypeOK, mmuVars
<1>11. QuietWhenOff'
  BY <1>8 DEF BootInvariant, QuietWhenOff, mmuVars
<1>12. boot' = [boot EXCEPT !.i = @ + 1] /\ boot \in [at : Before \union After, reg : DOMAIN Mapped, i : Nat]
  BY <1>8 DEF Round, BootInvariant, BootOrder
<1>13. boot'.at = "link" /\ boot'.i = i + 1 /\ boot' \in [at : Before \union After, reg : DOMAIN Mapped, i : Nat]
  BY <1>1, <1>2, <1>12
<1>14. BootOrder'
  BY <1>1, <1>8, <1>13 DEF BootInvariant, BootOrder, At
<1>15. Linked' = Linked \union {s}
  <2>1. \A x \in DivSection..(PgdCnt - 1) : x - DivSection < i + 1 <=> x - DivSection < i \/ x = s
    BY <1>1, <1>3, <1>4
  <2>2. Linked = {x \in DivSection..(PgdCnt - 1) : x - DivSection < i}
    BY <1>1, <1>2 DEF Linked, At, After
  <2>3. Linked' = {x \in DivSection..(PgdCnt - 1) : x - DivSection < i + 1}
    BY <1>13 DEF Linked, At, After
  <2>4. QED
    BY <1>6, <2>1, <2>2, <2>3
<1>16. ASSUME NEW x \in DivSection..(PgdCnt - 1)
       PROVE  LET y == <<BootPgd, x>>
              IN  /\ mem'[y] # BootWords[x] => x \in Linked' /\ mem'[y] = LinkDesc(x)
                  /\ \A n \in 1..Len(buf'[y]) : x \in Linked' /\ buf'[y][n] = LinkDesc(x)
                  /\ x \in Linked' => Load(y)' = LinkDesc(x)
  <2>1. PICK y : y = <<BootPgd, x>>
    OBVIOUS
  <2>2. y \in Words
    BY <2>1, TabWordsAreWords
  <2>3. /\ mem[y] # BootWords[x] => x \in Linked /\ mem[y] = LinkDesc(x)
        /\ \A n \in 1..Len(buf[y]) : x \in Linked /\ buf[y][n] = LinkDesc(x)
        /\ x \in Linked => Load(y) = LinkDesc(x)
    BY <2>1 DEF BootInvariant, DirectoryInvariant
  <2>4. CASE x = s
    <3>1. y = w /\ d = LinkDesc(x) /\ x \in Linked'
      <4>1. y = w /\ d = LinkDesc(x)
        BY <1>5, <2>1, <2>4
      <4>2. x \in Linked'
        BY <1>15, <2>4
      <4>3. QED
        BY <4>1, <4>2
    <3>2. buf[w] \in Seq(Descs) /\ Len(buf[w]) \in Nat
      BY <1>1, <1>7 DEF TypeOK
    <3>3. ASSUME NEW n \in 1..Len(buf'[y]) PROVE buf'[y][n] = LinkDesc(x)
      <4>1. buf'[w][n] = IF n <= Len(buf[w]) THEN buf[w][n] ELSE d
        BY <1>9, <3>1
      <4>2. n <= Len(buf[w]) => buf[w][n] = LinkDesc(x)
        <5>1. n \in Nat /\ n >= 1
          BY <1>9, <3>1, <3>2
        <5>2. n <= Len(buf[w]) => n \in 1..Len(buf[y])
          BY <3>1, <3>2, <5>1
        <5>3. QED
          BY <2>3, <3>1, <5>2
      <4>3. QED
        BY <3>1, <4>1, <4>2
    <3>4. QED
      BY <1>8, <1>9, <2>1, <2>3, <3>1, <3>3
  <2>5. CASE x # s
    <3>1. y # w
      BY <1>5, <2>1, <2>5
    <3>2. buf'[y] = buf[y] /\ Load(y)' = Load(y) /\ mem'[y] = mem[y]
      BY <1>8, <1>9, <2>2, <3>1
    <3>3. x \in Linked' <=> x \in Linked
      BY <1>15, <2>5
    <3>4. QED
      BY <2>1, <2>3, <3>2, <3>3
  <2>6. QED
    BY <2>4, <2>5
<1>17. DirectoryInvariant'
  BY <1>16 DEF DirectoryInvariant
<1>18. RoundsDone' = RoundsDone
  BY <1>1, <1>13 DEF RoundsDone, At, After
<1>19. ASSUME NEW x \in TabWords PROVE buf'[x] = buf[x] /\ Load(x)' = Load(x)
  BY <1>7, <1>9, TabWordsAreWords
<1>20. TablesInvariant'
  <2>1. TablesInvariant
    BY DEF BootInvariant
  <2>2. QED
    BY <1>1, <1>13, <1>18, <1>19, <2>1 DEF TablesInvariant, At, After
<1>21. QED
  BY <1>10, <1>11, <1>14, <1>17, <1>20 DEF BootInvariant

(* The steps after the last link: nothing is stored any more.                  *)
LEMMA LinksDoneHandover ==
    ASSUME LayoutFits, BootInvariant,
           \/ LinkTables /\ ~(boot.i < KernPgtbs)
           \/ Invalidate \/ move_high_sp
    PROVE  BootInvariant'
<1>1. PgDiv > 0 /\ boot.i \in Nat /\ KernPgtbs \in Nat /\ DivSection \in Nat /\ enabled
  BY Layout DEF LayoutFits, BootInvariant, BootOrder, LinkTables, Invalidate, move_high_sp, At
<1>2. /\ boot.at \in {"link", "tlbi", "sp"} /\ (boot.at = "link" => ~(boot.i < KernPgtbs))
      /\ boot' \in [at : {"tlbi", "sp", "kernel_init"}, reg : {1}, i : {0}]
      /\ UNCHANGED <<enabled, ttbr0, ttbr1, mem, buf>>
  BY DEF LinkTables, Invalidate, move_high_sp, At, Goto, NoStore, vars, InvalidateTlb
<1>3. TypeOK'
  <2>1. [Next]_vars
    BY DEF LinkTables, Invalidate, move_high_sp, NoStore, Next, Cpu
  <2>2. QED
    BY <2>1, NextType DEF BootInvariant
<1>4. QuietWhenOff'
  BY <1>1, <1>2 DEF QuietWhenOff
<1>5. BootOrder'
  BY <1>1, <1>2, MappedRegions DEF BootInvariant, BootOrder, After, At
<1>6. Linked' = Linked
  <2>1. \A s \in DivSection..(PgdCnt - 1) : s - DivSection < KernPgtbs
    BY <1>1, Layout
  <2>2. \A s \in DivSection..(PgdCnt - 1) : boot.at = "link" => s - DivSection < boot.i
    BY <1>1, <1>2, <2>1
  <2>3. QED
    BY <1>2, <2>2 DEF Linked, After, At
<1>7. RoundsDone' = RoundsDone
  BY <1>2 DEF RoundsDone, After, At
<1>8. boot.at \in After /\ boot.at \in Building /\ boot'.at # "memset"
  BY <1>2 DEF After, Building
<1>9. QED
  BY <1>2, <1>3, <1>4, <1>5, <1>6, <1>7, <1>8, QuietStep, TabIndices

-----------------------------------------------------------------------------
(* The hardware.                                                               *)

(* A store reaches memory: the word it leaves there is one the CPU stored.     *)
LEMMA DrainHandover ==
    ASSUME LayoutFits, BootInvariant, NEW w \in Words, Drain(w), UNCHANGED boot
    PROVE  BootInvariant'
<1>1. /\ TypeOK /\ UNCHANGED <<enabled, ttbr0, ttbr1, tlb, walk>> /\ buf[w] # <<>>
      /\ buf[w] \in Seq(Descs)
      /\ mem' = [mem EXCEPT ![w] = Head(buf[w])] /\ buf' = [buf EXCEPT ![w] = Tail(@)]
  BY DEF Drain, cpuVars, mmuVars, BootInvariant, TypeOK
<1>2. TypeOK'
  BY <1>1, NextType DEF Next, Hardware
<1>3. QuietWhenOff' /\ BootOrder'
  BY <1>1 DEF BootInvariant, QuietWhenOff, BootOrder, At
<1>4. Linked' = Linked /\ RoundsDone' = RoundsDone
  BY DEF Linked, RoundsDone, At
<1>5. /\ \A x \in Words : Load(x)' = Load(x)
      /\ \A x \in Words \ {w} : buf'[x] = buf[x] /\ mem'[x] = mem[x]
  BY <1>1, LoadDrain DEF TypeOK
<1>6. /\ mem'[w] = buf[w][1] /\ 1 \in 1..Len(buf[w])
      /\ \A n \in 1..Len(buf'[w]) : n + 1 \in 1..Len(buf[w]) /\ buf'[w][n] = buf[w][n + 1]
  <2>1. mem'[w] = Head(buf[w]) /\ buf'[w] = Tail(buf[w])
    BY <1>1 DEF TypeOK
  <2>2. Len(buf[w]) \in Nat /\ Len(buf[w]) # 0
    BY <1>1, EmptySeq
  <2>3. Len(Tail(buf[w])) = Len(buf[w]) - 1 /\ \A n \in 1..Len(Tail(buf[w])) : Tail(buf[w])[n] = buf[w][n + 1]
    BY <1>1, HeadTailProperties
  <2>4. Head(buf[w]) = buf[w][1]
    BY <1>1
  <2>5. QED
    BY <2>1, <2>2, <2>3, <2>4
<1>7. ASSUME NEW x \in DivSection..(PgdCnt - 1)
      PROVE  LET y == <<BootPgd, x>>
             IN  /\ mem'[y] # BootWords[x] => x \in Linked /\ mem'[y] = LinkDesc(x)
                 /\ \A n \in 1..Len(buf'[y]) : x \in Linked /\ buf'[y][n] = LinkDesc(x)
                 /\ x \in Linked => Load(y)' = LinkDesc(x)
  <2>1. PICK y \in Words : y = <<BootPgd, x>>
    BY TabWordsAreWords
  <2>2. /\ mem[y] # BootWords[x] => x \in Linked /\ mem[y] = LinkDesc(x)
        /\ \A n \in 1..Len(buf[y]) : x \in Linked /\ buf[y][n] = LinkDesc(x)
        /\ x \in Linked => Load(y) = LinkDesc(x)
    BY <2>1 DEF BootInvariant, DirectoryInvariant
  <2>3. CASE y = w
    BY <1>5, <1>6, <2>1, <2>2, <2>3
  <2>4. CASE y # w
    BY <1>5, <2>1, <2>2, <2>4
  <2>5. QED
    BY <2>3, <2>4
<1>8. DirectoryInvariant'
  BY <1>4, <1>7 DEF DirectoryInvariant
<1>9. ASSUME NEW x \in TabWords
      PROVE  Load(x)' = Load(x) /\ (buf[x] = <<>> => buf'[x] = <<>>)
  BY <1>1, <1>5, TabWordsAreWords
<1>10. TablesInvariant'
  <2>1. TablesInvariant
    BY DEF BootInvariant
  <2>2. QED
    BY <1>4, <1>9, <2>1 DEF TablesInvariant, At
<1>11. QED
  BY <1>2, <1>3, <1>8, <1>10 DEF BootInvariant

(* The walker reads; the TLB evicts.                                           *)
LEMMA WalkHandover ==
    ASSUME LayoutFits, BootInvariant, UNCHANGED boot,
           WalkPgtb \/ UNCHANGED vars \/ \E v \in VPages : WalkPgd(v) \/ Evict(v)
    PROVE  BootInvariant'
<1>1. TypeOK'
  BY NextType DEF BootInvariant, Next, Hardware
<1>2. UNCHANGED <<enabled, ttbr0, ttbr1, mem, buf>>
  BY DEF WalkPgtb, WalkPgd, Evict, cpuVars, vars
<1>3. QuietWhenOff'
  <2>1. SUFFICES ASSUME ~enabled PROVE walk' = None /\ \A v \in VPages : tlb'[v] = None
    BY <1>2 DEF QuietWhenOff
  <2>2. walk = None /\ \A v \in VPages : tlb[v] = None
    BY <2>1 DEF BootInvariant, QuietWhenOff
  <2>3. UNCHANGED vars
    BY <2>1, <2>2 DEF WalkPgtb, WalkPgd, Evict
  <2>4. QED
    BY <2>2, <2>3 DEF vars
<1>4. BootOrder'
  BY <1>2 DEF BootInvariant, BootOrder, At
<1>5. Linked' = Linked /\ RoundsDone' = RoundsDone
  BY DEF Linked, RoundsDone, At
<1>6. boot'.at \in Building => boot.at \in Building
  OBVIOUS
<1>7. QED
  BY <1>1, <1>2, <1>3, <1>4, <1>5, <1>6, QuietStep, TabIndices

LEMMA NextHandover == LayoutFits /\ BootInvariant /\ [BootNext]_bootVars => BootInvariant'
<1> SUFFICES ASSUME LayoutFits, BootInvariant, [BootNext]_bootVars PROVE BootInvariant'
  OBVIOUS
<1>1. CASE Enable
  BY <1>1, EnableHandover
<1>2. CASE ClearTables
  BY <1>2, ClearHandover
<1>3. CASE MapRegions
  BY <1>3, RoundHandover, RegionHandover
<1>4. CASE Barrier
  BY <1>4, BarrierHandover
<1>5. CASE LinkTables
  BY <1>5, LinkHandover, LinksDoneHandover
<1>6. CASE Invalidate \/ move_high_sp
  BY <1>6, LinksDoneHandover
<1>7. CASE Hardware /\ UNCHANGED boot
  BY <1>7, DrainHandover, WalkHandover DEF Hardware
<1>8. CASE UNCHANGED bootVars
  BY <1>8, WalkHandover DEF bootVars
<1>9. QED
  BY <1>1, <1>2, <1>3, <1>4, <1>5, <1>6, <1>7, <1>8 DEF BootNext, BootStep

(* The directory, the tables and the store buffer while the kernel half is     *)
(* handed over, for every layout that fits.                                    *)
THEOREM BootInvariantHolds == LayoutFits => (BootSpec => []BootInvariant)
<1>1. LayoutFits /\ BootInit => BootInvariant
  BY InitHandover DEF HandoverInvariant
<1>2. LayoutFits /\ BootInvariant /\ [BootNext]_bootVars => BootInvariant'
  BY NextHandover
<1>3. SUFFICES ASSUME LayoutFits PROVE BootSpec => []BootInvariant
  OBVIOUS
<1>4. BootInit => BootInvariant
  BY <1>1, <1>3
<1>5. BootInvariant /\ [BootNext]_bootVars => BootInvariant'
  BY <1>2, <1>3
<1>6. QED
  BY <1>4, <1>5, PTL DEF BootSpec

-----------------------------------------------------------------------------
(* What a walk finds.                                                          *)

\* Pages of the kernel are in the window, and stay mapped as MappedPages.
LEMMA KernelPages ==
    ASSUME LayoutFits, NEW p \in KernPages
    PROVE  p \in lmi_start..(k_end - 1) /\ p \in Window
<1>1. PgDiv > 0
  BY DEF LayoutFits
<1>2. p \in lmi_start..(k_end - 1)
  BY <1>1, Layout DEF KernPages, Pages, kinit_reg, kern_reg, kstack_reg, Region
<1>3. QED
  BY <1>2, ImageInWindow

(* The window, from the side of the kernel half.                               *)
LEMMA UpperPage ==
    ASSUME PgDiv > 0, NEW v \in UpperPages
    PROVE  /\ v \in VPages /\ v = <<PgdIdx(v), PgtbIdx(v)>>
           /\ PgdIdx(v) \in DivSection..(PgdCnt - 1) /\ PgtbIdx(v) \in 0..(PgtbCnt - 1)
           /\ WindowPage(v) \in Nat
<1>1. /\ v \in VPages /\ v = <<PgdIdx(v), PgtbIdx(v)>>
      /\ PgdIdx(v) \in DivSection..(PgdCnt - 1) /\ PgtbIdx(v) \in 0..(PgtbCnt - 1)
  BY Layout DEF UpperPages, VPages, PgdIdx, PgtbIdx
<1> DEFINE t == PgdIdx(v) - DivSection
<1>2. t \in Nat /\ PgtbCnt \in Nat /\ kp_start \in Nat /\ PgtbIdx(v) \in Nat
  BY <1>1, Layout
<1> HIDE DEF t
<1>3. t * PgtbCnt \in Nat
  BY <1>2
<1>4. QED
  BY <1>1, <1>2, <1>3 DEF WindowPage, t

LEMMA WindowIsUpper ==
    ASSUME LayoutFits, NEW p \in Window, NEW v, v = phy_to_kvm(p)
    PROVE  v \in UpperPages /\ WindowPage(v) = p
<1>1. v \in VPages /\ PgdIdx(v) \in DivSection..(PgdCnt - 1)
      /\ p = kp_start + (PgdIdx(v) - DivSection) * PgtbCnt + PgtbIdx(v)
  BY KernelHalf
<1>2. PgdIdx(v) >= DivSection
  BY <1>1, Layout DEF LayoutFits
<1>3. QED
  BY <1>1, <1>2 DEF UpperPages, WindowPage

(* A section of the boot leads to every one of its pages.                      *)
LEMMA BootSectionLeads ==
    ASSUME LayoutFits, NEW v \in UpperPages, PgdIdx(v) \in BootMapped
    PROVE  /\ BootWords[PgdIdx(v)].type = "section"
           /\ LeadsTo(Resolve(v, BootWords[PgdIdx(v)], BootWords[PgdIdx(v)]), WindowPage(v))
<1> DEFINE s == PgdIdx(v)
           a == kp_start + (s - DivSection) * PgtbCnt
<1>0. PgDiv > 0
  BY DEF LayoutFits
<1>1. s \in DivSection..(PgdCnt - 1) /\ s \in 0..(PgdCnt - 1)
  BY <1>0, UpperPage, Layout
<1>2. BootWords[s] = [type |-> "section", addr |-> a, dom |-> "USER_DOMAIN", ap |-> "KRW_URW"]
  BY <1>0, <1>1, MappedSection
<1>3. BootWords[s] \in Descs
  BY <1>1, BootWordsType
<1>4. WindowPage(v) = a + PgtbIdx(v)
  BY DEF WindowPage
<1> HIDE DEF a
<1>5. a \in Frames /\ a # NoAddr
  BY <1>2, <1>3, GeometryAssumption DEF Descs, Invalid, Table, Section, SmallPg
<1>6. Resolve(v, BootWords[s], BootWords[s])
        = [base |-> a, off |-> PgtbIdx(v), dom |-> "USER_DOMAIN", ap |-> "KRW_URW"]
  BY <1>2 DEF Resolve
<1>7. QED
  BY <1>2, <1>4, <1>5, <1>6 DEF LeadsTo, Fault

LEMMA SectionLeads ==
    ASSUME LayoutFits, SectionsSuffice, NEW p \in lmi_start..(k_end - 1), NEW v, v = phy_to_kvm(p)
    PROVE  /\ BootWords[PgdIdx(v)].type = "section"
           /\ LeadsTo(Resolve(v, BootWords[PgdIdx(v)], BootWords[PgdIdx(v)]), p)
<1>1. v \in UpperPages /\ WindowPage(v) = p /\ PgdIdx(v) \in BootMapped
  BY ImageMapped, WindowIsUpper
<1>2. QED
  BY <1>1, BootSectionLeads

(* Once the tables are linked, what they hold of a page with right entries.    *)
LEMMA EntryIsThere ==
    ASSUME LayoutFits, BootInvariant, boot.at \in After, NEW P, EntriesRight(P), NEW p \in P
    PROVE  /\ TabWord(phy_to_kvm(p)) \in TabWords
           /\ mem[TabWord(phy_to_kvm(p))].type = "small"
           /\ mem[TabWord(phy_to_kvm(p))].addr = p
           /\ mem[TabWord(phy_to_kvm(p))].ap = "KRW_NOU"
           /\ p \in Frames
<1>1. PICK w : w = TabWord(phy_to_kvm(p))
  OBVIOUS
<1>2. /\ \E r \in Rounds : EntryWord(r) = w
      /\ \A r \in Rounds : EntryWord(r) = w => EntryOf(r).phy = p
  BY <1>1 DEF EntriesRight
<1>3. w \in TabWords
  BY <1>2, EntryType
<1>4. mem[w] = Load(w)
  BY <1>3 DEF BootInvariant, TablesInvariant, Load
<1>5. RoundsDone = Rounds
  BY DEF RoundsDone
<1>6. PICK r \in Rounds : EntryWord(r) = w /\ Load(w) = PgtbDesc(EntryOf(r))
  BY <1>2, <1>3, <1>5 DEF BootInvariant, TablesInvariant
<1>7. QED
  BY <1>1, <1>2, <1>3, <1>4, <1>6, EntryType

(* A walk through the link of a page of the kernel.                            *)
LEMMA LinkLeads ==
    ASSUME HandoverLayout, BootInvariant, NEW p \in KernPages, NEW v, v = phy_to_kvm(p),
           PgdIdx(v) \in Linked
    PROVE  LeadsTo(Resolve(v, LinkDesc(PgdIdx(v)), mem[PgtbWord(LinkDesc(PgdIdx(v)), v)]), p)
<1>1. LayoutFits /\ EntriesRight(KernPages)
      /\ LinkDesc(PgdIdx(v)).addr = TabBase + PgdIdx(v) - DivSection
  BY DEF HandoverLayout, LinksRight
<1>2. PgtbWord(LinkDesc(PgdIdx(v)), v) = TabWord(v)
  BY <1>1 DEF PgtbWord, TabWord
<1>3. boot.at \in After /\ PgdIdx(v) \in DivSection..(PgdCnt - 1)
  BY DEF Linked
<1>4. mem[TabWord(v)].type = "small" /\ mem[TabWord(v)].addr = p /\ p \in Frames
  BY <1>1, <1>3, EntryIsThere
<1>5. LinkDesc(PgdIdx(v)).type = "table"
  BY <1>1, <1>3, LinkType
<1>6. Resolve(v, LinkDesc(PgdIdx(v)), mem[TabWord(v)])
        = [base |-> p, off |-> 0, dom |-> LinkDesc(PgdIdx(v)).dom, ap |-> mem[TabWord(v)].ap]
  BY <1>4, <1>5 DEF Resolve
<1>7. p # NoAddr /\ p + 0 = p
  BY <1>1, <1>4, GeometryAssumption, KernelPages
<1>8. QED
  BY <1>2, <1>6, <1>7 DEF LeadsTo, Fault

(* The first-level word of a page of the image: its section, or its link.      *)
LEMMA FirstLevel ==
    ASSUME LayoutFits, BootInvariant, NEW p \in Window, NEW v, v = phy_to_kvm(p)
    PROVE  /\ PgdWord(v) = <<BootPgd, PgdIdx(v)>>
           /\ \/ mem[PgdWord(v)] = BootWords[PgdIdx(v)]
              \/ PgdIdx(v) \in Linked /\ mem[PgdWord(v)] = LinkDesc(PgdIdx(v))
<1>1. PgdWord(v) = <<BootPgd, PgdIdx(v)>>
  BY DEF PgdWord, PgdOf, BootInvariant, BootOrder
<1>2. PgdIdx(v) \in DivSection..(PgdCnt - 1)
  BY KernelHalf
<1>3. QED
  BY <1>1, <1>2 DEF BootInvariant, DirectoryInvariant

LEMMA WalkLeads ==
    ASSUME HandoverLayout, BootInvariant, NEW p \in KernPages, NEW v, v = phy_to_kvm(p)
    PROVE  LeadsTo(Walked(v), p)
<1>1. LayoutFits /\ SectionsSuffice /\ p \in lmi_start..(k_end - 1) /\ p \in Window
  BY KernelPages DEF HandoverLayout
<1>2. PICK l1 : l1 = mem[PgdWord(v)]
  OBVIOUS
<1>3. CASE l1 = BootWords[PgdIdx(v)]
  <2>1. l1.type = "section"
    BY <1>1, <1>3, SectionLeads
  <2>2. Walked(v) = Resolve(v, l1, l1)
    BY <1>2, <2>1 DEF Walked
  <2>3. QED
    BY <1>1, <1>3, <2>2, SectionLeads
<1>4. CASE PgdIdx(v) \in Linked /\ l1 = LinkDesc(PgdIdx(v))
  <2>1. l1.type = "table"
    BY <1>1, <1>4, LinkType DEF Linked
  <2>2. Walked(v) = Resolve(v, l1, mem[PgtbWord(l1, v)])
    BY <1>2, <2>1 DEF Walked
  <2>3. QED
    BY <1>4, <2>2, LinkLeads
<1>5. QED
  BY <1>1, <1>2, <1>3, <1>4, FirstLevel

-----------------------------------------------------------------------------
(* The walker.                                                                 *)

(* Links are only added.                                                       *)
LEMMA LinksStay ==
    ASSUME LayoutFits, BootInvariant, [BootNext]_bootVars
    PROVE  Linked \subseteq Linked'
<1>1. CASE UNCHANGED boot
  BY <1>1 DEF Linked, At
<1>2. CASE boot.at \notin After
  BY <1>2 DEF Linked
<1>3. CASE boot.at \in After /\ BootStep
  <2>1. /\ boot \in [at : Before \union After, reg : DOMAIN Mapped, i : Nat]
        /\ DivSection \in Nat /\ enabled
    BY <1>3, Layout DEF BootInvariant, BootOrder, LayoutFits, At, After
  <2>2. CASE LinkTables /\ boot.i < KernPgtbs
    <3>1. boot.at = "link" /\ boot.i \in 0..(KernPgtbs - 1)
      BY <2>1, <2>2, Layout DEF LinkTables, At, LayoutFits
    <3>2. armv7_mmu_map_pgd(LinkEntry(boot.i)).err = "ESUCC"
      <4>1. PICK i \in 0..(KernPgtbs - 1) : i = boot.i
        BY <3>1
      <4>2. QED
        BY <2>1, <4>1, LinkIsStored DEF BootInvariant, Put
    <3>3. boot' = [boot EXCEPT !.i = @ + 1]
      BY <2>2, <3>2 DEF LinkTables, Round
    <3>4. boot'.at = "link" /\ boot'.i = boot.i + 1
      BY <2>1, <3>1, <3>3
    <3>5. QED
      BY <2>1, <3>1, <3>4 DEF Linked, After, At
  <2>3. CASE \/ LinkTables /\ ~(boot.i < KernPgtbs)
             \/ Invalidate \/ move_high_sp
    <3>1. boot'.at \in {"tlbi", "sp", "kernel_init"}
      BY <2>3 DEF LinkTables, Invalidate, move_high_sp, Goto
    <3>2. QED
      BY <3>1 DEF Linked, After, At
  <2>4. QED
    BY <1>3, <2>2, <2>3 DEF BootStep, Enable, ClearTables, MapRegions, Barrier, At, After
<1>4. QED
  BY <1>1, <1>2, <1>3 DEF BootNext, bootVars

(* The TLB empties, or a step of the CPU leaves it and the walker alone.       *)
LEMMA CpuWalker ==
    ASSUME HandoverLayout, BootInvariant, WalkerInvariant, Linked \subseteq Linked',
           \/ UNCHANGED <<tlb, walk>>
           \/ walk' = None /\ \A v \in VPages : tlb'[v] \in {None, tlb[v]}
    PROVE  WalkerInvariant'
<1> SUFFICES ASSUME NEW p \in KernPages, NEW v, v = phy_to_kvm(p)
             PROVE  /\ tlb'[v] # None => LeadsTo(tlb'[v], p)
                    /\ walk' # None /\ walk'.va = v =>
                          PgdIdx(v) \in Linked' /\ walk'.l1 = LinkDesc(PgdIdx(v))
  BY DEF WalkerInvariant
<1>1. v \in VPages
  BY KernelPages, KernelHalf DEF HandoverLayout
<1>2. /\ tlb[v] # None => LeadsTo(tlb[v], p)
      /\ walk # None /\ walk.va = v => PgdIdx(v) \in Linked /\ walk.l1 = LinkDesc(PgdIdx(v))
  BY DEF WalkerInvariant
<1>3. CASE UNCHANGED <<tlb, walk>>
  BY <1>2, <1>3
<1>4. CASE walk' = None /\ \A x \in VPages : tlb'[x] \in {None, tlb[x]}
  BY <1>1, <1>2, <1>4
<1>5. QED
  BY <1>3, <1>4

LEMMA WalkPgdWalker ==
    ASSUME HandoverLayout, BootInvariant, WalkerInvariant, UNCHANGED boot,
           NEW x \in VPages, WalkPgd(x)
    PROVE  WalkerInvariant'
<1> SUFFICES ASSUME NEW p \in KernPages, NEW v, v = phy_to_kvm(p)
             PROVE  /\ tlb'[v] # None => LeadsTo(tlb'[v], p)
                    /\ walk' # None /\ walk'.va = v =>
                          PgdIdx(v) \in Linked' /\ walk'.l1 = LinkDesc(PgdIdx(v))
  BY DEF WalkerInvariant
<1>1. v \in VPages /\ TypeOK /\ LayoutFits /\ SectionsSuffice /\ p \in Window
  BY KernelPages, KernelHalf DEF HandoverLayout, BootInvariant
<1>2. /\ tlb[v] # None => LeadsTo(tlb[v], p)
      /\ walk # None /\ walk.va = v => PgdIdx(v) \in Linked /\ walk.l1 = LinkDesc(PgdIdx(v))
  BY DEF WalkerInvariant
<1>3. Linked' = Linked /\ walk = None
  BY DEF Linked, At, WalkPgd
<1>4. CASE x # v
  <2>1. tlb'[v] = tlb[v]
    BY <1>1, <1>4, WalksOnePage
  <2>2. walk' = None \/ walk'.va = x
    BY <1>3 DEF WalkPgd
  <2>3. QED
    BY <1>2, <1>4, <2>1, <2>2
<1>5. CASE x = v
  <2>1. PICK l1 : l1 = mem[PgdWord(v)]
    OBVIOUS
  <2>2. CASE l1.type = "section" /\ Fill(v, Resolve(v, l1, l1)) /\ UNCHANGED walk
    <3>1. tlb'[v] = Resolve(v, l1, l1)
      BY <1>1, <2>2 DEF Fill, TypeOK
    <3>2. Walked(v) = Resolve(v, l1, l1)
      BY <2>1, <2>2 DEF Walked
    <3>3. LeadsTo(Walked(v), p)
      BY WalkLeads
    <3>4. QED
      BY <1>3, <2>2, <3>1, <3>2, <3>3
  <2>3. CASE l1.type = "table" /\ walk' = [va |-> v, l1 |-> l1] /\ UNCHANGED tlb
    <3>1. BootWords[PgdIdx(v)].type = "section"
      BY <1>1, KernelPages, SectionLeads
    <3>2. PgdIdx(v) \in Linked /\ l1 = LinkDesc(PgdIdx(v))
      BY <1>1, <2>1, <2>3, <3>1, FirstLevel
    <3>3. QED
      BY <1>2, <1>3, <2>3, <3>2
  <2>4. QED
    BY <1>5, <2>1, <2>2, <2>3 DEF WalkPgd
<1>6. QED
  BY <1>4, <1>5

LEMMA WalkPgtbWalker ==
    ASSUME HandoverLayout, BootInvariant, WalkerInvariant, WalkPgtb
    PROVE  WalkerInvariant'
<1> SUFFICES ASSUME NEW p \in KernPages, NEW v, v = phy_to_kvm(p)
             PROVE  tlb'[v] # None => LeadsTo(tlb'[v], p)
  BY DEF WalkerInvariant, WalkPgtb
<1>1. v \in VPages /\ TypeOK
  BY KernelPages, KernelHalf DEF HandoverLayout, BootInvariant
<1>2. /\ tlb[v] # None => LeadsTo(tlb[v], p)
      /\ walk # None /\ walk.va = v => PgdIdx(v) \in Linked /\ walk.l1 = LinkDesc(PgdIdx(v))
  BY DEF WalkerInvariant
<1>3. CASE walk.va # v
  BY <1>1, <1>2, <1>3, WalksOnePage
<1>4. CASE walk.va = v
  <2>1. PgdIdx(v) \in Linked /\ walk.l1 = LinkDesc(PgdIdx(v))
    BY <1>2, <1>4 DEF WalkPgtb
  <2>2. PICK t : t = Resolve(v, LinkDesc(PgdIdx(v)), mem[PgtbWord(LinkDesc(PgdIdx(v)), v)])
    OBVIOUS
  <2>3. LeadsTo(t, p)
    BY <2>1, <2>2, LinkLeads
  <2>4. Fill(v, t) \/ UNCHANGED tlb
    BY <1>4, <2>1, <2>2 DEF WalkPgtb
  <2>5. Fill(v, t) => tlb'[v] = t
    BY <1>1 DEF Fill, TypeOK
  <2>6. QED
    BY <1>2, <2>3, <2>4, <2>5
<1>5. QED
  BY <1>3, <1>4

LEMMA NextWalker ==
    HandoverLayout /\ BootInvariant /\ WalkerInvariant /\ [BootNext]_bootVars => WalkerInvariant'
<1> SUFFICES ASSUME HandoverLayout, BootInvariant, WalkerInvariant, [BootNext]_bootVars
             PROVE  WalkerInvariant'
  OBVIOUS
<1>1. Linked \subseteq Linked'
  BY LinksStay DEF HandoverLayout
<1>2. CASE BootStep
  <2>1. \/ UNCHANGED <<tlb, walk>>
        \/ walk' = None /\ \A v \in VPages : tlb'[v] = None
    BY <1>2 DEF BootStep, Enable, ClearTables, MapRegions, Barrier, LinkTables, Invalidate,
                move_high_sp, EnableMmu, InvalidateTlb, Dsb, NoStore, mmuVars, vars
  <2>2. QED
    BY <1>1, <2>1, CpuWalker
<1>3. CASE Hardware /\ UNCHANGED boot
  <2>1. ASSUME NEW w \in Words, Drain(w) PROVE WalkerInvariant'
    <3>1. UNCHANGED <<tlb, walk>>
      BY <2>1 DEF Drain, mmuVars
    <3>2. QED
      BY <1>1, <3>1, CpuWalker
  <2>2. ASSUME NEW x \in VPages, Evict(x) PROVE WalkerInvariant'
    <3>1. UNCHANGED walk /\ \A v \in VPages : tlb'[v] \in {None, tlb[v]}
      BY <2>2 DEF Evict, BootInvariant, TypeOK
    <3>2. ASSUME NEW p \in KernPages, NEW v, v = phy_to_kvm(p)
          PROVE  /\ tlb'[v] # None => LeadsTo(tlb'[v], p)
                 /\ walk' # None /\ walk'.va = v =>
                       PgdIdx(v) \in Linked' /\ walk'.l1 = LinkDesc(PgdIdx(v))
      <4>1. v \in VPages
        BY <3>2, KernelPages, KernelHalf DEF HandoverLayout
      <4>2. /\ tlb[v] # None => LeadsTo(tlb[v], p)
            /\ walk # None /\ walk.va = v => PgdIdx(v) \in Linked /\ walk.l1 = LinkDesc(PgdIdx(v))
        BY <3>2 DEF WalkerInvariant
      <4>3. QED
        BY <1>1, <3>1, <4>1, <4>2
    <3>3. QED
      BY <3>2 DEF WalkerInvariant
  <2>3. QED
    BY <1>3, <2>1, <2>2, WalkPgdWalker, WalkPgtbWalker DEF Hardware
<1>4. CASE UNCHANGED bootVars
  BY <1>1, <1>4, CpuWalker DEF bootVars, vars
<1>5. QED
  BY <1>2, <1>3, <1>4 DEF BootNext

-----------------------------------------------------------------------------
(* The walker in all of the kernel half.                                       *)

(* What a walk through a link finds: nothing, or the page's own address.       *)
LEMMA LinkWindow ==
    ASSUME LayoutFits, EntriesInPlace, LinksRight(DivSection..(PgdCnt - 1)), BootInvariant,
           NEW v \in UpperPages, NEW t, PgdIdx(v) \in Linked,
           t = Resolve(v, LinkDesc(PgdIdx(v)), mem[PgtbWord(LinkDesc(PgdIdx(v)), v)])
    PROVE  t = Fault \/ LeadsTo(t, WindowPage(v))
<1> DEFINE s == PgdIdx(v)
           x == PgtbIdx(v)
           w == TabWord(v)
<1>1. PgDiv > 0 /\ boot.at \in After
  BY DEF LayoutFits, Linked
<1>2. s \in DivSection..(PgdCnt - 1) /\ x \in 0..(PgtbCnt - 1) /\ WindowPage(v) \in Nat
  BY <1>1, UpperPage
<1>3. LinkDesc(s).type = "table" /\ LinkDesc(s).addr = TabBase + s - DivSection
  BY <1>2, LinkType DEF LinksRight
<1>4. PgtbWord(LinkDesc(s), v) = w
  BY <1>3 DEF PgtbWord, TabWord
<1>5. w \in TabWords
  BY <1>2, TabWordsAreWords
<1>6. mem[w] = Load(w)
  BY <1>1, <1>5 DEF BootInvariant, TablesInvariant, Load
<1>7. t = Resolve(v, LinkDesc(s), mem[w])
  BY <1>4
<1>8. w = <<TabBase + s - DivSection, x>>
  BY DEF TabWord
<1>9. WindowPage(v) = kp_start + (s - DivSection) * PgtbCnt + x
  BY DEF WindowPage
<1> HIDE DEF s, x, w
<1>10. CASE Load(w) = Empty
  BY <1>3, <1>6, <1>7, <1>10 DEF Resolve, Empty
<1>11. CASE \E r \in RoundsDone : EntryWord(r) = w /\ Load(w) = PgtbDesc(EntryOf(r))
  <2>1. PICK r \in Rounds : EntryWord(r) = w /\ Load(w) = PgtbDesc(EntryOf(r))
    BY <1>11 DEF RoundsDone
  <2>2. PICK p : p = EntryOf(r).phy
    OBVIOUS
  <2>3. p \in Window /\ TabWord(phy_to_kvm(p)) = w
    BY <2>1, <2>2 DEF EntriesInPlace, Window
  <2>4. mem[w].type = "small" /\ mem[w].addr = p /\ p \in Frames
    BY <1>6, <2>1, <2>2, EntryType
  <2>5. t = [base |-> p, off |-> 0, dom |-> LinkDesc(s).dom, ap |-> mem[w].ap]
    BY <1>3, <1>7, <2>4 DEF Resolve
  <2>6. p = WindowPage(v)
    BY <1>1, <1>2, <1>8, <1>9, <2>3, TabBaseNat, OwnWord
  <2>7. p + 0 = p /\ p # NoAddr
    BY <1>2, <2>4, <2>6, GeometryAssumption
  <2>8. QED
    BY <2>5, <2>6, <2>7 DEF LeadsTo, Fault
<1>12. QED
  BY <1>1, <1>5, <1>10, <1>11 DEF BootInvariant, TablesInvariant

(* The first-level words of the kernel half.                                   *)
LEMMA UpperFirstLevel ==
    ASSUME LayoutFits, BootInvariant, NEW v \in UpperPages
    PROVE  \/ mem[PgdWord(v)] = BootWords[PgdIdx(v)]
           \/ PgdIdx(v) \in Linked /\ mem[PgdWord(v)] = LinkDesc(PgdIdx(v))
<1>1. PgdWord(v) = <<BootPgd, PgdIdx(v)>>
  BY DEF PgdWord, PgdOf, BootInvariant, BootOrder
<1>2. PgdIdx(v) \in DivSection..(PgdCnt - 1)
  BY UpperPage DEF LayoutFits
<1>3. QED
  BY <1>1, <1>2 DEF BootInvariant, DirectoryInvariant

(* The TLB loses entries, or a step leaves it and the walker alone.            *)
LEMMA CpuWindow ==
    ASSUME WindowInvariant, Linked \subseteq Linked',
           \/ UNCHANGED <<tlb, walk>>
           \/ (walk' = None \/ walk' = walk) /\ \A v \in VPages : tlb'[v] \in {None, tlb[v]}
    PROVE  WindowInvariant'
<1> SUFFICES ASSUME NEW v \in UpperPages
             PROVE  /\ tlb'[v] # None => LeadsTo(tlb'[v], WindowPage(v)) \/ FromJunk(v, tlb'[v])
                    /\ walk' # None /\ walk'.va = v =>
                          \/ PgdIdx(v) \in Linked' /\ walk'.l1 = LinkDesc(PgdIdx(v))
                          \/ PgdIdx(v) \notin BootMapped /\ walk'.l1 = JunkPgd
  BY DEF WindowInvariant
<1>1. v \in VPages
  BY DEF UpperPages
<1>2. /\ tlb[v] # None => LeadsTo(tlb[v], WindowPage(v)) \/ FromJunk(v, tlb[v])
      /\ walk # None /\ walk.va = v =>
            \/ PgdIdx(v) \in Linked /\ walk.l1 = LinkDesc(PgdIdx(v))
            \/ PgdIdx(v) \notin BootMapped /\ walk.l1 = JunkPgd
  BY DEF WindowInvariant
<1>3. tlb'[v] \in {None, tlb[v]} /\ (walk' = None \/ walk' = walk)
  BY <1>1
<1>4. QED
  BY <1>2, <1>3

LEMMA WalkPgdWindow ==
    ASSUME LayoutFits, BootInvariant, WindowInvariant, UNCHANGED boot, NEW x \in VPages, WalkPgd(x)
    PROVE  WindowInvariant'
<1> SUFFICES ASSUME NEW v \in UpperPages
             PROVE  /\ tlb'[v] # None => LeadsTo(tlb'[v], WindowPage(v)) \/ FromJunk(v, tlb'[v])
                    /\ walk' # None /\ walk'.va = v =>
                          \/ PgdIdx(v) \in Linked' /\ walk'.l1 = LinkDesc(PgdIdx(v))
                          \/ PgdIdx(v) \notin BootMapped /\ walk'.l1 = JunkPgd
  BY DEF WindowInvariant
<1>1. v \in VPages /\ TypeOK /\ PgDiv > 0 /\ PgdIdx(v) \in DivSection..(PgdCnt - 1)
  BY UpperPage DEF UpperPages, BootInvariant, LayoutFits
<1>2. tlb[v] # None => LeadsTo(tlb[v], WindowPage(v)) \/ FromJunk(v, tlb[v])
  BY DEF WindowInvariant
<1>3. Linked' = Linked /\ walk = None
  BY DEF Linked, At, WalkPgd
<1>4. CASE x # v
  <2>1. tlb'[v] = tlb[v]
    BY <1>1, <1>4, WalksOnePage
  <2>2. walk' = None \/ walk'.va = x
    BY <1>3 DEF WalkPgd
  <2>3. QED
    BY <1>2, <1>4, <2>1, <2>2
<1>5. CASE x = v
  <2>1. PICK l1 : l1 = mem[PgdWord(v)]
    OBVIOUS
  <2>2. l1 = BootWords[PgdIdx(v)] \/ (PgdIdx(v) \in Linked /\ l1 = LinkDesc(PgdIdx(v)))
    BY <2>1, UpperFirstLevel
  <2>3. l1 = LinkDesc(PgdIdx(v)) => l1.type = "table"
    BY <1>1, LinkType
  <2>4. PgdIdx(v) \in BootMapped => BootWords[PgdIdx(v)].type = "section"
    BY BootSectionLeads
  <2>5. PgdIdx(v) \notin BootMapped => BootWords[PgdIdx(v)] = JunkPgd
    BY <1>1, UnmappedSection
  <2>6. CASE l1.type = "section" /\ Fill(v, Resolve(v, l1, l1)) /\ UNCHANGED walk
    <3>1. tlb'[v] = Resolve(v, l1, l1)
      BY <1>1, <2>6 DEF Fill, TypeOK
    <3>2. l1 = BootWords[PgdIdx(v)]
      BY <2>2, <2>3, <2>6
    <3>3. CASE PgdIdx(v) \in BootMapped
      BY <1>3, <2>6, <3>1, <3>2, <3>3, BootSectionLeads
    <3>4. CASE PgdIdx(v) \notin BootMapped
      BY <1>3, <2>5, <2>6, <3>1, <3>2, <3>4 DEF FromJunk
    <3>5. QED
      BY <3>3, <3>4
  <2>7. CASE l1.type = "table" /\ walk' = [va |-> v, l1 |-> l1] /\ UNCHANGED tlb
    <3>1. walk'.l1 = l1
      BY <2>7
    <3>2. \/ PgdIdx(v) \in Linked /\ l1 = LinkDesc(PgdIdx(v))
          \/ PgdIdx(v) \notin BootMapped /\ l1 = JunkPgd
      BY <2>2, <2>4, <2>5, <2>7
    <3>3. QED
      BY <1>2, <1>3, <2>7, <3>1, <3>2
  <2>8. QED
    BY <1>5, <2>1, <2>6, <2>7 DEF WalkPgd
<1>6. QED
  BY <1>4, <1>5

LEMMA WalkPgtbWindow ==
    ASSUME LayoutFits, EntriesInPlace, LinksRight(DivSection..(PgdCnt - 1)),
           BootInvariant, WindowInvariant, WalkPgtb
    PROVE  WindowInvariant'
<1> SUFFICES ASSUME NEW v \in UpperPages
             PROVE  tlb'[v] # None => LeadsTo(tlb'[v], WindowPage(v)) \/ FromJunk(v, tlb'[v])
  BY DEF WindowInvariant, WalkPgtb
<1>1. v \in VPages /\ TypeOK
  BY DEF UpperPages, BootInvariant
<1>2. /\ tlb[v] # None => LeadsTo(tlb[v], WindowPage(v)) \/ FromJunk(v, tlb[v])
      /\ walk # None /\ walk.va = v =>
            \/ PgdIdx(v) \in Linked /\ walk.l1 = LinkDesc(PgdIdx(v))
            \/ PgdIdx(v) \notin BootMapped /\ walk.l1 = JunkPgd
  BY DEF WindowInvariant
<1>3. CASE walk.va # v
  BY <1>1, <1>2, <1>3, WalksOnePage
<1>4. CASE walk.va = v
  <2>1. PICK t : t = Resolve(v, walk.l1, mem[PgtbWord(walk.l1, v)])
    OBVIOUS
  <2>2. (Fill(v, t) \/ (t = Fault /\ UNCHANGED tlb)) /\ walk # None
    BY <1>4, <2>1 DEF WalkPgtb
  <2>3. Fill(v, t) => tlb'[v] = t /\ t # Fault
    BY <1>1 DEF Fill, TypeOK
  <2>4. CASE PgdIdx(v) \in Linked /\ walk.l1 = LinkDesc(PgdIdx(v))
    <3>1. t = Fault \/ LeadsTo(t, WindowPage(v))
      BY <2>1, <2>4, LinkWindow
    <3>2. QED
      BY <1>2, <2>2, <2>3, <3>1
  <2>5. CASE PgdIdx(v) \notin BootMapped /\ walk.l1 = JunkPgd
    <3>1. walk \in Walks
      BY <1>1, <2>2 DEF TypeOK
    <3>2. JunkPgd.type = "table"
      BY <2>5, <3>1 DEF Walks, Table
    <3>3. QED
      BY <1>2, <2>2, <2>3, <2>5, <3>2 DEF FromJunk
  <2>6. QED
    BY <1>2, <1>4, <2>2, <2>4, <2>5
<1>5. QED
  BY <1>3, <1>4

LEMMA NextWindow ==
    ASSUME LayoutFits, EntriesInPlace, LinksRight(DivSection..(PgdCnt - 1)),
           BootInvariant, WindowInvariant, [BootNext]_bootVars
    PROVE  WindowInvariant'
<1>1. Linked \subseteq Linked'
  BY LinksStay
<1>2. CASE BootStep
  <2>1. \/ UNCHANGED <<tlb, walk>>
        \/ walk' = None /\ \A v \in VPages : tlb'[v] = None
    BY <1>2 DEF BootStep, Enable, ClearTables, MapRegions, Barrier, LinkTables, Invalidate,
                move_high_sp, EnableMmu, InvalidateTlb, Dsb, NoStore, mmuVars, vars
  <2>2. QED
    BY <1>1, <2>1, CpuWindow
<1>3. CASE Hardware /\ UNCHANGED boot
  <2>1. ASSUME NEW w \in Words, Drain(w) PROVE WindowInvariant'
    <3>1. UNCHANGED <<tlb, walk>>
      BY <2>1 DEF Drain, mmuVars
    <3>2. QED
      BY <1>1, <3>1, CpuWindow
  <2>2. ASSUME NEW x \in VPages, Evict(x) PROVE WindowInvariant'
    <3>1. walk' = walk /\ \A v \in VPages : tlb'[v] \in {None, tlb[v]}
      BY <2>2 DEF Evict, BootInvariant, TypeOK
    <3>2. QED
      BY <1>1, <3>1, CpuWindow
  <2>3. QED
    BY <1>3, <2>1, <2>2, WalkPgdWindow, WalkPgtbWindow DEF Hardware
<1>4. CASE UNCHANGED bootVars
  BY <1>1, <1>4, CpuWindow DEF bootVars, vars
<1>5. QED
  BY <1>2, <1>3, <1>4 DEF BootNext

-----------------------------------------------------------------------------
(* The theorems.                                                               *)

(* While the sections under the running kernel give way to page tables, the    *)
(* directory, the tables, the TLB and a walk in flight stay as                 *)
(* HandoverInvariant says, whatever drains or walks in between.                *)
THEOREM HandoverHolds == HandoverLayout => (BootSpec => []HandoverInvariant)
<1>1. HandoverLayout => LayoutFits
  BY DEF HandoverLayout
<1>2. SUFFICES ASSUME HandoverLayout PROVE BootSpec => []HandoverInvariant
  OBVIOUS
<1>3. BootInit => HandoverInvariant
  BY <1>1, <1>2, InitHandover
<1>4. HandoverInvariant /\ [BootNext]_bootVars => HandoverInvariant'
  BY <1>1, <1>2, NextHandover, NextWalker DEF HandoverInvariant
<1>5. QED
  BY <1>3, <1>4, PTL DEF BootSpec

(* The kernel never loses the page it runs in: a walk for it finds it at every *)
(* moment of vexpress_init, and the TLB holds nothing else of it.              *)
THEOREM KernelAlwaysReachable == HandoverLayout => (BootSpec => []KernelReachable)
<1>1. SUFFICES ASSUME HandoverLayout PROVE BootSpec => []KernelReachable
  OBVIOUS
<1>2. ASSUME HandoverInvariant, NEW p \in InUse
      PROVE  /\ LeadsTo(Walked(phy_to_kvm(p)), p)
             /\ tlb[phy_to_kvm(p)] # None => LeadsTo(tlb[phy_to_kvm(p)], p)
  <2>1. p \in KernPages
    BY DEF InUse, KernPages
  <2>2. BootInvariant /\ WalkerInvariant
    BY <1>2 DEF HandoverInvariant
  <2>3. PICK v : v = phy_to_kvm(p)
    OBVIOUS
  <2>4. LeadsTo(Walked(v), p)
    BY <1>1, <2>1, <2>2, <2>3, WalkLeads
  <2>5. QED
    BY <2>1, <2>2, <2>3, <2>4 DEF WalkerInvariant
<1>3. HandoverInvariant => KernelReachable
  BY <1>2 DEF KernelReachable
<1>4. QED
  BY <1>1, <1>3, HandoverHolds, PTL

(* Until the page tables take over, every page of the image is reached in the  *)
(* kernel half through the sections of vexpress_boot_init, wherever the image  *)
(* begins in a section and wherever it ends, as long as the two parts of a     *)
(* section at its ends are not more than one section.                          *)
THEOREM SectionsAlwaysCover ==
    LayoutFits /\ SectionsSuffice => (BootSpec => []SectionsCoverKernel)
<1>1. SUFFICES ASSUME LayoutFits, SectionsSuffice PROVE BootSpec => []SectionsCoverKernel
  OBVIOUS
<1>2. ASSUME BootInvariant, boot.at \in {"enabled", "memset", "map", "dsb"},
             NEW p \in lmi_start..(k_end - 1)
      PROVE  LeadsTo(Walked(phy_to_kvm(p)), p)
  <2>1. PICK v : v = phy_to_kvm(p)
    OBVIOUS
  <2>2. p \in Window
    BY <1>1, ImageInWindow
  <2>3. Linked = {}
    BY <1>2 DEF Linked, After
  <2>4. mem[PgdWord(v)] = BootWords[PgdIdx(v)]
    BY <1>1, <1>2, <2>1, <2>2, <2>3, FirstLevel
  <2>5. BootWords[PgdIdx(v)].type = "section"
    BY <1>1, <2>1, SectionLeads
  <2>6. Walked(v) = Resolve(v, BootWords[PgdIdx(v)], BootWords[PgdIdx(v)])
    BY <2>4, <2>5 DEF Walked
  <2>7. QED
    BY <1>1, <2>1, <2>6, SectionLeads
<1>3. BootInvariant => SectionsCoverKernel
  BY <1>2 DEF SectionsCoverKernel
<1>4. QED
  BY <1>1, <1>3, BootInvariantHolds, PTL

(* Once the tables are built they hold every page of every region, each at its *)
(* own address, if the entries of the regions do not collide.                  *)
THEOREM RegionsAlwaysMapped ==
    LayoutFits /\ EntriesRight(MappedPages) => (BootSpec => []RegionsMapped)
<1>1. SUFFICES ASSUME LayoutFits, EntriesRight(MappedPages) PROVE BootSpec => []RegionsMapped
  OBVIOUS
<1>2. ASSUME BootInvariant, boot.at \in After, NEW k \in DOMAIN Mapped, NEW p \in Pages(Mapped[k])
      PROVE  mem[TabWord(phy_to_kvm(p))].type = "small" /\ mem[TabWord(phy_to_kvm(p))].addr = p
  <2>1. p \in MappedPages
    BY DEF MappedPages
  <2>2. QED
    BY <1>1, <1>2, <2>1, EntryIsThere
<1>3. BootInvariant => RegionsMapped
  BY <1>2 DEF RegionsMapped, TabWord, After
<1>4. QED
  BY <1>1, <1>3, BootInvariantHolds, PTL

(* Of what the memory of the page tables held before, the walker never makes a *)
(* translation: whatever drains and walks in between, the TLB holds, in the    *)
(* kernel half, pages at their own address or what k_pgd was left with, and    *)
(* the tables of kernel_init nothing else than pages at their own address.     *)
THEOREM NothingButTheWindow ==
    LayoutFits /\ EntriesInPlace /\ LinksRight(DivSection..(PgdCnt - 1)) => (BootSpec => []OnlyTheWindow)
<1>1. SUFFICES ASSUME LayoutFits, EntriesInPlace, LinksRight(DivSection..(PgdCnt - 1))
               PROVE  BootSpec => []OnlyTheWindow
  OBVIOUS
<1>2. BootInit => WindowInvariant
  BY DEF BootInit, Booting, WindowInvariant, UpperPages
<1>3. BootInvariant /\ WindowInvariant /\ [BootNext]_bootVars => WindowInvariant'
  BY <1>1, NextWindow
<1>4. ASSUME BootInvariant, WindowInvariant, At("kernel_init"), Drained, NEW v \in UpperPages
      PROVE  Walked(v) = Fault \/ LeadsTo(Walked(v), WindowPage(v))
  <2>1. PgdIdx(v) \in DivSection..(PgdCnt - 1)
    BY <1>1, UpperPage DEF LayoutFits
  <2>2. PgdIdx(v) \in Linked
    BY <1>4, <2>1 DEF Linked, At, After
  <2>3. PgdWord(v) = <<BootPgd, PgdIdx(v)>> /\ <<BootPgd, PgdIdx(v)>> \in Words
    BY <1>1, <1>4, <2>1, TabWordsAreWords DEF PgdWord, PgdOf, BootInvariant, BootOrder
  <2>4. Load(<<BootPgd, PgdIdx(v)>>) = LinkDesc(PgdIdx(v))
    BY <1>4, <2>1, <2>2 DEF BootInvariant, DirectoryInvariant
  <2>5. mem[PgdWord(v)] = LinkDesc(PgdIdx(v))
    BY <1>4, <2>3, <2>4 DEF Load, Drained
  <2>6. LinkDesc(PgdIdx(v)).type = "table"
    BY <1>1, <2>1, LinkType
  <2>7. PICK t : t = Resolve(v, LinkDesc(PgdIdx(v)), mem[PgtbWord(LinkDesc(PgdIdx(v)), v)])
    OBVIOUS
  <2>8. Walked(v) = t
    BY <2>5, <2>6, <2>7 DEF Walked
  <2>9. QED
    BY <1>1, <1>4, <2>2, <2>7, <2>8, LinkWindow
<1>5. BootInvariant /\ WindowInvariant => OnlyTheWindow
  BY <1>4 DEF OnlyTheWindow, WindowInvariant
<1>6. BootSpec => []BootInvariant
  BY <1>1, BootInvariantHolds
<1>7. QED
  BY <1>2, <1>3, <1>5, <1>6, PTL DEF BootSpec

-----------------------------------------------------------------------------
(* Layouts aligned as `|' needs.                                               *)

\* The window starts at or below every region.
LEMMA RegionsInWindow ==
    ASSUME PgDiv > 0, NEW k \in 1..5
    PROVE  Mapped[k].base - kp_start \in Nat
<1>1. /\ Mapped[1] = kinit_reg /\ Mapped[2] = kern_reg /\ Mapped[3] = kstack_reg
      /\ Mapped[4] = mmu_pgtb_reg /\ Mapped[5] = mmu_pgd_reg
  BY DEF Mapped
<1>2. /\ kinit_reg.base = hmi_start /\ kern_reg.base = k_start /\ kstack_reg.base = k_stack - 1
      /\ mmu_pgtb_reg.base = (k_end \div PgtbCnt + 1) * PgtbCnt /\ mmu_pgd_reg.base = k_pgd
  BY DEF kinit_reg, kern_reg, kstack_reg, mmu_pgtb_reg, mmu_pgd_reg, Region
<1>3. kp_start <= k_pgd
  BY LayoutAssumption
<1>4. (k_end \div PgtbCnt + 1) * PgtbCnt \in Nat /\ kp_start <= (k_end \div PgtbCnt + 1) * PgtbCnt
  <2> DEFINE q == k_end \div PgtbCnt
  <2>1. q \in Nat /\ k_end = q * PgtbCnt + (k_end % PgtbCnt) /\ k_end % PgtbCnt \in 0..(PgtbCnt - 1)
    BY Layout, DivMod
  <2> HIDE DEF q
  <2>2. (q + 1) * PgtbCnt = q * PgtbCnt + PgtbCnt /\ q * PgtbCnt \in Nat
    BY <2>1, Layout
  <2>3. (q + 1) * PgtbCnt \in Nat /\ k_end <= (q + 1) * PgtbCnt
    BY <2>1, <2>2, Layout
  <2>4. QED
    BY <2>3, Layout DEF q
<1>5. k = 1 \/ k = 2 \/ k = 3 \/ k = 4 \/ k = 5
  OBVIOUS
<1>6. QED
  BY <1>1, <1>2, <1>3, <1>4, <1>5, Layout

(* Every entry is stored for its own page.                                     *)
LEMMA AlignedEntry ==
    ASSUME LayoutFits, AlignedLayout, NEW r \in Rounds
    PROVE  /\ EntryOf(r).phy = Mapped[r[1]].base + r[2]
           /\ EntryOf(r).phy \in Window
           /\ EntryWord(r) = TabWord(phy_to_kvm(EntryOf(r).phy))
<1>1. PgDiv > 0
  BY DEF LayoutFits
<1>2. PICK k, i : k = r[1] /\ i = r[2]
  OBVIOUS
<1>3. k \in 1..5 /\ i \in Nat /\ PgCnt(Mapped[k].size) \in Nat /\ i \in 0..(PgCnt(Mapped[k].size) - 1)
  BY <1>1, <1>2, MappedRegions, RoundIs
<1>4. PICK b, n : b = Mapped[k].base /\ n = b - kp_start + i
  OBVIOUS
<1>5. b \in Nat /\ b - kp_start \in Nat /\ kp_start \in Nat /\ DivSection \in Nat /\ PgtbCnt \in Nat \ {0}
  BY <1>1, <1>3, <1>4, MappedRegions, RegionsInWindow, Layout
<1>6. BitOr(b, i) = b + i /\ BitOr(b - kp_start, i) = n
  BY <1>1, <1>3, <1>4, MappedRegions DEF AlignedLayout, OrAdds
<1>7. n \in Nat /\ b + i = kp_start + n
  BY <1>3, <1>4, <1>5
<1>8. n < KernPgtbs * PgtbCnt
  <2>1. b - kp_start + PgCnt(Mapped[k].size) <= KernPgtbs * PgtbCnt
    BY <1>1, <1>3, <1>4, MappedRegions DEF AlignedLayout
  <2>2. KernPgtbs * PgtbCnt \in Nat
    BY <1>1, Layout
  <2>3. QED
    BY <1>3, <1>4, <1>5, <2>1, <2>2
<1>9. PICK p : p = kp_start + n
  OBVIOUS
<1>10. p \in Window /\ p - kp_start = n
  <2>1. KernPgtbs * PgtbCnt \in Nat
    BY <1>1, Layout
  <2>2. QED
    BY <1>5, <1>7, <1>8, <1>9, <2>1 DEF Window
<1>11. EntryOf(r).phy = p /\ EntryOf(r).va = KernPage(n)
  BY <1>2, <1>4, <1>6, <1>7, <1>9 DEF EntryOf, MapEntry
<1>12. PICK v : v = phy_to_kvm(p)
  OBVIOUS
<1>13. v = KernPage(n) /\ PgdIdx(v) = DivSection + n \div PgtbCnt
  BY <1>10, <1>12 DEF phy_to_kvm, KernPage, PgdIdx
<1>14. n \div PgtbCnt < KernPgtbs /\ n \div PgtbCnt \in Nat
  <2>1. LayoutFits /\ PgdIdx(v) \in DivSection..(PgdCnt - 1)
    BY <1>10, <1>12, KernelHalf
  <2>2. n \div PgtbCnt \in Nat
    BY <1>5, <1>7, DivMod
  <2>3. QED
    BY <1>1, <1>5, <1>13, <2>1, <2>2, Layout
<1>15. MapTable(Mapped[k], i) = TabBase + PgdIdx(v) - DivSection
  <2>1. MapTable(Mapped[k], i) = BitOr(TabBase, n \div PgtbCnt)
    BY <1>4 DEF MapTable
  <2>2. n \div PgtbCnt \in 0..(KernPgtbs - 1)
    BY <1>1, <1>14, Layout
  <2>3. BitOr(TabBase, n \div PgtbCnt) = TabBase + n \div PgtbCnt
    BY <2>2 DEF AlignedLayout, OrAdds
  <2>4. TabBase \in Nat
    BY <1>1, TabBaseNat
  <2>5. QED
    BY <1>5, <1>13, <1>14, <2>1, <2>3, <2>4
<1>16. EntryWord(r) = TabWord(v)
  BY <1>2, <1>11, <1>13, <1>15 DEF EntryWord, TabWord
<1>17. QED
  BY <1>2, <1>4, <1>7, <1>9, <1>10, <1>11, <1>12, <1>16

LEMMA AlignedEntries ==
    ASSUME LayoutFits, AlignedLayout
    PROVE  EntriesInPlace /\ EntriesRight(MappedPages) /\ LinksRight(DivSection..(PgdCnt - 1))
<1>1. PgDiv > 0
  BY DEF LayoutFits
<1>2. EntriesInPlace
  BY AlignedEntry DEF EntriesInPlace, Window
<1>3. ASSUME NEW k \in DOMAIN Mapped, NEW p \in Pages(Mapped[k])
      PROVE  /\ \E r \in Rounds : EntryWord(r) = TabWord(phy_to_kvm(p))
             /\ \A r \in Rounds : EntryWord(r) = TabWord(phy_to_kvm(p)) => EntryOf(r).phy = p
  <2>1. /\ k \in 1..5 /\ Mapped[k].base \in Nat /\ Mapped[k].size \in Nat
        /\ PgCnt(Mapped[k].size) \in Nat /\ Mapped[k].size <= PgCnt(Mapped[k].size)
    BY <1>1, MappedRegions
  <2>2. PICK i \in 0..(Mapped[k].size - 1) : p = Mapped[k].base + i
    <3>1. p - Mapped[k].base \in 0..(Mapped[k].size - 1) /\ p = Mapped[k].base + (p - Mapped[k].base)
      BY <2>1 DEF Pages
    <3>2. QED
      BY <3>1
  <2>3. PICK r : r = <<k, i>>
    OBVIOUS
  <2>4. i \in 0..(PgCnt(Mapped[k].size) - 1)
    BY <2>1, <2>2
  <2>5. r \in Rounds
    BY <2>3, <2>4, RoundIs
  <2>6. EntryOf(r).phy = p /\ p \in Window /\ EntryWord(r) = TabWord(phy_to_kvm(p))
    BY <2>2, <2>3, <2>5, AlignedEntry
  <2>7. ASSUME NEW q \in Rounds, EntryWord(q) = TabWord(phy_to_kvm(p)) PROVE EntryOf(q).phy = p
    <3>1. PICK o : o = EntryOf(q).phy
      OBVIOUS
    <3>2. o \in Window /\ TabWord(phy_to_kvm(o)) = TabWord(phy_to_kvm(p))
      BY <2>7, <3>1, AlignedEntry
    <3>3. PICK v : v = phy_to_kvm(p)
      OBVIOUS
    <3>4. PICK s, x : s = PgdIdx(v) /\ x = PgtbIdx(v)
      OBVIOUS
    <3>5. /\ s \in DivSection..(PgdCnt - 1) /\ x \in 0..(PgtbCnt - 1)
          /\ p = kp_start + (s - DivSection) * PgtbCnt + x
      BY <2>6, <3>3, <3>4, KernelHalf
    <3>6. TabWord(phy_to_kvm(o)) = <<TabBase + s - DivSection, x>>
      BY <3>2, <3>3, <3>4 DEF TabWord
    <3>7. o = kp_start + (s - DivSection) * PgtbCnt + x
      BY <1>1, <3>2, <3>5, <3>6, TabBaseNat, OwnWord
    <3>8. QED
      BY <3>1, <3>5, <3>7
  <2>8. QED
    BY <2>5, <2>6, <2>7
<1>4. EntriesRight(MappedPages)
  BY <1>3 DEF EntriesRight, MappedPages
<1>5. ASSUME NEW s \in DivSection..(PgdCnt - 1)
      PROVE  LinkDesc(s).addr = TabBase + s - DivSection
  <2>1. PICK j : j = s - DivSection
    OBVIOUS
  <2>2. j \in 0..(KernPgtbs - 1) /\ TabBase + s - DivSection = TabBase + j
    BY <1>1, <2>1, TabBaseNat, Layout
  <2>3. LinkDesc(s) = PgdDesc(LinkEntry(j))
    BY <2>1 DEF LinkDesc
  <2>4. LinkDesc(s).addr = BitOr(TabBase, j)
    BY <2>3 DEF PgdDesc, LinkEntry
  <2>5. BitOr(TabBase, j) = TabBase + j
    BY <2>2 DEF AlignedLayout, OrAdds
  <2>6. QED
    BY <2>2, <2>4, <2>5
<1>6. QED
  BY <1>2, <1>4, <1>5 DEF LinksRight

(* With every base aligned to the rounded size of its region, the boot keeps   *)
(* all it promises of the kernel half.                                         *)
THEOREM AlignedBoot ==
    LayoutFits /\ SectionsSuffice /\ AlignedLayout =>
        (BootSpec => [](HandoverInvariant /\ KernelReachable /\ RegionsMapped /\ OnlyTheWindow))
<1>1. SUFFICES ASSUME LayoutFits, SectionsSuffice, AlignedLayout
               PROVE  BootSpec => [](HandoverInvariant /\ KernelReachable /\ RegionsMapped /\ OnlyTheWindow)
  OBVIOUS
<1>2. EntriesInPlace /\ EntriesRight(MappedPages) /\ LinksRight(DivSection..(PgdCnt - 1))
  BY <1>1, AlignedEntries
<1>3. KernPages \subseteq MappedPages
  <2>1. /\ kinit_reg = Mapped[1] /\ kern_reg = Mapped[2] /\ kstack_reg = Mapped[3]
        /\ {1, 2, 3} \subseteq DOMAIN Mapped
    BY DEF Mapped
  <2>2. QED
    BY <2>1 DEF KernPages, MappedPages
<1>4. \A p \in KernPages : PgdIdx(phy_to_kvm(p)) \in DivSection..(PgdCnt - 1)
  BY <1>1, KernelPages, KernelHalf
<1>5. EntriesRight(KernPages) /\ LinksRight({PgdIdx(phy_to_kvm(p)) : p \in KernPages})
  BY <1>2, <1>3, <1>4 DEF EntriesRight, LinksRight
<1>6. HandoverLayout
  BY <1>1, <1>5 DEF HandoverLayout
<1>7. QED
  BY <1>1, <1>2, <1>6, HandoverHolds, KernelAlwaysReachable, RegionsAlwaysMapped,
     NothingButTheWindow, PTL
=============================================================================
