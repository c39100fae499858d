----------------------- MODULE PageEnvironment_proofs -----------------------
(***************************************************************************)
(* Lemmas about the script and the batch of commands of a workspace, for   *)
(* any settings.                                                           *)
(***************************************************************************)
EXTENDS PageEnvironment, SequenceTheorems, WellFoundedInduction, TLAPS

-----------------------------------------------------------------------------
(***************************************************************************)
(* Least and greatest elements.                                            *)
(***************************************************************************)

\* A set of naturals that is not empty has a least element.
LEMMA Least ==
  ASSUME NEW S, S \subseteq Nat, S # {}
  PROVE  \E m \in S : \A n \in S : m <= n
<1> DEFINE R == OpToRel(<, Nat)
<1>1. IsWellFoundedOn(R, Nat)
  BY NatLessThanWellFounded
<1>2. \A x, y \in Nat : x < y => <<x, y>> \in R
  BY DEF OpToRel
<1> HIDE DEF R
<1>3. PICK m \in S : \A y \in S : ~(<<y, m>> \in R)
  BY <1>1, WFMin
<1>4. ASSUME NEW n \in S PROVE m <= n
  <2>1. m \in Nat /\ n \in Nat /\ ~(n < m)
    BY <1>2, <1>3
  <2> QED
    BY <2>1
<1> QED
  BY <1>4

\* A set of positions that is not empty has a last one.
LEMMA Greatest ==
  ASSUME NEW S, NEW n \in Nat, S \subseteq 1 .. n, S # {}
  PROVE  \E m \in S : \A k \in S : k <= m
<1> DEFINE T == {n - k : k \in S}
<1>1. \A k \in S : k \in Nat /\ k <= n
  OBVIOUS
<1>2. T \subseteq Nat
  BY <1>1
<1>3. T # {}
  OBVIOUS
<1>4. PICK t \in T : \A u \in T : t <= u
  BY <1>2, <1>3, Least
<1>5. PICK m \in S : t = n - m
  OBVIOUS
<1>6. ASSUME NEW k \in S PROVE k <= m
  <2>1. n - m <= n - k
    BY <1>4, <1>5
  <2> QED
    BY <1>1, <2>1
<1> QED
  BY <1>6

-----------------------------------------------------------------------------
(***************************************************************************)
(* What a script leaves defined.                                           *)
(***************************************************************************)

\* Properties that are made final by statements within try.
Guarded == {"platform", "hardwareConcurrency", "userAgent", "screen"}

\* What the literals of the platform and of the time zone read.
PlatformRead(w) == Literal(JsPlatform(w["platform"]))
ZoneRead(w) == Literal(EscapeQuotes(w["timezone"]))

\* A statement of the script of w: it defines what w says, and what may have
\* been made final before is defined within try.
Agrees(w, x) ==
  /\ x.final => x.prop \in Guarded \cup {"mediaDevices"}
  /\ x.prop \in Guarded => x.caught
  /\ x.prop = "platform" => x.value = PlatformRead(w)
  /\ x.prop = "hardwareConcurrency" /\ w["hardware_concurrency"] > 0 =>
       x.value = w["hardware_concurrency"]
  /\ x.prop = "userAgent" => x.value = w["user_agent"]
  /\ x.prop = "screen" /\ BothPositive(w) =>
       x.value = <<w["screen_width"], w["screen_height"]>>
  /\ x.prop = "resolvedOptions" => x.value = ZoneRead(w)
  /\ x.prop = "timezoneOffset" => x.value = TableOffset(ZoneRead(w))
  /\ x.prop = "prefersDark" => x.value = (w["color_scheme"] = "dark")
  /\ x.prop = "connection" => x.value = "4g"
  /\ x.prop = "unmaskedVendor" => x.value = w["gpu_vendor"]

Defines(s, p) == \E i \in 1 .. Len(s) : s[i].prop = p

\* A sequence of such statements.
Agreeing(w, s) == \E T : s \in Seq(T) /\ \A x \in T : Agrees(w, x)

\* One that leaves mediaDevices alone, and one that defines it at most once.
Part(w, s) == Agreeing(w, s) /\ ~Defines(s, "mediaDevices")

Script(w, s) ==
  /\ Agreeing(w, s)
  /\ \A i, j \in 1 .. Len(s) :
       s[i].prop = "mediaDevices" /\ s[j].prop = "mediaDevices" => i = j

\* Sequences over statements that all agree with w.
LEMMA AgreeingIntro ==
  ASSUME NEW w, NEW T, NEW s \in Seq(T), \A x \in T : Agrees(w, x)
  PROVE  Agreeing(w, s)
BY DEF Agreeing

\* The statements of such a sequence, one by one.
LEMMA AgreeingElements ==
  ASSUME NEW w, NEW s, Agreeing(w, s)
  PROVE  Len(s) \in Nat /\ \A i \in 1 .. Len(s) : Agrees(w, s[i])
<1>1. PICK T : s \in Seq(T) /\ \A x \in T : Agrees(w, x)
  BY DEF Agreeing
<1>2. Len(s) \in Nat /\ \A i \in 1 .. Len(s) : s[i] \in T
  BY <1>1
<1> QED
  BY <1>1, <1>2

\* What stands where in s \o t.
Joined(s, t) ==
  /\ Len(s) \in Nat /\ Len(t) \in Nat /\ Len(s \o t) = Len(s) + Len(t)
  /\ \A i \in 1 .. Len(s) : (s \o t)[i] = s[i]
  /\ \A i \in 1 .. Len(t) : (s \o t)[Len(s) + i] = t[i]
  /\ \A i \in 1 .. Len(s \o t) :
       i \in 1 .. Len(s) \/ \E k \in 1 .. Len(t) : i = Len(s) + k

\* Two such sequences, one after the other.
LEMMA AgreeingJoin ==
  ASSUME NEW w, NEW s, NEW t, Agreeing(w, s), Agreeing(w, t)
  PROVE  /\ Agreeing(w, s \o t)
         /\ Joined(s, t)
<1>1. PICK S : s \in Seq(S) /\ \A x \in S : Agrees(w, x)
  BY DEF Agreeing
<1>2. PICK T : t \in Seq(T) /\ \A x \in T : Agrees(w, x)
  BY DEF Agreeing
<1> DEFINE U == S \cup T
<1>3. s \in Seq(U) /\ t \in Seq(U)
  BY <1>1, <1>2
<1>4. \A x \in U : Agrees(w, x)
  BY <1>1, <1>2
<1> HIDE DEF U
<1>5. /\ s \o t \in Seq(U) /\ Len(s \o t) = Len(s) + Len(t)
      /\ \A i \in 1 .. Len(s) + Len(t) :
           (s \o t)[i] = IF i <= Len(s) THEN s[i] ELSE t[i - Len(s)]
  BY <1>3, ConcatProperties
<1>6. Len(s) \in Nat /\ Len(t) \in Nat
  BY <1>3
<1>7. Agreeing(w, s \o t)
  BY <1>4, <1>5 DEF Agreeing
<1>8. \A i \in 1 .. Len(s) : (s \o t)[i] = s[i]
  BY <1>5, <1>6
<1>9. ASSUME NEW i \in 1 .. Len(t) PROVE (s \o t)[Len(s) + i] = t[i]
  <2>1. Len(s) + i \in 1 .. Len(s) + Len(t) /\ ~(Len(s) + i <= Len(s)) /\ (Len(s) + i) - Len(s) = i
    BY <1>6
  <2> QED
    BY <1>5, <2>1
<1>10. ASSUME NEW i \in 1 .. Len(s \o t), i \notin 1 .. Len(s)
       PROVE  \E k \in 1 .. Len(t) : i = Len(s) + k
  <2>1. i - Len(s) \in 1 .. Len(t) /\ i = Len(s) + (i - Len(s))
    BY <1>5, <1>6, <1>10
  <2> QED
    BY <2>1
<1> QED
  BY <1>5, <1>6, <1>7, <1>8, <1>9, <1>10 DEF Joined

\* What either of two sequences defines, both together define, and no more.
LEMMA DefinesJoin ==
  ASSUME NEW w, NEW s, NEW t, Agreeing(w, s), Agreeing(w, t), NEW p
  PROVE  Defines(s \o t, p) <=> Defines(s, p) \/ Defines(t, p)
<1>1. Joined(s, t)
  BY AgreeingJoin
<1> USE DEF Joined
<1>2. ASSUME NEW i \in 1 .. Len(s), s[i].prop = p PROVE Defines(s \o t, p)
  <2>1. i \in 1 .. Len(s \o t) /\ (s \o t)[i].prop = p
    BY <1>1, <1>2
  <2> QED
    BY <2>1 DEF Defines
<1>3. ASSUME NEW i \in 1 .. Len(t), t[i].prop = p PROVE Defines(s \o t, p)
  <2>1. Len(s) + i \in 1 .. Len(s \o t) /\ (s \o t)[Len(s) + i].prop = p
    BY <1>1, <1>3
  <2> QED
    BY <2>1 DEF Defines
<1>4. ASSUME NEW i \in 1 .. Len(s \o t), (s \o t)[i].prop = p
      PROVE  Defines(s, p) \/ Defines(t, p)
  <2>1. CASE i \in 1 .. Len(s)
    BY <1>1, <1>4, <2>1 DEF Defines
  <2>2. CASE \E k \in 1 .. Len(t) : i = Len(s) + k
    BY <1>1, <1>4, <2>2 DEF Defines
  <2> QED
    BY <1>1, <2>1, <2>2
<1> QED
  BY <1>2, <1>3, <1>4 DEF Defines

\* Two parts, one after the other.
LEMMA PartJoin ==
  ASSUME NEW w, NEW s, NEW t, Part(w, s), Part(w, t)
  PROVE  Part(w, s \o t) /\ \A p : Defines(s \o t, p) <=> Defines(s, p) \/ Defines(t, p)
<1>1. Agreeing(w, s) /\ Agreeing(w, t)
  BY DEF Part
<1>2. Agreeing(w, s \o t)
  BY <1>1, AgreeingJoin
<1>3. \A p : Defines(s \o t, p) <=> Defines(s, p) \/ Defines(t, p)
  BY <1>1, DefinesJoin
<1> QED
  BY <1>2, <1>3 DEF Part

\* A part in front of a script, or behind it, leaves a script.
LEMMA ScriptJoin ==
  ASSUME NEW w, NEW s, NEW t,
         \/ Script(w, s) /\ Part(w, t)
         \/ Part(w, s) /\ Script(w, t)
  PROVE  Script(w, s \o t) /\ \A p : Defines(s \o t, p) <=> Defines(s, p) \/ Defines(t, p)
<1>1. Agreeing(w, s) /\ Agreeing(w, t)
  BY DEF Part, Script
<1>2. Agreeing(w, s \o t) /\ Joined(s, t)
  BY <1>1, AgreeingJoin
<1>3. \A p : Defines(s \o t, p) <=> Defines(s, p) \/ Defines(t, p)
  BY <1>1, DefinesJoin
<1> USE DEF Joined
<1> DEFINE M(x, i) == x[i].prop = "mediaDevices"
<1>4. ASSUME NEW i \in 1 .. Len(s \o t), NEW j \in 1 .. Len(s \o t), M(s \o t, i), M(s \o t, j)
      PROVE  i = j
  <2>1. CASE Script(w, s) /\ Part(w, t)
    <3>1. \A k \in 1 .. Len(t) : ~M(t, k)
      BY <2>1 DEF Part, Defines
    <3>2. i \in 1 .. Len(s) /\ j \in 1 .. Len(s)
      BY <1>2, <1>4, <3>1
    <3> QED
      BY <1>2, <1>4, <2>1, <3>2 DEF Script
  <2>2. CASE Part(w, s) /\ Script(w, t)
    <3>1. \A k \in 1 .. Len(s) : ~M(s, k)
      BY <2>2 DEF Part, Defines
    <3>2. i \notin 1 .. Len(s) /\ j \notin 1 .. Len(s)
      BY <1>2, <1>4, <3>1
    <3>3. PICK k \in 1 .. Len(t) : i = Len(s) + k
      BY <1>2, <3>2
    <3>4. PICK l \in 1 .. Len(t) : j = Len(s) + l
      BY <1>2, <3>2
    <3>5. M(t, k) /\ M(t, l)
      BY <1>2, <1>4, <3>3, <3>4
    <3>6. k = l
      BY <2>2, <3>5 DEF Script
    <3> QED
      BY <3>3, <3>4, <3>6
  <2> QED
    BY <2>1, <2>2
<1> QED
  BY <1>2, <1>3, <1>4 DEF Script

\* A single statement.
LEMMA OnePart ==
  ASSUME NEW w, NEW x, Agrees(w, x), x.prop # "mediaDevices"
  PROVE  Part(w, <<x>>) /\ \A p : Defines(<<x>>, p) <=> p = x.prop
<1> DEFINE T == {x}
           s == <<x>>
<1>1. s \in Seq(T) /\ Len(s) = 1 /\ s[1] = x
  OBVIOUS
<1>2. \A y \in T : Agrees(w, y)
  OBVIOUS
<1> HIDE DEF T, s
<1>3. Agreeing(w, s)
  BY <1>1, <1>2, AgreeingIntro
<1>4. \A p : Defines(s, p) <=> p = x.prop
  BY <1>1 DEF Defines
<1>5. Part(w, s)
  BY <1>3, <1>4 DEF Part
<1> QED
  BY <1>4, <1>5 DEF s

\* A part that is left out when its condition fails.
LEMMA WhenPart ==
  ASSUME NEW w, NEW s, NEW cond, cond => Part(w, s)
  PROVE  Part(w, When(cond, s)) /\ (cond => When(cond, s) = s)
<1>1. Part(w, <<>>)
  <2> DEFINE T == {}
             e == <<>>
  <2>1. e \in Seq(T) /\ Len(e) = 0
    OBVIOUS
  <2>2. \A y \in T : Agrees(w, y)
    OBVIOUS
  <2> HIDE DEF T, e
  <2>3. Agreeing(w, e)
    BY <2>1, <2>2, AgreeingIntro
  <2>4. Part(w, e)
    BY <2>1, <2>3 DEF Part, Defines
  <2> QED
    BY <2>4 DEF e
<1>2. CASE cond
  BY <1>2 DEF When
<1>3. CASE ~cond
  BY <1>1, <1>3 DEF When
<1> QED
  BY <1>2, <1>3

\* What the workspace has a say in; any other property may get any value.
Claimed == Guarded \cup {"mediaDevices", "resolvedOptions", "timezoneOffset",
                         "prefersDark", "connection", "unmaskedVendor"}

\* A single definition, assignment or final definition that agrees.
LEMMA StatementPart ==
  ASSUME NEW w, NEW p, NEW v, p # "mediaDevices"
  PROVE  /\ Agrees(w, [prop |-> p, value |-> v, final |-> TRUE, caught |-> TRUE]) =>
              Part(w, Final(p, v)) /\ \A q : Defines(Final(p, v), q) <=> q = p
         /\ Agrees(w, [prop |-> p, value |-> v, final |-> FALSE, caught |-> TRUE]) =>
              Part(w, Define(p, v)) /\ \A q : Defines(Define(p, v), q) <=> q = p
         /\ Agrees(w, [prop |-> p, value |-> v, final |-> FALSE, caught |-> FALSE]) =>
              Part(w, Assign(p, v)) /\ \A q : Defines(Assign(p, v), q) <=> q = p
<1> DEFINE x(f, c) == [prop |-> p, value |-> v, final |-> f, caught |-> c]
<1>1. /\ Final(p, v) = <<x(TRUE, TRUE)>>
      /\ Define(p, v) = <<x(FALSE, TRUE)>>
      /\ Assign(p, v) = <<x(FALSE, FALSE)>>
  BY DEF Final, Define, Assign
<1>2. x(TRUE, TRUE).prop = p /\ x(FALSE, TRUE).prop = p /\ x(FALSE, FALSE).prop = p
  OBVIOUS
<1> HIDE DEF x
<1>3. ASSUME NEW f, NEW c, Agrees(w, x(f, c)), x(f, c).prop = p
      PROVE  Part(w, <<x(f, c)>>) /\ \A q : Defines(<<x(f, c)>>, q) <=> q = p
  BY <1>3, OnePart
<1> QED
  BY <1>1, <1>2, <1>3 DEF x

\* A statement about a property the workspace has no say in.
LEMMA OtherPart ==
  ASSUME NEW w, NEW p, NEW v, p \notin Claimed
  PROVE  Part(w, Define(p, v)) /\ Part(w, Assign(p, v))
<1>1. Agrees(w, [prop |-> p, value |-> v, final |-> FALSE, caught |-> TRUE])
  BY DEF Agrees, Claimed, Guarded
<1>2. Agrees(w, [prop |-> p, value |-> v, final |-> FALSE, caught |-> FALSE])
  BY DEF Agrees, Claimed, Guarded
<1>3. p # "mediaDevices"
  BY DEF Claimed
<1> QED
  BY <1>1, <1>2, <1>3, StatementPart

-----------------------------------------------------------------------------
\* A script leaves a property with the value on which all its definitions
\* agree: the first of them takes effect, since nothing ends the script, and so
\* does the last.
LEMMA Seen ==
  ASSUME NEW w, NEW s, Script(w, s), NEW p, NEW v, Defines(s, p),
         \A i \in 1 .. Len(s) : s[i].prop = p => s[i].value = v
  PROVE  p \in DOMAIN Evaluate(s) /\ Evaluate(s)[p] = v
<1>1. Len(s) \in Nat /\ \A i \in 1 .. Len(s) : Agrees(w, s[i])
  BY AgreeingElements DEF Script
<1>2. ASSUME NEW i \in 1 .. Len(s), Fails(s, i)
      PROVE  s[i].caught
  <2>1. PICK j \in 1 .. i - 1 : s[j].prop = s[i].prop /\ s[j].final
    BY <1>2 DEF Fails
  <2>2. j \in 1 .. Len(s) /\ j # i
    BY <1>1
  <2>3. s[i].prop # "mediaDevices"
    BY <2>1, <2>2 DEF Script
  <2>4. Agrees(w, s[j]) /\ Agrees(w, s[i])
    BY <1>1, <2>2
  <2>5. s[i].prop \in Guarded
    BY <2>1, <2>3, <2>4 DEF Agrees
  <2> QED
    BY <2>4, <2>5 DEF Agrees
<1>3. \A i \in 1 .. Len(s) : i \in Effective(s) <=> ~Fails(s, i)
  BY <1>1, <1>2 DEF Effective
<1> DEFINE P == {i \in 1 .. Len(s) : s[i].prop = p}
<1>4. P \subseteq Nat /\ P # {}
  BY <1>1 DEF Defines
<1>5. PICK first \in P : \A k \in P : first <= k
  BY <1>4, Least
<1>6. ~Fails(s, first)
  <2>1. SUFFICES ASSUME NEW j \in 1 .. first - 1, s[j].prop = s[first].prop
                 PROVE  FALSE
    BY DEF Fails
  <2>2. j \in P
    BY <1>1, <2>1
  <2> QED
    BY <1>5, <2>2
<1> DEFINE D == Definitions(s, p)
<1>7. first \in D
  BY <1>3, <1>6 DEF Definitions
<1>8. D \subseteq 1 .. Len(s) /\ \A i \in D : i \in Effective(s) /\ s[i].prop = p
  BY DEF Definitions, Effective
<1>9. \E m \in D : \A k \in D : k <= m
  BY <1>1, <1>7, <1>8, Greatest
<1>10. LastDefinition(s, p) \in D
  BY <1>9 DEF LastDefinition
<1>11. s[LastDefinition(s, p)].value = v
  BY <1>8, <1>10
<1>12. p \in {s[i].prop : i \in Effective(s)}
  BY <1>7, <1>8
<1> QED
  BY <1>11, <1>12 DEF Evaluate

-----------------------------------------------------------------------------
(***************************************************************************)
(* The parts of the script.                                                *)
(***************************************************************************)

\* The injector's own overrides.
LEMMA NavigatorPart ==
  ASSUME NEW w
  PROVE  /\ Part(w, GenerateNavigatorOverrides(w))
         /\ Defines(GenerateNavigatorOverrides(w), "platform")
         /\ Defines(GenerateNavigatorOverrides(w), "hardwareConcurrency")
         /\ w["user_agent"] # "" => Defines(GenerateNavigatorOverrides(w), "userAgent")
<1> DEFINE n == IF w["hardware_concurrency"] > 0 THEN w["hardware_concurrency"] ELSE 4
           a == Final("platform", PlatformRead(w))
           b == Final("hardwareConcurrency", n)
           c == Final("userAgent", w["user_agent"])
           d == When(w["user_agent"] # "", c)
<1>1. Part(w, a) /\ Defines(a, "platform")
  <2>1. Agrees(w, [prop |-> "platform", value |-> PlatformRead(w),
                   final |-> TRUE, caught |-> TRUE])
    BY DEF Agrees, Guarded
  <2> QED
    BY <2>1, StatementPart
<1>2. Part(w, b) /\ Defines(b, "hardwareConcurrency")
  <2>1. Agrees(w, [prop |-> "hardwareConcurrency", value |-> n, final |-> TRUE, caught |-> TRUE])
    BY DEF Agrees, Guarded
  <2> HIDE DEF n
  <2> QED
    BY <2>1, StatementPart
<1>3. Part(w, c) /\ Defines(c, "userAgent")
  <2>1. Agrees(w, [prop |-> "userAgent", value |-> w["user_agent"],
                   final |-> TRUE, caught |-> TRUE])
    BY DEF Agrees, Guarded
  <2> QED
    BY <2>1, StatementPart
<1> HIDE DEF a, b, c
<1>4. Part(w, d) /\ (w["user_agent"] # "" => Defines(d, "userAgent"))
  BY <1>3, WhenPart
<1> HIDE DEF d
<1> DEFINE ab == a \o b
<1>5. Part(w, ab) /\ Defines(ab, "platform") /\ Defines(ab, "hardwareConcurrency")
  BY <1>1, <1>2, PartJoin
<1> HIDE DEF ab
<1>6. /\ Part(w, ab \o d)
      /\ \A p : Defines(ab \o d, p) <=> Defines(ab, p) \/ Defines(d, p)
  BY <1>4, <1>5, PartJoin
<1>7. GenerateNavigatorOverrides(w) = ab \o d
  BY DEF GenerateNavigatorOverrides, PlatformRead, ab, a, b, c, d, n
<1> QED
  BY <1>4, <1>5, <1>6, <1>7

\* The injector's screen: what is configured, where both sides are.
LEMMA ScreenPart ==
  ASSUME NEW w
  PROVE  /\ Part(w, GenerateScreenOverrides(w))
         /\ Defines(GenerateScreenOverrides(w), "screen")
<1> DEFINE size == <<IF w["screen_width"] > 0 THEN w["screen_width"] ELSE 1366,
                     IF w["screen_height"] > 0 THEN w["screen_height"] ELSE 768>>
<1>1. BothPositive(w) => size = <<w["screen_width"], w["screen_height"]>>
  BY DEF BothPositive
<1>2. GenerateScreenOverrides(w) = Final("screen", size)
  BY DEF GenerateScreenOverrides
<1> HIDE DEF size
<1>3. Agrees(w, [prop |-> "screen", value |-> size, final |-> TRUE, caught |-> TRUE])
  BY <1>1 DEF Agrees, Guarded
<1>4. Part(w, Final("screen", size)) /\ Defines(Final("screen", size), "screen")
  BY <1>3, StatementPart
<1> QED
  BY <1>2, <1>4

\* Noise, fonts, and what a headless browser gives itself away by.
LEMMA NoiseParts ==
  ASSUME NEW w, NEW seed
  PROVE  /\ Part(w, GenerateCanvasProtector(seed))
         /\ Part(w, GenerateAudioProtector(seed))
         /\ Part(w, GenerateFontProtector(seed))
         /\ Part(w, GenerateWebdriverRemover)
         /\ Part(w, GeneratePerformanceProtector)
         /\ Part(w, GenerateBatteryProtector)
<1> DEFINE Other(p) == \A v : Part(w, Define(p, v)) /\ Part(w, Assign(p, v))
<1>1. \A p : p \notin Claimed => Other(p)
  BY OtherPart
<1>2. /\ Other("getImageData") /\ Other("toDataURL") /\ Other("getFloatFrequencyData")
      /\ Other("getByteFrequencyData") /\ Other("getChannelData") /\ Other("queryLocalFonts")
      /\ Other("measureText") /\ Other("webdriver") /\ Other("plugins") /\ Other("languages")
      /\ Other("performance.now") /\ Other("performance.memory") /\ Other("getBattery")
  BY <1>1 DEF Claimed, Guarded
<1>3. \A s, t : Part(w, s) /\ Part(w, t) => Part(w, s \o t)
  BY PartJoin
<1>4. Part(w, GenerateCanvasProtector(seed))
  BY <1>2, <1>3 DEF GenerateCanvasProtector
<1>5. Part(w, GenerateAudioProtector(seed))
  BY <1>2, <1>3 DEF GenerateAudioProtector
<1>6. Part(w, GenerateFontProtector(seed))
  BY <1>2, <1>3 DEF GenerateFontProtector
<1>7. Part(w, GenerateWebdriverRemover)
  BY <1>2, <1>3 DEF GenerateWebdriverRemover
<1>8. Part(w, GeneratePerformanceProtector)
  BY <1>2, <1>3 DEF GeneratePerformanceProtector
<1>9. Part(w, GenerateBatteryProtector)
  BY <1>2 DEF GenerateBatteryProtector
<1> QED
  BY <1>4, <1>5, <1>6, <1>7, <1>8, <1>9

\* The names of the graphics card.
LEMMA WebGLPart ==
  ASSUME NEW w
  PROVE  /\ Part(w, GenerateWebGLProtector(w))
         /\ w["gpu_vendor"] # "" => Defines(GenerateWebGLProtector(w), "unmaskedVendor")
         /\ Part(w, GenerateWebGLExtensionFilter(w["gpu_vendor"]))
<1> DEFINE gv == w["gpu_vendor"]
           r == w["gpu_renderer"]
           a == Assign("unmaskedVendor", gv)
           b == Assign("unmaskedRenderer", r)
           c == When(gv # "", Assign("webglVendor", gv))
           d == When(r # "", Assign("webglRenderer", r))
           e == Assign("webglExtensions", {"debug"})
           f == Assign("webglExtensions", {"WEBGL_debug_renderer"})
           g == Define("webglExtensions", {"vendor prefixes", "debug"})
<1>1. Part(w, a) /\ Defines(a, "unmaskedVendor")
  <2>1. Agrees(w, [prop |-> "unmaskedVendor", value |-> gv, final |-> FALSE, caught |-> FALSE])
    BY DEF Agrees, Guarded
  <2> QED
    BY <2>1, StatementPart
<1>2. /\ "unmaskedRenderer" \notin Claimed /\ "webglVendor" \notin Claimed
      /\ "webglRenderer" \notin Claimed /\ "webglExtensions" \notin Claimed
  BY DEF Claimed, Guarded
<1>3. Part(w, b) /\ Part(w, e) /\ Part(w, f) /\ Part(w, g)
  BY <1>2, OtherPart
<1>4. Part(w, c) /\ Part(w, d)
  <2>1. Part(w, Assign("webglVendor", gv)) /\ Part(w, Assign("webglRenderer", r))
    BY <1>2, OtherPart
  <2> QED
    BY <2>1, WhenPart
<1> HIDE DEF a, b, c, d, e, f, g
<1> DEFINE ab == a \o b
           abc == ab \o c
           abcd == abc \o d
           all == abcd \o e
<1>5. Part(w, ab) /\ Defines(ab, "unmaskedVendor")
  BY <1>1, <1>3, PartJoin
<1> HIDE DEF ab
<1>6. Part(w, abc) /\ Defines(abc, "unmaskedVendor")
  BY <1>4, <1>5, PartJoin
<1> HIDE DEF abc
<1>7. Part(w, abcd) /\ Defines(abcd, "unmaskedVendor")
  BY <1>4, <1>6, PartJoin
<1> HIDE DEF abcd
<1>8. Part(w, all) /\ Defines(all, "unmaskedVendor")
  BY <1>3, <1>7, PartJoin
<1>9. GenerateWebGLProtector(w) = IF gv = "" /\ r = "" THEN f ELSE all
  BY DEF GenerateWebGLProtector, all, abcd, abc, ab, a, b, c, d, e, f
<1> HIDE DEF all
<1>10. Part(w, GenerateWebGLExtensionFilter(gv))
  BY <1>3, WhenPart DEF GenerateWebGLExtensionFilter, g
<1> QED
  BY <1>3, <1>8, <1>9, <1>10

\* The one definition that may fail and is not caught comes first of its kind.
LEMMA WebRTCScript ==
  ASSUME NEW w
  PROVE  Script(w, GenerateWebRTCProtector)
<1> DEFINE a == Assign("RTCPeerConnection", "no srflx candidates")
           x == [prop |-> "mediaDevices", value |-> "anonymous devices",
                 final |-> TRUE, caught |-> FALSE]
           T == {x}
           b == <<x>>
<1>1. Part(w, a)
  <2>1. "RTCPeerConnection" \notin Claimed
    BY DEF Claimed, Guarded
  <2> QED
    BY <2>1, OtherPart
<1>2. b \in Seq(T) /\ Len(b) = 1
  OBVIOUS
<1>3. \A y \in T : Agrees(w, y)
  <2>1. Agrees(w, x)
    BY DEF Agrees, Guarded
  <2> HIDE DEF x
  <2> QED
    BY <2>1
<1>4. GenerateWebRTCProtector = a \o b
  BY DEF GenerateWebRTCProtector, FinalUncaught
<1> HIDE DEF a, b, x, T
<1>5. Agreeing(w, b)
  BY <1>2, <1>3, AgreeingIntro
<1>6. Script(w, b)
  BY <1>2, <1>5 DEF Script
<1> QED
  BY <1>1, <1>4, <1>6, ScriptJoin

\* The engine's overrides of what the injector has made final say the same.
LEMMA SecondOverrides ==
  ASSUME NEW w
  PROVE  /\ Part(w, GenerateHardwareConcurrencyProtector(w["hardware_concurrency"]))
         /\ Part(w, GenerateScreenProtector(w["screen_width"], w["screen_height"]))
         /\ Part(w, GeneratePlatformProtector(w["platform"]))
<1> DEFINE n == w["hardware_concurrency"]
           size == <<w["screen_width"], w["screen_height"]>>
           js == PlatformRead(w)
           a == Define("hardwareConcurrency", n)
           b == Define("screen", size)
           c == Define("colorDepth", 24)
           d == Define("platform", js)
<1>1. Part(w, a)
  <2>1. Agrees(w, [prop |-> "hardwareConcurrency", value |-> n, final |-> FALSE, caught |-> TRUE])
    BY DEF Agrees, Guarded
  <2> QED
    BY <2>1, StatementPart
<1>2. Part(w, b)
  <2>1. Agrees(w, [prop |-> "screen", value |-> size, final |-> FALSE, caught |-> TRUE])
    BY DEF Agrees, Guarded
  <2> HIDE DEF size
  <2> QED
    BY <2>1, StatementPart
<1>3. Part(w, c)
  <2>1. "colorDepth" \notin Claimed
    BY DEF Claimed, Guarded
  <2> QED
    BY <2>1, OtherPart
<1>4. Part(w, d)
  <2>1. Agrees(w, [prop |-> "platform", value |-> js, final |-> FALSE, caught |-> TRUE])
    BY DEF Agrees, Guarded
  <2> HIDE DEF js
  <2> QED
    BY <2>1, StatementPart
<1> HIDE DEF a, b, c, d
<1>5. Part(w, b \o c)
  BY <1>2, <1>3, PartJoin
<1>6. Part(w, GenerateHardwareConcurrencyProtector(n))
  BY <1>1, WhenPart DEF GenerateHardwareConcurrencyProtector, a
<1>7. Part(w, GenerateScreenProtector(w["screen_width"], w["screen_height"]))
  BY <1>5, WhenPart DEF GenerateScreenProtector, b, c
<1>8. Part(w, GeneratePlatformProtector(w["platform"]))
  BY <1>4, WhenPart DEF GeneratePlatformProtector, PlatformRead, d
<1> QED
  BY <1>6, <1>7, <1>8

\* What only the engine overrides.
LEMMA TimezonePart ==
  ASSUME NEW w
  PROVE  LET tz == w["timezone"]
             s == GenerateTimezoneProtector(tz)
             zone == ZoneRead(w)
         IN /\ Part(w, s)
            /\ tz # "" => Defines(s, "resolvedOptions")
            /\ tz # "" /\ zone \in OffsetZones => Defines(s, "timezoneOffset")
            /\ Part(w, When(tz # "", GenerateGeolocationProtector))
<1> DEFINE tz == w["timezone"]
           zone == ZoneRead(w)
           offset == TableOffset(zone)
           a == Define("DateTimeFormat", zone)
           b == Define("resolvedOptions", zone)
           c == Define("timezoneOffset", offset)
           d == When(zone \in OffsetZones, c)
           g == Define("geolocation", "a place")
<1>1. Part(w, a) /\ Part(w, g)
  <2>1. "DateTimeFormat" \notin Claimed /\ "geolocation" \notin Claimed
    BY DEF Claimed, Guarded
  <2> QED
    BY <2>1, OtherPart
<1>2. Part(w, b) /\ Defines(b, "resolvedOptions")
  <2>1. Agrees(w, [prop |-> "resolvedOptions", value |-> zone, final |-> FALSE, caught |-> TRUE])
    BY DEF Agrees, Guarded
  <2> QED
    BY <2>1, StatementPart
<1>3. Part(w, c) /\ Defines(c, "timezoneOffset")
  <2>1. Agrees(w, [prop |-> "timezoneOffset", value |-> offset, final |-> FALSE, caught |-> TRUE])
    BY DEF Agrees, Guarded
  <2> QED
    BY <2>1, StatementPart
<1> HIDE DEF a, b, c, g
<1>4. Part(w, d) /\ (zone \in OffsetZones => Defines(d, "timezoneOffset"))
  BY <1>3, WhenPart
<1> HIDE DEF d
<1> DEFINE ab == a \o b
           all == ab \o d
<1>5. Part(w, ab) /\ Defines(ab, "resolvedOptions")
  BY <1>1, <1>2, PartJoin
<1> HIDE DEF ab
<1>6. /\ Part(w, all) /\ Defines(all, "resolvedOptions")
      /\ zone \in OffsetZones => Defines(all, "timezoneOffset")
  BY <1>4, <1>5, PartJoin
<1> HIDE DEF all
<1>7. GenerateTimezoneProtector(tz) = When(tz # "", all)
  BY DEF GenerateTimezoneProtector, ZoneRead, all, ab, a, b, c, d
<1>8. Part(w, When(tz # "", all)) /\ (tz # "" => When(tz # "", all) = all)
  BY <1>6, WhenPart
<1>9. Part(w, When(tz # "", GenerateGeolocationProtector))
  BY <1>1, WhenPart DEF GenerateGeolocationProtector, g
<1> QED
  BY <1>6, <1>7, <1>8, <1>9

\* The colour scheme, as the media queries of a page see it.
LEMMA ColorSchemePart ==
  ASSUME NEW w
  PROVE  LET s == GenerateColorSchemeProtector(w["color_scheme"])
         IN Part(w, s) /\ (w["color_scheme"] # "" => Defines(s, "prefersDark"))
<1> DEFINE cs == w["color_scheme"]
           dark == (cs = "dark")
           light == (cs = "light")
           a == Define("prefersDark", dark)
           b == Define("prefersLight", light)
<1>1. Part(w, a) /\ Defines(a, "prefersDark")
  <2>1. Agrees(w, [prop |-> "prefersDark", value |-> dark, final |-> FALSE, caught |-> TRUE])
    BY DEF Agrees, Guarded
  <2> HIDE DEF dark
  <2> QED
    BY <2>1, StatementPart
<1>2. Part(w, b)
  <2>1. "prefersLight" \notin Claimed
    BY DEF Claimed, Guarded
  <2> QED
    BY <2>1, OtherPart
<1> HIDE DEF a, b
<1> DEFINE ab == a \o b
<1>3. Part(w, ab) /\ Defines(ab, "prefersDark")
  BY <1>1, <1>2, PartJoin
<1>4. GenerateColorSchemeProtector(cs) = When(cs # "", ab)
  BY DEF GenerateColorSchemeProtector, a, b
<1> HIDE DEF ab
<1>5. Part(w, When(cs # "", ab)) /\ (cs # "" => When(cs # "", ab) = ab)
  BY <1>3, WhenPart
<1> QED
  BY <1>3, <1>4, <1>5

\* The connection every page is shown.
LEMMA ConnectionPart ==
  ASSUME NEW w
  PROVE  Part(w, GenerateNetworkInfoProtector) /\ Defines(GenerateNetworkInfoProtector, "connection")
<1>1. Agrees(w, [prop |-> "connection", value |-> "4g", final |-> FALSE, caught |-> TRUE])
  BY DEF Agrees, Guarded
<1>2. /\ Part(w, Define("connection", "4g"))
      /\ Defines(Define("connection", "4g"), "connection")
  BY <1>1, StatementPart
<1> QED
  BY <1>2 DEF GenerateNetworkInfoProtector

\* Features of other platforms are hidden, and nothing else is touched.
LEMMA FeaturePart ==
  ASSUME NEW w, NEW p
  PROVE  Part(w, GenerateFeatureConsistencyProtector(p))
<1>1. "hiddenInterfaces" \notin Claimed
  BY DEF Claimed, Guarded
<1>2. Part(w, Define("hiddenInterfaces", p))
  BY <1>1, OtherPart
<1> QED
  BY <1>2, WhenPart DEF GenerateFeatureConsistencyProtector

-----------------------------------------------------------------------------
(***************************************************************************)
(* The script.                                                             *)
(***************************************************************************)

\* What the engine's script defines for the settings of w.
EngineDefines(w, s) ==
  /\ w["gpu_vendor"] # "" => Defines(s, "unmaskedVendor")
  /\ w["timezone"] # "" => Defines(s, "resolvedOptions")
  /\ w["timezone"] # "" /\ ZoneRead(w) \in OffsetZones => Defines(s, "timezoneOffset")
  /\ w["color_scheme"] # "" => Defines(s, "prefersDark")
  /\ Defines(s, "connection")

\* The noise and the graphics card come before WebRTC, the rest behind it.
LEMMA EngineScript ==
  ASSUME NEW w, w["fingerprint_seed"] # 0
  PROVE  /\ Script(w, GenerateProtectionScript(w))
         /\ EngineDefines(w, GenerateProtectionScript(w))
<1> DEFINE seed == w["fingerprint_seed"]
           tz == w["timezone"]
           canvas == GenerateCanvasProtector(seed)
           webgl == GenerateWebGLProtector(w)
           audio == GenerateAudioProtector(seed)
           font == GenerateFontProtector(seed)
           webrtc == GenerateWebRTCProtector
           driver == GenerateWebdriverRemover
           cores == GenerateHardwareConcurrencyProtector(w["hardware_concurrency"])
           screen == GenerateScreenProtector(w["screen_width"], w["screen_height"])
           zone == GenerateTimezoneProtector(tz)
           platform == GeneratePlatformProtector(w["platform"])
           scheme == GenerateColorSchemeProtector(w["color_scheme"])
           features == GenerateFeatureConsistencyProtector(w["platform"])
           filter == GenerateWebGLExtensionFilter(w["gpu_vendor"])
           perf == GeneratePerformanceProtector
           place == When(tz # "", GenerateGeolocationProtector)
           battery == GenerateBatteryProtector
           network == GenerateNetworkInfoProtector
<1>1. /\ Part(w, canvas) /\ Part(w, audio) /\ Part(w, font)
      /\ Part(w, driver) /\ Part(w, perf) /\ Part(w, battery)
  BY NoiseParts
<1>2. /\ Part(w, webgl) /\ (w["gpu_vendor"] # "" => Defines(webgl, "unmaskedVendor"))
      /\ Part(w, filter)
  BY WebGLPart
<1>3. Script(w, webrtc)
  BY WebRTCScript
<1>4. Part(w, cores) /\ Part(w, screen) /\ Part(w, platform)
  BY SecondOverrides
<1>5. /\ Part(w, zone) /\ Part(w, place)
      /\ tz # "" => Defines(zone, "resolvedOptions")
      /\ tz # "" /\ ZoneRead(w) \in OffsetZones => Defines(zone, "timezoneOffset")
  BY TimezonePart
<1>6. Part(w, scheme) /\ (w["color_scheme"] # "" => Defines(scheme, "prefersDark"))
  BY ColorSchemePart
<1>7. Part(w, features)
  BY FeaturePart
<1>8. Part(w, network) /\ Defines(network, "connection")
  BY ConnectionPart
<1> DEFINE front == ((canvas \o webgl) \o audio) \o font
           middle == ((front \o webrtc) \o driver) \o cores
           told == ((middle \o screen) \o zone) \o platform
           shown == ((told \o scheme) \o features) \o filter
           most == (shown \o perf) \o place
           all == (most \o battery) \o network
<1>9. GenerateProtectionScript(w) = all
  BY DEF GenerateProtectionScript, When
<1> HIDE DEF canvas, webgl, audio, font, webrtc, driver, cores, screen, zone, platform,
             scheme, features, filter, perf, place, battery, network
<1> DEFINE Joins(s, t) == \A p : Defines(s \o t, p) <=> Defines(s, p) \/ Defines(t, p)
<1>10. \A s, t : Part(w, s) /\ Part(w, t) => Part(w, s \o t) /\ Joins(s, t)
  BY PartJoin
<1>11. \A s, t : Script(w, s) /\ Part(w, t) => Script(w, s \o t) /\ Joins(s, t)
  BY ScriptJoin
<1>12. \A s, t : Part(w, s) /\ Script(w, t) => Script(w, s \o t) /\ Joins(s, t)
  BY ScriptJoin
<1>13. Part(w, front) /\ (w["gpu_vendor"] # "" => Defines(front, "unmaskedVendor"))
  BY <1>1, <1>2, <1>10
<1> HIDE DEF front
<1>14. Script(w, middle) /\ (w["gpu_vendor"] # "" => Defines(middle, "unmaskedVendor"))
  BY <1>1, <1>3, <1>4, <1>11, <1>12, <1>13
<1> HIDE DEF middle
<1>15. /\ Script(w, told) /\ (w["gpu_vendor"] # "" => Defines(told, "unmaskedVendor"))
       /\ tz # "" => Defines(told, "resolvedOptions")
       /\ tz # "" /\ ZoneRead(w) \in OffsetZones => Defines(told, "timezoneOffset")
  BY <1>4, <1>5, <1>11, <1>14
<1> HIDE DEF told
<1>16. /\ Script(w, shown) /\ (w["gpu_vendor"] # "" => Defines(shown, "unmaskedVendor"))
       /\ tz # "" => Defines(shown, "resolvedOptions")
       /\ tz # "" /\ ZoneRead(w) \in OffsetZones => Defines(shown, "timezoneOffset")
       /\ w["color_scheme"] # "" => Defines(shown, "prefersDark")
  BY <1>2, <1>6, <1>7, <1>11, <1>15
<1> HIDE DEF shown
<1>17. /\ Script(w, most) /\ (w["gpu_vendor"] # "" => Defines(most, "unmaskedVendor"))
       /\ tz # "" => Defines(most, "resolvedOptions")
       /\ tz # "" /\ ZoneRead(w) \in OffsetZones => Defines(most, "timezoneOffset")
       /\ w["color_scheme"] # "" => Defines(most, "prefersDark")
  BY <1>1, <1>5, <1>11, <1>16
<1> HIDE DEF most
<1>18. /\ Script(w, all) /\ (w["gpu_vendor"] # "" => Defines(all, "unmaskedVendor"))
       /\ tz # "" => Defines(all, "resolvedOptions")
       /\ tz # "" /\ ZoneRead(w) \in OffsetZones => Defines(all, "timezoneOffset")
       /\ w["color_scheme"] # "" => Defines(all, "prefersDark")
       /\ Defines(all, "connection")
  BY <1>1, <1>8, <1>11, <1>17
<1> HIDE DEF all
<1> QED
  BY <1>9, <1>18 DEF EngineDefines

\* The table is right for every zone of it that has one offset, but for
\* Brazil/East, whose sign is wrong.
LEMMA TableIsRight ==
  ASSUME NEW tz \in DOMAIN UtcOffset \ {"Brazil/East"}
  PROVE  tz \in OffsetZones /\ TableOffset(tz) = -UtcOffset[tz]
<1>1. tz \in OffsetZones
  BY DEF OffsetZones
<1>2. CASE tz \in {"Pacific/Honolulu", "UTC", "GMT", "Europe/Moscow", "Asia/Dubai"}
  BY <1>1, <1>2 DEF TableOffset, UtcOffset
<1>3. CASE tz \in {"Asia/Kolkata", "Asia/Jakarta", "Asia/Tokyo", "Asia/Seoul"}
  BY <1>1, <1>3 DEF TableOffset, UtcOffset
<1>4. CASE tz \in {"Asia/Shanghai", "Asia/Hong_Kong", "Asia/Singapore"}
  BY <1>1, <1>4 DEF TableOffset, UtcOffset
<1> QED
  BY <1>1, <1>2, <1>3, <1>4 DEF UtcOffset

\* "Return offset consistent with _tz", says the comment at the table: for a zone
\* three hours west of UTC it has the offset itself, where its negation belongs.
LEMMA BrazilEastIsWrong ==
  ASSUME NEW tz, tz = "Brazil/East"
  PROVE  UtcOffset[tz] = -180 /\ TableOffset(tz) = UtcOffset[tz]
<1>1. TableOffset(tz) = -180
  BY DEF TableOffset
<1>2. UtcOffset[tz] = -180
  BY DEF UtcOffset
<1> QED
  BY <1>1, <1>2

\* What a page is told of w, whatever it was told natively.
Told(w, props) ==
  LET Sees(p, v) == p \in DOMAIN props /\ props[p] = v
      tz == w["timezone"]
      zone == ZoneRead(w)
  IN /\ Sees("platform", PlatformRead(w))
     /\ w["hardware_concurrency"] > 0 => Sees("hardwareConcurrency", w["hardware_concurrency"])
     /\ w["user_agent"] # "" => Sees("userAgent", w["user_agent"])
     /\ BothPositive(w) => Sees("screen", <<w["screen_width"], w["screen_height"]>>)
     /\ tz # "" => Sees("resolvedOptions", zone)
     /\ tz # "" /\ zone \in DOMAIN UtcOffset \ {"Brazil/East"} =>
          Sees("timezoneOffset", -UtcOffset[zone])
     /\ w["color_scheme"] # "" => Sees("prefersDark", w["color_scheme"] = "dark")
     /\ Sees("connection", "4g")
     /\ w["gpu_vendor"] # "" => Sees("unmaskedVendor", w["gpu_vendor"])

\* A script without a syntax error, of a workspace with a seed, tells a page the
\* settings of the workspace as its literals read: the injector's overrides and the
\* engine's agree, no failure ends the script before its last statement, nothing
\* configured is left out, and the offset is right for a zone of the table that has
\* one offset all year and is not Brazil/East.
THEOREM ScriptTellsSettings ==
  ASSUME NEW w, w["fingerprint_seed"] # 0, ScriptParses(w)
  PROVE  Told(w, Evaluate(GenerateInjectionScript(w)))
<1> DEFINE nav == GenerateNavigatorOverrides(w)
           scr == GenerateScreenOverrides(w)
           eng == GenerateProtectionScript(w)
           s == (nav \o scr) \o eng
<1>1. GenerateInjectionScript(w) = s
  BY DEF GenerateInjectionScript, When
<1>2. /\ Part(w, nav) /\ Defines(nav, "platform") /\ Defines(nav, "hardwareConcurrency")
      /\ w["user_agent"] # "" => Defines(nav, "userAgent")
  BY NavigatorPart
<1>3. Part(w, scr) /\ Defines(scr, "screen")
  BY ScreenPart
<1>4. Script(w, eng) /\ EngineDefines(w, eng)
  BY EngineScript
<1> HIDE DEF nav, scr, eng
<1> DEFINE own == nav \o scr
<1>5. Part(w, own) /\ \A p : Defines(own, p) <=> Defines(nav, p) \/ Defines(scr, p)
  BY <1>2, <1>3, PartJoin
<1> HIDE DEF own
<1>6. /\ Script(w, own \o eng)
      /\ \A p : Defines(own \o eng, p) <=> Defines(own, p) \/ Defines(eng, p)
  BY <1>4, <1>5, ScriptJoin
<1>7. s = own \o eng
  BY DEF own
<1> HIDE DEF s
<1>8. Script(w, s) /\ \A p : Defines(nav, p) \/ Defines(scr, p) \/ Defines(eng, p) => Defines(s, p)
  BY <1>5, <1>6, <1>7
<1>9. \A i \in 1 .. Len(s) : Agrees(w, s[i])
  BY <1>8, AgreeingElements DEF Script
<1> DEFINE Sees(p, v) == p \in DOMAIN Evaluate(s) /\ Evaluate(s)[p] = v
           Agreed(p, v) == \A i \in 1 .. Len(s) : s[i].prop = p => s[i].value = v
<1>10. \A p, v : Defines(s, p) /\ Agreed(p, v) => Sees(p, v)
  BY <1>8, Seen
<1>11. /\ Defines(s, "platform") /\ Defines(s, "hardwareConcurrency") /\ Defines(s, "screen")
       /\ w["user_agent"] # "" => Defines(s, "userAgent")
       /\ EngineDefines(w, s)
  BY <1>2, <1>3, <1>4, <1>8 DEF EngineDefines
<1>12. /\ Agreed("platform", PlatformRead(w))
       /\ Agreed("userAgent", w["user_agent"])
       /\ Agreed("resolvedOptions", ZoneRead(w))
       /\ Agreed("timezoneOffset", TableOffset(ZoneRead(w)))
       /\ Agreed("connection", "4g")
       /\ Agreed("unmaskedVendor", w["gpu_vendor"])
  BY <1>9 DEF Agrees
<1>13. Agreed("prefersDark", w["color_scheme"] = "dark")
  BY <1>9 DEF Agrees
<1>14. w["hardware_concurrency"] > 0 => Agreed("hardwareConcurrency", w["hardware_concurrency"])
  BY <1>9 DEF Agrees
<1>15. BothPositive(w) => Agreed("screen", <<w["screen_width"], w["screen_height"]>>)
  BY <1>9 DEF Agrees
<1> HIDE DEF Sees, Agreed
<1>16. /\ Sees("platform", PlatformRead(w))
       /\ w["hardware_concurrency"] > 0 => Sees("hardwareConcurrency", w["hardware_concurrency"])
       /\ w["user_agent"] # "" => Sees("userAgent", w["user_agent"])
       /\ BothPositive(w) => Sees("screen", <<w["screen_width"], w["screen_height"]>>)
  BY <1>10, <1>11, <1>12, <1>14, <1>15
<1>17. /\ w["timezone"] # "" => Sees("resolvedOptions", ZoneRead(w))
       /\ w["timezone"] # "" /\ ZoneRead(w) \in OffsetZones =>
            Sees("timezoneOffset", TableOffset(ZoneRead(w)))
       /\ Sees("connection", "4g")
       /\ w["gpu_vendor"] # "" => Sees("unmaskedVendor", w["gpu_vendor"])
  BY <1>10, <1>11, <1>12 DEF EngineDefines
<1>18. w["color_scheme"] # "" => Sees("prefersDark", w["color_scheme"] = "dark")
  BY <1>10, <1>11, <1>13 DEF EngineDefines
<1>19. w["timezone"] # "" /\ ZoneRead(w) \in DOMAIN UtcOffset \ {"Brazil/East"} =>
         Sees("timezoneOffset", -UtcOffset[ZoneRead(w)])
  BY <1>17, TableIsRight
<1>20. Told(w, Evaluate(s))
  BY <1>16, <1>17, <1>18, <1>19 DEF Told, Sees
<1> QED
  BY <1>1, <1>20

-----------------------------------------------------------------------------
(***************************************************************************)
(* The batch.                                                              *)
(***************************************************************************)

\* A sequence with one more in front and one more behind has both at its ends
\* and what it had between them.
LEMMA Ends ==
  ASSUME NEW T, NEW a \in T, NEW s \in Seq(T), NEW b \in T
  PROVE  LET all == <<a>> \o (s \o <<b>>)
         IN /\ all \in Seq(T) /\ Len(all) = Len(s) + 2
            /\ all[1] = a /\ all[Len(all)] = b
            /\ \A k \in 1 .. Len(s) : all[k + 1] = s[k]
<1> DEFINE tail == s \o <<b>>
           all == <<a>> \o tail
<1>1. <<a>> \in Seq(T) /\ Len(<<a>>) = 1 /\ <<b>> \in Seq(T) /\ Len(<<b>>) = 1
  OBVIOUS
<1>2. /\ tail \in Seq(T) /\ Len(tail) = Len(s) + 1
      /\ tail[Len(s) + 1] = <<b>>[1] /\ \A k \in 1 .. Len(s) : tail[k] = s[k]
  BY <1>1, ConcatProperties
<1> HIDE DEF tail
<1>3. /\ all \in Seq(T) /\ Len(all) = 1 + Len(tail)
      /\ all[1] = <<a>>[1] /\ \A k \in 1 .. Len(tail) : all[k + 1] = tail[k]
  BY <1>1, <1>2, ConcatProperties
<1>4. Len(s) \in Nat
  OBVIOUS
<1> HIDE DEF all
<1>5. /\ Len(all) = Len(s) + 2 /\ all[1] = a /\ all[Len(all)] = b
      /\ \A k \in 1 .. Len(s) : all[k + 1] = s[k]
  BY <1>2, <1>3, <1>4
<1> QED
  BY <1>3, <1>5 DEF all, tail

\* What stands between two sequences is there.
LEMMA Between ==
  ASSUME NEW T, NEW p \in Seq(T), NEW r \in Seq(T), NEW q \in Seq(T), Len(r) = 1
  PROVE  /\ Len(p) + 1 \in 1 .. Len((p \o r) \o q)
         /\ ((p \o r) \o q)[Len(p) + 1] = r[1]
<1>1. Len(p) \in Nat /\ Len(q) \in Nat
  OBVIOUS
<1>2. /\ p \o r \in Seq(T) /\ Len(p \o r) = Len(p) + Len(r)
      /\ \A k \in 1 .. Len(p) + Len(r) :
           (p \o r)[k] = IF k <= Len(p) THEN p[k] ELSE r[k - Len(p)]
  BY ConcatProperties
<1> DEFINE x == p \o r
<1>3. x \in Seq(T) /\ Len(x) = Len(p) + 1 /\ x[Len(p) + 1] = r[1]
  BY <1>1, <1>2
<1> HIDE DEF x
<1>4. /\ Len(x \o q) = Len(x) + Len(q)
      /\ \A k \in 1 .. Len(x) + Len(q) :
           (x \o q)[k] = IF k <= Len(x) THEN x[k] ELSE q[k - Len(x)]
  BY <1>3, ConcatProperties
<1>5. /\ Len((p \o r) \o q) = Len(p) + 1 + Len(q)
      /\ ((p \o r) \o q)[Len(p) + 1] = r[1]
  BY <1>1, <1>3, <1>4 DEF x
<1>6. Len(p) + 1 \in 1 .. Len((p \o r) \o q)
  BY <1>1, <1>5
<1> QED
  BY <1>5, <1>6

\* A command that is left out leaves a sequence.
LEMMA WhenIsSequence ==
  ASSUME NEW T, NEW a, NEW cond, cond => a \in T
  PROVE  When(cond, <<a>>) \in Seq(T)
<1>1. <<>> \in Seq(T) /\ (a \in T => <<a>> \in Seq(T))
  OBVIOUS
<1>2. CASE cond
  BY <1>1, <1>2 DEF When
<1>3. CASE ~cond
  BY <1>1, <1>3 DEF When
<1> QED
  BY <1>2, <1>3

\* Every batch begins with Page.enable and ends with the script, and it has the
\* one command for the time zone when there is a time zone.  The screen is
\* emulated only when both its sides are configured.
LEMMA BatchShape ==
  ASSUME NEW w
  PROVE  /\ Len(CommandBatch(w)) \in Nat /\ Len(CommandBatch(w)) >= 2
         /\ CommandBatch(w)[1].method = "enable"
         /\ CommandBatch(w)[Len(CommandBatch(w))].method = "script"
         /\ \A i \in 1 .. Len(CommandBatch(w)) :
              /\ CommandBatch(w)[i].method = "timezone" =>
                   CommandBatch(w)[i].params = w["timezone"]
              /\ CommandBatch(w)[i].method = "script" =>
                   CommandBatch(w)[i].params = GenerateInjectionScript(w)
              /\ CommandBatch(w)[i].method = "metrics" =>
                   /\ BothPositive(w)
                   /\ CommandBatch(w)[i].params = <<w["screen_width"], w["screen_height"]>>
         /\ w["timezone"] # "" =>
              \E i \in 1 .. Len(CommandBatch(w)) : CommandBatch(w)[i].method = "timezone"
<1> DEFINE size == <<w["screen_width"], w["screen_height"]>>
           e == [method |-> "enable", params |-> <<>>]
           m == [method |-> "metrics", params |-> size]
           t == [method |-> "timezone", params |-> w["timezone"]]
           d == [method |-> "darkMode", params |-> (w["color_scheme"] = "dark")]
           s == [method |-> "script", params |-> GenerateInjectionScript(w)]
           T == {x \in {e, m, t, d, s} : x.method = "metrics" => BothPositive(w)}
           pm == When(BothPositive(w), <<m>>)
           pt == When(w["timezone"] # "", <<t>>)
           pd == When(w["color_scheme"] \in {"dark", "light"}, <<d>>)
<1>1. CommandBatch(w) = <<e>> \o (((pm \o pt) \o pd) \o <<s>>)
  BY DEF CommandBatch, GenerateCDPCommands, MakeCommand, MakeScreenOverride,
     MakeTimezoneOverride, MakeDarkModeOverride, MakeScriptInjection
<1>2. e.method = "enable" /\ s.method = "script"
  OBVIOUS
<1> HIDE DEF size
<1>3. e \in T /\ t \in T /\ d \in T /\ s \in T /\ (BothPositive(w) => m \in T)
  OBVIOUS
<1>4. /\ t.method = "timezone"
      /\ \A x \in T :
           /\ x.method = "timezone" => x.params = w["timezone"]
           /\ x.method = "script" => x.params = GenerateInjectionScript(w)
           /\ x.method = "metrics" => BothPositive(w) /\ x.params = size
  OBVIOUS
<1> HIDE DEF e, m, t, d, s, T
<1>5. pm \in Seq(T) /\ pt \in Seq(T) /\ pd \in Seq(T)
  BY <1>3, WhenIsSequence
<1>6. w["timezone"] # "" => pt = <<t>>
  BY DEF When
<1> HIDE DEF pm, pt, pd
<1> DEFINE some == (pm \o pt) \o pd
<1>7. some \in Seq(T)
  BY <1>5, ConcatProperties
<1>8. w["timezone"] # "" => \E k \in 1 .. Len(some) : some[k] = t
  <2>1. CASE pt = <<t>>
    <3>1. Len(pt) = 1 /\ pt[1] = t
      BY <2>1
    <3>2. Len(pm) + 1 \in 1 .. Len(some) /\ some[Len(pm) + 1] = pt[1]
      BY <1>5, <3>1, Between
    <3> QED
      BY <3>1, <3>2
  <2> QED
    BY <1>6, <2>1
<1> HIDE DEF some
<1> DEFINE all == <<e>> \o (some \o <<s>>)
<1>9. /\ all \in Seq(T) /\ Len(all) = Len(some) + 2
      /\ all[1] = e /\ all[Len(all)] = s
      /\ \A k \in 1 .. Len(some) : all[k + 1] = some[k]
  BY <1>3, <1>7, Ends
<1>10. CommandBatch(w) = all
  BY <1>1 DEF some
<1> HIDE DEF all
<1>11. Len(some) \in Nat /\ \A i \in 1 .. Len(all) : all[i] \in T
  BY <1>7, <1>9
<1>12. ASSUME NEW k \in 1 .. Len(some), some[k] = t
       PROVE  \E i \in 1 .. Len(all) : all[i].method = "timezone"
  <2>1. k + 1 \in 1 .. Len(all) /\ all[k + 1] = t
    BY <1>9, <1>11, <1>12
  <2> QED
    BY <1>4, <2>1
<1>13. /\ Len(all) \in Nat /\ Len(all) >= 2
       /\ all[1].method = "enable" /\ all[Len(all)].method = "script"
  BY <1>2, <1>9, <1>11
<1>14. \A i \in 1 .. Len(all) :
         /\ all[i].method = "timezone" => all[i].params = w["timezone"]
         /\ all[i].method = "script" => all[i].params = GenerateInjectionScript(w)
         /\ all[i].method = "metrics" => BothPositive(w) /\ all[i].params = size
  BY <1>4, <1>11
<1>15. w["timezone"] # "" => \E i \in 1 .. Len(all) : all[i].method = "timezone"
  BY <1>8, <1>12
<1> QED
  BY <1>10, <1>13, <1>14, <1>15 DEF size
=============================================================================
