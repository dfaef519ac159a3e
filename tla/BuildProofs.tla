---------------------------- MODULE BuildProofs -----------------------------
(***************************************************************************)
(* A build that ends without an error leaves files that are whole and of   *)
(* this build alone, for any number of builds and kills and any options.   *)
(*                                                                         *)
(* The argument follows the scripts.  Between two programs, the files that *)
(* the programs before the next one write are current (FilesRight), and    *)
(* the next finds what it needs (Ready).  Inside a program, what is left   *)
(* of it to do, done to the files as they are, leaves current what the     *)
(* whole of it was to leave (Running): each step takes one operation from  *)
(* the front and does it.  That a whole program does so is shown once for  *)
(* each program, by joining the parts it is made of: Part says which files *)
(* are current before a part and after it, and which it touches.  A kill   *)
(* leaves the files of the earlier programs as they are, since no program  *)
(* writes another's, and mgbuild goes on from a program whose earlier ones *)
(* have all ended.                                                         *)
(***************************************************************************)
EXTENDS Build, SequenceTheorems, TLAPS

-----------------------------------------------------------------------------
\* Sequences of what a program does to files.

Verbs == {"source", "read", "create", "close", "unlink", "index"}

Names == {"source", "invf.chunk", "text.stats", "invf.dict", "invf.chunk.trans", "invf.dict.hash",
          "text.dict", "text", "text.idx", "invf", "invf.idx", "invf.paragraph", "text.dict.aux",
          "weight", "weight.approx", "text.idx.wgt", "invf.dict.blocked", "invf.dict.blocked.1",
          "invf.dict.blocked.2", "invf.dict.blocked.3", "text.dict.fast"}

AnOp == [verb : Verbs, f : Names \cup 1 .. 3]

\* The files that s does this to.
Of(s, verb) == {s[i].f : i \in {j \in 1 .. Len(s) : s[j].verb = verb}}

\* From step a to step b the file f is neither created nor unlinked.
Spared(s, a, b, f) == \A j \in a .. b : ~(s[j].verb \in {"create", "unlink"} /\ s[j].f = f)

(***************************************************************************)
(* After n steps of s, begun when the files of C were current, f is: it    *)
(* was and has been spared, or it was closed and has been spared since.    *)
(***************************************************************************)
Holds(s, n, f, C) ==
  \/ f \in C /\ Spared(s, 1, n, f)
  \/ \E j \in 1 .. n : s[j] = Op("close", f) /\ Spared(s, j + 1, n, f)

(***************************************************************************)
(* Begun when the files of C are current, s reads no other and leaves the  *)
(* files of D current.                                                     *)
(***************************************************************************)
Reads(s, C) == \A i \in 1 .. Len(s) : s[i].verb = "read" => Holds(s, i - 1, s[i].f, C)
Leaves(s, C, D) == \A f \in D : Holds(s, Len(s), f, C)
Runs(s, C, D) == Reads(s, C) /\ Leaves(s, C, D)

\* Nothing is closed before something was read.
Fed(s) == \A i \in 1 .. Len(s) : s[i].verb = "close" =>
             \E j \in 1 .. i - 1 : s[j].verb \in {"read", "source"}

HasInput(s) == \E j \in 1 .. Len(s) : s[j].verb \in {"read", "source"}

\* The places of a sequence that is joined.
LEMMA JoinFacts ==
  ASSUME NEW S, NEW s \in Seq(S), NEW t \in Seq(S)
  PROVE  /\ Len(s) \in Nat /\ Len(t) \in Nat
         /\ s \o t \in Seq(S) /\ Len(s \o t) = Len(s) + Len(t)
         /\ \A i \in 1 .. Len(s) : (s \o t)[i] = s[i]
         /\ \A i \in 1 .. Len(t) : (s \o t)[Len(s) + i] = t[i]
OBVIOUS

\* What comes later does not matter for what holds before.
LEMMA HoldsBefore ==
  ASSUME NEW s \in Seq(AnOp), NEW t \in Seq(AnOp), NEW n \in 0 .. Len(s), NEW f, NEW C,
         Holds(s, n, f, C)
  PROVE  Holds(s \o t, n, f, C)
<1>. DEFINE u == s \o t
<1>1. n \in Nat /\ \A i \in 1 .. n : u[i] = s[i]
  BY JoinFacts
<1>. HIDE DEF u
<1>2. CASE f \in C /\ Spared(s, 1, n, f)
  <2>1. Spared(u, 1, n, f)
    BY <1>1, <1>2 DEF Spared
  <2>. QED BY <1>2, <2>1 DEF Holds, u
<1>3. ASSUME NEW j \in 1 .. n, s[j] = Op("close", f), Spared(s, j + 1, n, f)
      PROVE  Holds(u, n, f, C)
  <2>1. u[j] = Op("close", f) /\ Spared(u, j + 1, n, f)
    BY <1>1, <1>3 DEF Spared
  <2>. QED BY <2>1 DEF Holds
<1>. QED BY <1>2, <1>3 DEF Holds, u

\* What s leaves current t may begin with.
LEMMA HoldsAfter ==
  ASSUME NEW s \in Seq(AnOp), NEW t \in Seq(AnOp), NEW n \in 0 .. Len(t), NEW f, NEW C, NEW D,
         f \in D => Holds(s, Len(s), f, C), Holds(t, n, f, D)
  PROVE  Holds(s \o t, Len(s) + n, f, C)
<1>. DEFINE u == s \o t
            m == Len(s)
<1>1. /\ m \in Nat /\ n \in Nat
      /\ \A i \in 1 .. m : u[i] = s[i]
      /\ \A i \in 1 .. n : u[m + i] = t[i]
  BY JoinFacts
<1>. HIDE DEF u, m
<1>2. ASSUME NEW a \in 1 .. n + 1, Spared(t, a, n, f) PROVE Spared(u, m + a, m + n, f)
  <2>1. ASSUME NEW j \in m + a .. m + n PROVE ~(u[j].verb \in {"create", "unlink"} /\ u[j].f = f)
    <3>1. j - m \in a .. n /\ j - m \in 1 .. n /\ m + (j - m) = j
      BY <1>1
    <3>2. u[j] = t[j - m]
      BY <1>1, <3>1
    <3>. QED BY <1>2, <3>1, <3>2 DEF Spared
  <2>. QED BY <2>1 DEF Spared
<1>3. ASSUME NEW a \in 1 .. m + 1, Spared(s, a, m, f), Spared(t, 1, n, f)
      PROVE  Spared(u, a, m + n, f)
  <2>1. Spared(u, m + 1, m + n, f)
    BY <1>1, <1>2, <1>3
  <2>2. ASSUME NEW j \in a .. m + n PROVE ~(u[j].verb \in {"create", "unlink"} /\ u[j].f = f)
    <3>1. CASE j <= m
      <4>1. u[j] = s[j] /\ j \in a .. m
        BY <1>1, <3>1
      <4>. QED BY <1>3, <4>1 DEF Spared
    <3>2. CASE ~(j <= m)
      <4>1. j \in m + 1 .. m + n
        BY <1>1, <3>2
      <4>. QED BY <2>1, <4>1 DEF Spared
    <3>. QED BY <3>1, <3>2
  <2>. QED BY <2>2 DEF Spared
<1>4. CASE f \in D /\ Spared(t, 1, n, f)
  <2>1. Holds(s, m, f, C)
    BY <1>4 DEF m
  <2>2. CASE f \in C /\ Spared(s, 1, m, f)
    <3>1. Spared(u, 1, m + n, f)
      BY <1>1, <1>3, <1>4, <2>2
    <3>. QED BY <2>2, <3>1 DEF Holds, u, m
  <2>3. ASSUME NEW j \in 1 .. m, s[j] = Op("close", f), Spared(s, j + 1, m, f)
        PROVE  Holds(u, m + n, f, C)
    <3>1. Spared(u, j + 1, m + n, f)
      BY <1>1, <1>3, <1>4, <2>3
    <3>2. u[j] = Op("close", f) /\ j \in 1 .. m + n
      BY <1>1, <2>3
    <3>. QED BY <3>1, <3>2 DEF Holds
  <2>. QED BY <2>1, <2>2, <2>3 DEF Holds, u, m
<1>5. ASSUME NEW j \in 1 .. n, t[j] = Op("close", f), Spared(t, j + 1, n, f)
      PROVE  Holds(u, m + n, f, C)
  <2>1. Spared(u, m + (j + 1), m + n, f)
    BY <1>1, <1>2, <1>5
  <2>2. u[m + j] = Op("close", f) /\ m + j \in 1 .. m + n /\ (m + j) + 1 = m + (j + 1)
    BY <1>1, <1>5
  <2>. QED BY <2>1, <2>2 DEF Holds
<1>. QED BY <1>4, <1>5 DEF Holds, u, m

\* s leaves D current, t begins with D: together they run.
LEMMA RunsThen ==
  ASSUME NEW s \in Seq(AnOp), NEW t \in Seq(AnOp), NEW C, NEW D, NEW E,
         Runs(s, C, D), Runs(t, D, E)
  PROVE  Runs(s \o t, C, E)
<1>. DEFINE u == s \o t
            m == Len(s)
            n == Len(t)
<1>1. m \in Nat /\ n \in Nat /\ Len(u) = m + n
  BY JoinFacts
<1>2. \A i \in 1 .. m : u[i] = s[i]
  BY JoinFacts
<1>3. \A i \in 1 .. n : u[m + i] = t[i]
  BY JoinFacts
<1>4. ASSUME NEW f, NEW i \in 0 .. n, Holds(t, i, f, D) PROVE Holds(u, m + i, f, C)
  <2>1. f \in D => Holds(s, Len(s), f, C)
    BY DEF Runs, Leaves
  <2>. QED BY <1>4, <2>1, HoldsAfter
<1>5. ASSUME NEW f, NEW i \in 0 .. m, Holds(s, i, f, C) PROVE Holds(u, i, f, C)
  BY <1>5, HoldsBefore
<1>. HIDE DEF u
<1>6. Leaves(u, C, E)
  <2>1. ASSUME NEW f \in E PROVE Holds(u, Len(u), f, C)
    <3>1. Holds(t, n, f, D) /\ n \in 0 .. n
      BY <1>1 DEF Runs, Leaves
    <3>. QED BY <1>1, <1>4, <3>1
  <2>. QED BY <2>1 DEF Leaves
<1>7. ASSUME NEW i \in 1 .. Len(u), u[i].verb = "read" PROVE Holds(u, i - 1, u[i].f, C)
  <2>1. CASE i <= m
    <3>1. i \in 1 .. m /\ u[i] = s[i] /\ i - 1 \in 0 .. m
      BY <1>1, <1>2, <2>1
    <3>2. Holds(s, i - 1, s[i].f, C)
      BY <1>7, <3>1 DEF Runs, Reads
    <3>. QED BY <1>5, <3>1, <3>2
  <2>2. CASE ~(i <= m)
    <3>. DEFINE k == i - m
    <3>1. k \in 1 .. n /\ m + k = i /\ k - 1 \in 0 .. n /\ m + (k - 1) = i - 1
      BY <1>1, <2>2
    <3>. HIDE DEF k, m, n
    <3>2. u[i] = t[k]
      BY <1>3, <3>1
    <3>3. Holds(t, k - 1, t[k].f, D)
      BY <1>7, <3>1, <3>2 DEF Runs, Reads, n
    <3>4. Holds(u, m + (k - 1), t[k].f, C)
      BY <1>4, <3>1, <3>3
    <3>. QED BY <3>1, <3>2, <3>4
  <2>. QED BY <2>1, <2>2
<1>. QED BY <1>6, <1>7 DEF Runs, Reads, u

\* What is done to files is done by one or by the other.
LEMMA OfJoin ==
  ASSUME NEW s \in Seq(AnOp), NEW t \in Seq(AnOp), NEW verb
  PROVE  Of(s \o t, verb) = Of(s, verb) \cup Of(t, verb)
<1>. DEFINE u == s \o t
            m == Len(s)
            n == Len(t)
<1>1. /\ m \in Nat /\ n \in Nat /\ Len(u) = m + n
      /\ \A i \in 1 .. m : u[i] = s[i]
      /\ \A i \in 1 .. n : u[m + i] = t[i]
  BY JoinFacts
<1>. HIDE DEF u, m, n
<1>2. ASSUME NEW f \in Of(u, verb) PROVE f \in Of(s, verb) \cup Of(t, verb)
  <2>1. PICK i \in 1 .. Len(u) : u[i].verb = verb /\ f = u[i].f
    BY DEF Of
  <2>2. CASE i <= m
    BY <1>1, <2>1, <2>2 DEF Of, m
  <2>3. CASE ~(i <= m)
    <3>. DEFINE k == i - m
    <3>1. k \in 1 .. n /\ m + k = i
      BY <1>1, <2>3
    <3>. HIDE DEF k
    <3>. QED BY <1>1, <2>1, <3>1 DEF Of, n
  <2>. QED BY <2>2, <2>3
<1>3. ASSUME NEW f \in Of(s, verb) PROVE f \in Of(u, verb)
  <2>1. PICK i \in 1 .. m : s[i].verb = verb /\ f = s[i].f
    BY DEF Of, m
  <2>2. i \in 1 .. Len(u) /\ u[i] = s[i]
    BY <1>1
  <2>. QED BY <2>1, <2>2 DEF Of
<1>4. ASSUME NEW f \in Of(t, verb) PROVE f \in Of(u, verb)
  <2>1. PICK i \in 1 .. n : t[i].verb = verb /\ f = t[i].f
    BY DEF Of, n
  <2>2. m + i \in 1 .. Len(u) /\ u[m + i] = t[i]
    BY <1>1
  <2>. QED BY <2>1, <2>2 DEF Of
<1>. QED BY <1>2, <1>3, <1>4 DEF u

\* Input that s has had serves t as well.
LEMMA FedJoin ==
  ASSUME NEW s \in Seq(AnOp), NEW t \in Seq(AnOp), Fed(s)
  PROVE  /\ HasInput(s) \/ Fed(t) => Fed(s \o t)
         /\ HasInput(s) \/ HasInput(t) => HasInput(s \o t)
<1>. DEFINE u == s \o t
            m == Len(s)
            n == Len(t)
<1>1. /\ m \in Nat /\ n \in Nat /\ Len(u) = m + n
      /\ \A i \in 1 .. m : u[i] = s[i]
      /\ \A i \in 1 .. n : u[m + i] = t[i]
  BY JoinFacts
<1>. HIDE DEF u, m, n
<1>2. ASSUME HasInput(s) \/ Fed(t), NEW i \in 1 .. Len(u), u[i].verb = "close"
      PROVE  \E j \in 1 .. i - 1 : u[j].verb \in {"read", "source"}
  <2>1. CASE i <= m
    <3>1. PICK j \in 1 .. i - 1 : s[j].verb \in {"read", "source"}
      BY <1>1, <1>2, <2>1 DEF Fed, m
    <3>. QED BY <1>1, <2>1, <3>1
  <2>2. CASE ~(i <= m) /\ HasInput(s)
    <3>1. PICK j \in 1 .. m : s[j].verb \in {"read", "source"}
      BY <2>2 DEF HasInput, m
    <3>2. j \in 1 .. i - 1 /\ u[j] = s[j]
      BY <1>1, <2>2
    <3>. QED BY <3>1, <3>2
  <2>3. CASE ~(i <= m) /\ Fed(t)
    <3>. DEFINE k == i - m
    <3>1. k \in 1 .. n /\ m + k = i
      BY <1>1, <2>3
    <3>. HIDE DEF k
    <3>2. PICK j \in 1 .. k - 1 : t[j].verb \in {"read", "source"}
      BY <1>1, <1>2, <2>3, <3>1 DEF Fed, n
    <3>3. j \in 1 .. n /\ m + j \in 1 .. i - 1
      BY <1>1, <3>1
    <3>4. u[m + j] = t[j]
      BY <1>1, <3>3
    <3>. QED BY <3>2, <3>3, <3>4
  <2>. QED BY <1>2, <2>1, <2>2, <2>3
<1>3. HasInput(s) => HasInput(u)
  BY <1>1 DEF HasInput, m
<1>4. ASSUME HasInput(t) PROVE HasInput(u)
  <2>1. PICK j \in 1 .. n : t[j].verb \in {"read", "source"}
    BY <1>4 DEF HasInput, n
  <2>2. m + j \in 1 .. Len(u) /\ u[m + j] = t[j]
    BY <1>1
  <2>. QED BY <2>1, <2>2 DEF HasInput
<1>. QED BY <1>2, <1>3, <1>4 DEF Fed, u

(***************************************************************************)
(* What is shown of a part of a program: begun when the files of C are     *)
(* current it leaves those of D so, it writes files of T, takes away those *)
(* of U and announces the indexes of I.                                    *)
(***************************************************************************)
Part(s, C, D, T, U, I) ==
  /\ s \in Seq(AnOp) /\ Runs(s, C, D)
  /\ Of(s, "create") \cup Of(s, "close") \subseteq T
  /\ Of(s, "unlink") = U
  /\ Of(s, "index") = I

\* Two parts, one after the other, are a part.
LEMMA PartThen ==
  ASSUME NEW s, NEW t, NEW C, NEW D, NEW E, NEW T, NEW U, NEW I, NEW T2, NEW U2, NEW I2,
         Part(s, C, D, T, U, I), Part(t, D, E, T2, U2, I2)
  PROVE  Part(s \o t, C, E, T \cup T2, U \cup U2, I \cup I2)
<1>1. s \in Seq(AnOp) /\ t \in Seq(AnOp) /\ s \o t \in Seq(AnOp)
  BY JoinFacts DEF Part
<1>2. Runs(s \o t, C, E)
  BY <1>1, RunsThen DEF Part
<1>3. \A verb : Of(s \o t, verb) = Of(s, verb) \cup Of(t, verb)
  BY <1>1, OfJoin
<1>. QED
  <2>1. Of(s \o t, "create") \cup Of(s \o t, "close") \subseteq T \cup T2
    BY <1>3 DEF Part
  <2>2. Of(s \o t, "unlink") = U \cup U2 /\ Of(s \o t, "index") = I \cup I2
    BY <1>3 DEF Part
  <2>. QED BY <1>1, <1>2, <2>1, <2>2 DEF Part

Files(files) == {files[n] : n \in DOMAIN files}

\* The same step for each of several files.
Each(v, files) == [n \in DOMAIN files |-> Op(v, files[n])]

\* The three lists of operations are of one form.
LEMMA EachIsOpens == \A files : /\ Opens(files) = Each("read", files)
                                /\ Creates(files) = Each("create", files)
                                /\ Closes(files) = Each("close", files)
BY DEF Opens, Creates, Closes, Each

\* Such a list does one thing, to each of its files.
LEMMA EachFacts ==
  ASSUME NEW files \in Seq(Names), NEW v \in Verbs
  PROVE  /\ Each(v, files) \in Seq(AnOp)
         /\ Len(Each(v, files)) = Len(files) /\ Len(files) \in Nat
         /\ \A i \in 1 .. Len(files) : /\ Each(v, files)[i].verb = v
                                       /\ Each(v, files)[i].f = files[i]
                                       /\ Each(v, files)[i] = Op(v, files[i])
                                       /\ i \in DOMAIN files
         /\ Of(Each(v, files), v) = Files(files)
         /\ \A verb : verb # v => Of(Each(v, files), verb) = {}
<1>. DEFINE s == Each(v, files)
            m == Len(files)
<1>1. m \in Nat /\ DOMAIN files = 1 .. m /\ \A i \in 1 .. m : files[i] \in Names
  OBVIOUS
<1>2. s = [n \in 1 .. m |-> Op(v, files[n])]
  BY <1>1 DEF Each
<1>. HIDE DEF s, m
<1>3. ASSUME NEW i \in 1 .. m
      PROVE  Op(v, files[i]) \in AnOp /\ Op(v, files[i]).verb = v /\ Op(v, files[i]).f = files[i]
  BY <1>1 DEF Op, AnOp
<1>4. s \in Seq(AnOp) /\ Len(s) = m /\ \A i \in 1 .. m : s[i] = Op(v, files[i])
  BY <1>1, <1>2, <1>3
<1>5. Of(s, v) = Files(files)
  BY <1>1, <1>3, <1>4 DEF Of, Files
<1>6. ASSUME NEW verb, verb # v PROVE Of(s, verb) = {}
  BY <1>3, <1>4, <1>6 DEF Of
<1>. QED BY <1>1, <1>3, <1>4, <1>5, <1>6 DEF s, m

\* The fields of an operation.
LEMMA OpFields == \A v, f : Op(v, f).verb = v /\ Op(v, f).f = f
BY DEF Op

\* Opening files that are current disturbs nothing.
LEMMA OpensPart ==
  ASSUME NEW files \in Seq(Names), NEW C, Files(files) \subseteq C
  PROVE  /\ Part(Opens(files), C, C, {}, {}, {})
         /\ Fed(Opens(files)) /\ (files # <<>> => HasInput(Opens(files)))
<1>. DEFINE s == Opens(files)
<1>1. s = Each("read", files) /\ "read" \in Verbs
  BY EachIsOpens DEF Verbs
<1>2. /\ s \in Seq(AnOp) /\ Len(s) = Len(files) /\ Len(s) \in Nat
      /\ \A i \in 1 .. Len(s) : s[i].verb = "read" /\ s[i].f = files[i] /\ i \in DOMAIN files
      /\ \A i \in 1 .. Len(s) : s[i] = Op("read", files[i])
      /\ Of(s, "read") = Files(files)
      /\ \A verb : verb # "read" => Of(s, verb) = {}
  BY <1>1, EachFacts
<1>. HIDE DEF s
<1>3. \A n \in 0 .. Len(s) : \A f : Spared(s, 1, n, f)
  BY <1>2 DEF Spared
<1>4. Reads(s, C)
  <2>1. ASSUME NEW i \in 1 .. Len(s) PROVE Holds(s, i - 1, s[i].f, C)
    <3>1. i - 1 \in 0 .. Len(s) /\ i \in DOMAIN files
      BY <1>2
    <3>2. s[i].f \in C
      BY <1>2, <3>1 DEF Files
    <3>. QED BY <1>3, <3>1, <3>2 DEF Holds
  <2>. QED BY <2>1 DEF Reads
<1>5. Leaves(s, C, C)
  <2>1. Len(s) \in 0 .. Len(s)
    BY <1>2
  <2>. QED BY <1>3, <2>1 DEF Leaves, Holds
<1>6. Fed(s) /\ (files # <<>> => HasInput(s))
  <2>1. Fed(s)
    BY <1>2 DEF Fed
  <2>2. files # <<>> => 1 \in 1 .. Len(s)
    BY <1>2
  <2>. QED BY <1>2, <2>1, <2>2 DEF HasInput
<1>. QED BY <1>2, <1>4, <1>5, <1>6 DEF Part, Runs, s

\* Files that are created are not current.
LEMMA CreatesPart ==
  ASSUME NEW files \in Seq(Names), NEW C
  PROVE  /\ Part(Creates(files), C, C \ Files(files), Files(files), {}, {})
         /\ Fed(Creates(files))
<1>. DEFINE s == Creates(files)
<1>1. s = Each("create", files) /\ "create" \in Verbs
  BY EachIsOpens DEF Verbs
<1>2. /\ s \in Seq(AnOp) /\ Len(s) = Len(files) /\ Len(s) \in Nat
      /\ \A i \in 1 .. Len(s) : s[i].verb = "create" /\ s[i].f = files[i] /\ i \in DOMAIN files
      /\ \A i \in 1 .. Len(s) : s[i] = Op("create", files[i])
      /\ Of(s, "create") = Files(files)
      /\ \A verb : verb # "create" => Of(s, verb) = {}
  BY <1>1, EachFacts
<1>. HIDE DEF s
<1>3. Reads(s, C) /\ Fed(s)
  BY <1>2 DEF Reads, Fed
<1>4. Leaves(s, C, C \ Files(files))
  <2>1. ASSUME NEW f \in C \ Files(files) PROVE Spared(s, 1, Len(s), f)
    BY <1>2 DEF Spared, Files
  <2>. QED BY <2>1 DEF Leaves, Holds
<1>. QED BY <1>2, <1>3, <1>4 DEF Part, Runs, s

\* Files that are closed are.
LEMMA ClosesPart ==
  ASSUME NEW files \in Seq(Names), NEW C
  PROVE  Part(Closes(files), C, C \cup Files(files), Files(files), {}, {})
<1>. DEFINE s == Closes(files)
<1>1. s = Each("close", files) /\ "close" \in Verbs
  BY EachIsOpens DEF Verbs
<1>2. /\ s \in Seq(AnOp) /\ Len(s) = Len(files) /\ Len(s) \in Nat
      /\ \A i \in 1 .. Len(s) : s[i].verb = "close" /\ s[i].f = files[i] /\ i \in DOMAIN files
      /\ \A i \in 1 .. Len(s) : s[i] = Op("close", files[i])
      /\ Of(s, "close") = Files(files)
      /\ \A verb : verb # "close" => Of(s, verb) = {}
  BY <1>1, EachFacts
<1>. HIDE DEF s
<1>3. Reads(s, C)
  BY <1>2 DEF Reads
<1>4. \A a \in 1 .. Len(s) + 1 : \A f : Spared(s, a, Len(s), f)
  BY <1>2 DEF Spared
<1>5. Leaves(s, C, C \cup Files(files))
  <2>1. ASSUME NEW f \in C PROVE Holds(s, Len(s), f, C)
    BY <1>2, <1>4 DEF Holds
  <2>2. ASSUME NEW f \in Files(files) PROVE Holds(s, Len(s), f, C)
    <3>1. PICK j \in 1 .. Len(s) : files[j] = f
      BY <1>2 DEF Files
    <3>2. s[j] = Op("close", f) /\ Spared(s, j + 1, Len(s), f)
      BY <1>2, <1>4, <3>1
    <3>. QED BY <3>2 DEF Holds
  <2>. QED BY <2>1, <2>2 DEF Leaves
<1>. QED BY <1>2, <1>3, <1>5 DEF Part, Runs, s

\* A single step.
LEMMA OneFacts ==
  ASSUME NEW o \in AnOp
  PROVE  /\ <<o>> \in Seq(AnOp) /\ Len(<<o>>) = 1 /\ <<o>>[1] = o
         /\ Of(<<o>>, o.verb) = {o.f} /\ \A verb : verb # o.verb => Of(<<o>>, verb) = {}
BY DEF Of

\* Reading the text touches no file, and is input.
LEMMA SourcePart == \A C : Part(Source, C, C, {}, {}, {}) /\ Fed(Source) /\ HasInput(Source)
<1>. TAKE C
<1>. DEFINE o == Op("source", "source")
<1>1. o \in AnOp /\ o.verb = "source"
  BY DEF Op, AnOp, Verbs, Names
<1>2. Source = <<o>>
  BY DEF Source
<1>. HIDE DEF o
<1>3. /\ Source \in Seq(AnOp) /\ Len(Source) = 1 /\ Source[1].verb = "source"
      /\ \A verb : verb # "source" => Of(Source, verb) = {}
  BY <1>1, <1>2, OneFacts
<1>4. Reads(Source, C) /\ Fed(Source) /\ HasInput(Source)
  BY <1>3 DEF Reads, Fed, HasInput
<1>5. Leaves(Source, C, C)
  BY <1>3 DEF Leaves, Holds, Spared
<1>. QED BY <1>3, <1>4, <1>5 DEF Part, Runs

\* A file that is unlinked is not current.
LEMMA UnlinkPart ==
  ASSUME NEW f \in Names, NEW C
  PROVE  /\ Part(<<Op("unlink", f)>>, C, C \ {f}, {}, {f}, {})
         /\ Fed(<<Op("unlink", f)>>)
<1>. DEFINE o == Op("unlink", f)
            s == <<o>>
<1>1. o \in AnOp /\ o.verb = "unlink" /\ o.f = f
  BY DEF Op, AnOp, Verbs
<1>. HIDE DEF o
<1>2. /\ s \in Seq(AnOp) /\ Len(s) = 1 /\ s[1] = o
      /\ Of(s, "unlink") = {f} /\ \A verb : verb # "unlink" => Of(s, verb) = {}
  BY <1>1, OneFacts
<1>. HIDE DEF s
<1>3. Reads(s, C) /\ Fed(s)
  BY <1>1, <1>2 DEF Reads, Fed
<1>4. Leaves(s, C, C \ {f})
  BY <1>1, <1>2 DEF Leaves, Holds, Spared
<1>. QED BY <1>2, <1>3, <1>4 DEF Part, Runs, s, o

\* Setting a bit of the header touches no file.
LEMMA IndexPart ==
  ASSUME NEW n \in 1 .. 3, NEW C
  PROVE  Part(<<Op("index", n)>>, C, C, {}, {}, {n}) /\ Fed(<<Op("index", n)>>)
<1>. DEFINE o == Op("index", n)
            s == <<o>>
<1>1. o \in AnOp /\ o.verb = "index" /\ o.f = n
  BY DEF Op, AnOp, Verbs
<1>. HIDE DEF o
<1>2. /\ s \in Seq(AnOp) /\ Len(s) = 1 /\ s[1] = o
      /\ Of(s, "index") = {n} /\ \A verb : verb # "index" => Of(s, verb) = {}
  BY <1>1, OneFacts
<1>. HIDE DEF s
<1>3. Reads(s, C) /\ Fed(s)
  BY <1>1, <1>2 DEF Reads, Fed
<1>4. Leaves(s, C, C)
  BY <1>1, <1>2 DEF Leaves, Holds, Spared
<1>. QED BY <1>2, <1>3, <1>4 DEF Part, Runs, s, o

\* Nothing at all.
LEMMA NoPart == \A C : Part(<<>>, C, C, {}, {}, {})
<1>. TAKE C
<1>1. <<>> \in Seq(AnOp) /\ Len(<<>>) = 0
  OBVIOUS
<1>2. Runs(<<>>, C, C)
  BY <1>1 DEF Runs, Reads, Leaves, Holds, Spared
<1>3. \A verb : Of(<<>>, verb) = {}
  BY <1>1 DEF Of
<1>. QED BY <1>1, <1>2, <1>3 DEF Part

\* A part needs no more than it needs, and leaves whatever it leaves.
LEMMA PartWeaker ==
  ASSUME NEW s, NEW C, NEW D, NEW E, NEW T, NEW T2, NEW U, NEW I,
         Part(s, C, D, T, U, I), E \subseteq D, T \subseteq T2
  PROVE  Part(s, C, E, T2, U, I)
BY DEF Part, Runs, Leaves

(***************************************************************************)
(* The first step of s is done: what is left of s does what s did, if the  *)
(* files that are now current are those that step leaves so.               *)
(***************************************************************************)
LEMMA TailHolds ==
  ASSUME NEW s \in Seq(AnOp), s # <<>>, NEW n \in 1 .. Len(s), NEW f, NEW C, NEW D,
         Holds(s, n, f, C),
         f \in C /\ ~(Head(s).verb \in {"create", "unlink"} /\ Head(s).f = f) => f \in D,
         Head(s) = Op("close", f) => f \in D
  PROVE  Holds(Tail(s), n - 1, f, D)
<1>. DEFINE t == Tail(s)
            o == Head(s)
<1>1. /\ o = s[1] /\ Len(s) \in Nat /\ n \in Nat
      /\ \A i \in 1 .. Len(s) - 1 : t[i] = s[i + 1]
  OBVIOUS
<1>. HIDE DEF t, o
<1>2. ASSUME NEW a \in 1 .. n, Spared(s, a + 1, n, f) PROVE Spared(t, a, n - 1, f)
  <2>1. ASSUME NEW j \in a .. n - 1 PROVE ~(t[j].verb \in {"create", "unlink"} /\ t[j].f = f)
    <3>1. j \in 1 .. Len(s) - 1 /\ j + 1 \in a + 1 .. n
      BY <1>1
    <3>. QED BY <1>1, <1>2, <3>1 DEF Spared
  <2>. QED BY <2>1 DEF Spared
<1>3. CASE f \in C /\ Spared(s, 1, n, f)
  <2>1. f \in D /\ 1 \in 1 .. n /\ Spared(s, 1 + 1, n, f)
    BY <1>1, <1>3 DEF Spared, o
  <2>2. Spared(t, 1, n - 1, f)
    BY <1>2, <2>1
  <2>. QED BY <2>1, <2>2 DEF Holds, t
<1>4. ASSUME NEW j \in 1 .. n, s[j] = Op("close", f), Spared(s, j + 1, n, f)
      PROVE  Holds(t, n - 1, f, D)
  <2>1. CASE j = 1
    <3>1. f \in D
      BY <1>1, <1>4, <2>1 DEF o
    <3>2. Spared(t, 1, n - 1, f)
      BY <1>2, <1>4, <2>1
    <3>. QED BY <3>1, <3>2 DEF Holds
  <2>2. CASE j # 1
    <3>. DEFINE k == j - 1
    <3>1. k \in 1 .. n - 1 /\ k \in 1 .. n /\ k \in 1 .. Len(s) - 1 /\ k + 1 = j
      BY <1>1, <2>2
    <3>. HIDE DEF k
    <3>2. t[k] = Op("close", f)
      BY <1>1, <1>4, <3>1
    <3>3. Spared(s, (k + 1) + 1, n, f) /\ k + 1 \in 1 .. n
      BY <1>4, <3>1
    <3>4. Spared(t, k + 1, n - 1, f)
      BY <1>2, <3>3
    <3>. QED BY <3>1, <3>2, <3>4 DEF Holds
  <2>. QED BY <2>1, <2>2
<1>. QED BY <1>3, <1>4 DEF Holds, t

\* The first operation and the rest.
LEMMA TailFacts ==
  ASSUME NEW s \in Seq(AnOp), s # <<>>
  PROVE  /\ Tail(s) \in Seq(AnOp) /\ Head(s) \in AnOp /\ Head(s) = s[1]
         /\ Len(s) \in Nat \ {0} /\ Len(Tail(s)) = Len(s) - 1
         /\ \A i \in 1 .. Len(s) - 1 : Tail(s)[i] = s[i + 1]
OBVIOUS

\* When the first step is done, the rest runs from there.
LEMMA TailRuns ==
  ASSUME NEW s \in Seq(AnOp), s # <<>>, NEW C, NEW D, NEW E, Runs(s, C, E),
         \A f \in C : ~(Head(s).verb \in {"create", "unlink"} /\ Head(s).f = f) => f \in D,
         Head(s).verb = "close" => Head(s).f \in D
  PROVE  Runs(Tail(s), D, E) /\ (Head(s).verb = "read" => Head(s).f \in C)
<1>. DEFINE t == Tail(s)
            m == Len(s)
<1>1. /\ Head(s) = s[1] /\ m \in Nat \ {0} /\ Len(t) = m - 1
      /\ \A i \in 1 .. m - 1 : t[i] = s[i + 1]
  BY TailFacts
<1>2. ASSUME NEW n \in 1 .. m, NEW f, Holds(s, n, f, C) PROVE Holds(t, n - 1, f, D)
  <2>1. Head(s) = Op("close", f) => f \in D
    BY OpFields
  <2>. QED BY <1>2, <2>1, TailHolds
<1>. HIDE DEF t, m
<1>3. ASSUME NEW i \in 1 .. m - 1, t[i].verb = "read" PROVE Holds(t, i - 1, t[i].f, D)
  <2>1. i \in 1 .. m /\ i + 1 \in 1 .. m /\ t[i] = s[i + 1] /\ (i + 1) - 1 = i
    BY <1>1
  <2>2. Holds(s, i, s[i + 1].f, C)
    BY <1>3, <2>1 DEF Runs, Reads, m
  <2>. QED BY <1>2, <2>1, <2>2
<1>4. ASSUME NEW f \in E PROVE Holds(t, m - 1, f, D)
  <2>1. Holds(s, m, f, C) /\ m \in 1 .. m
    BY <1>1 DEF Runs, Leaves, m
  <2>. QED BY <1>2, <2>1
<1>5. Head(s).verb = "read" => Head(s).f \in C
  <2>1. Head(s).verb = "read" => Holds(s, 0, Head(s).f, C)
    <3>1. 1 \in 1 .. m /\ 1 - 1 = 0
      BY <1>1
    <3>. QED BY <1>1, <3>1 DEF Runs, Reads, m
  <2>. QED BY <2>1 DEF Holds
<1>. QED BY <1>1, <1>3, <1>4, <1>5 DEF Runs, Reads, Leaves, t

\* What the rest does, and what the first step did.
LEMMA TailOf ==
  ASSUME NEW s \in Seq(AnOp), s # <<>>, NEW verb
  PROVE  /\ Head(s).verb = verb => Of(s, verb) = {Head(s).f} \cup Of(Tail(s), verb)
         /\ Head(s).verb # verb => Of(s, verb) = Of(Tail(s), verb)
<1>. DEFINE t == Tail(s)
            m == Len(s)
<1>1. /\ Head(s) = s[1] /\ m \in Nat \ {0} /\ Len(t) = m - 1
      /\ \A i \in 1 .. m - 1 : t[i] = s[i + 1]
  BY TailFacts
<1>. HIDE DEF t, m
<1>2. ASSUME NEW f \in Of(s, verb) PROVE (Head(s).verb = verb /\ f = Head(s).f) \/ f \in Of(t, verb)
  <2>1. PICK i \in 1 .. m : s[i].verb = verb /\ f = s[i].f
    BY DEF Of, m
  <2>2. CASE i = 1
    BY <1>1, <2>1, <2>2
  <2>3. CASE i # 1
    <3>. DEFINE k == i - 1
    <3>1. k \in 1 .. m - 1 /\ k + 1 = i
      BY <1>1, <2>3
    <3>. HIDE DEF k
    <3>. QED BY <1>1, <2>1, <3>1 DEF Of
  <2>. QED BY <2>2, <2>3
<1>3. ASSUME NEW f \in Of(t, verb) PROVE f \in Of(s, verb)
  <2>1. PICK i \in 1 .. m - 1 : t[i].verb = verb /\ f = t[i].f
    BY <1>1 DEF Of
  <2>2. i + 1 \in 1 .. m /\ s[i + 1] = t[i]
    BY <1>1
  <2>. QED BY <2>1, <2>2 DEF Of, m
<1>4. Head(s).verb = verb => Head(s).f \in Of(s, verb)
  <2>1. 1 \in 1 .. m
    BY <1>1
  <2>. QED BY <1>1, <2>1 DEF Of, m
<1>. QED BY <1>2, <1>3, <1>4 DEF t

\* The first step closes nothing; while it reads nothing, input is still to come.
LEMMA TailFed ==
  ASSUME NEW s \in Seq(AnOp), s # <<>>, Fed(s)
  PROVE  /\ Head(s).verb # "close"
         /\ Head(s).verb \notin {"read", "source"} => Fed(Tail(s))
<1>. DEFINE t == Tail(s)
            m == Len(s)
<1>1. /\ Head(s) = s[1] /\ m \in Nat \ {0} /\ Len(t) = m - 1
      /\ \A i \in 1 .. m - 1 : t[i] = s[i + 1]
  BY TailFacts
<1>. HIDE DEF t
<1>2. s[1].verb # "close"
  BY <1>1 DEF Fed
<1>3. ASSUME s[1].verb \notin {"read", "source"}, NEW i \in 1 .. m - 1, t[i].verb = "close"
      PROVE  \E j \in 1 .. i - 1 : t[j].verb \in {"read", "source"}
  <2>1. i + 1 \in 1 .. m /\ t[i] = s[i + 1]
    BY <1>1
  <2>2. PICK j \in 1 .. (i + 1) - 1 : s[j].verb \in {"read", "source"}
    BY <1>3, <2>1 DEF Fed
  <2>. DEFINE k == j - 1
  <2>3. k \in 1 .. m - 1 /\ k \in 1 .. i - 1 /\ k + 1 = j
    BY <1>1, <1>3, <2>2
  <2>. HIDE DEF k
  <2>4. t[k] = s[j]
    BY <1>1, <2>3
  <2>. QED BY <2>2, <2>3, <2>4
<1>. QED BY <1>1, <1>2, <1>3 DEF Fed, t

\* A part that a program can begin with: it closes nothing before it has input.
Whole(s, C, D, T, U, I) == Part(s, C, D, T, U, I) /\ Fed(s)

\* A program goes on with a part, having had input.
LEMMA ThenPart ==
  ASSUME NEW s, NEW t, NEW C, NEW D, NEW E, NEW T, NEW U, NEW I, NEW T2, NEW U2, NEW I2,
         Whole(s, C, D, T, U, I), HasInput(s), Part(t, D, E, T2, U2, I2)
  PROVE  Whole(s \o t, C, E, T \cup T2, U \cup U2, I \cup I2) /\ HasInput(s \o t)
<1>1. s \in Seq(AnOp) /\ t \in Seq(AnOp)
  BY DEF Whole, Part
<1>2. Fed(s \o t) /\ HasInput(s \o t)
  BY <1>1, FedJoin DEF Whole
<1>. QED BY <1>2, PartThen DEF Whole

\* It goes on by opening files.
LEMMA ThenOpens ==
  ASSUME NEW s, NEW C, NEW D, NEW T, NEW U, NEW I, Whole(s, C, D, T, U, I),
         NEW files \in Seq(Names), Files(files) \subseteq D
  PROVE  /\ Whole(s \o Opens(files), C, D, T, U, I)
         /\ HasInput(s) \/ files # <<>> => HasInput(s \o Opens(files))
<1>1. Part(Opens(files), D, D, {}, {}, {})
  BY OpensPart
<1>2. s \in Seq(AnOp) /\ Opens(files) \in Seq(AnOp)
  BY <1>1 DEF Whole, Part
<1>3. Part(s \o Opens(files), C, D, T \cup {}, U \cup {}, I \cup {})
  BY <1>1, PartThen DEF Whole
<1>4. T \cup {} = T /\ U \cup {} = U /\ I \cup {} = I
  OBVIOUS
<1>5. Fed(Opens(files)) /\ (files # <<>> => HasInput(Opens(files)))
  BY OpensPart
<1>. QED BY <1>2, <1>3, <1>4, <1>5, FedJoin DEF Whole

\* It goes on by reading the text.
LEMMA ThenSource ==
  ASSUME NEW s, NEW C, NEW D, NEW T, NEW U, NEW I, Whole(s, C, D, T, U, I)
  PROVE  Whole(s \o Source, C, D, T, U, I) /\ HasInput(s \o Source)
<1>1. Part(Source, D, D, {}, {}, {})
  BY SourcePart
<1>2. s \in Seq(AnOp) /\ Source \in Seq(AnOp)
  BY <1>1 DEF Whole, Part
<1>3. Part(s \o Source, C, D, T \cup {}, U \cup {}, I \cup {})
  BY <1>1, PartThen DEF Whole
<1>4. T \cup {} = T /\ U \cup {} = U /\ I \cup {} = I
  OBVIOUS
<1>5. Fed(Source) /\ HasInput(Source)
  BY SourcePart
<1>. QED BY <1>2, <1>3, <1>4, <1>5, FedJoin DEF Whole

\* It goes on by creating files.
LEMMA ThenCreates ==
  ASSUME NEW s, NEW C, NEW D, NEW T, NEW U, NEW I, Whole(s, C, D, T, U, I),
         NEW files \in Seq(Names)
  PROVE  /\ Whole(s \o Creates(files), C, D \ Files(files), T \cup Files(files), U, I)
         /\ HasInput(s) => HasInput(s \o Creates(files))
<1>. DEFINE F == Files(files)
<1>1. Part(Creates(files), D, D \ F, F, {}, {})
  BY CreatesPart
<1>. HIDE DEF F
<1>2. s \in Seq(AnOp) /\ Creates(files) \in Seq(AnOp)
  BY <1>1 DEF Whole, Part
<1>3. Part(s \o Creates(files), C, D \ F, T \cup F, U \cup {}, I \cup {})
  BY <1>1, PartThen DEF Whole
<1>4. U \cup {} = U /\ I \cup {} = I
  OBVIOUS
<1>5. Fed(Creates(files))
  BY CreatesPart
<1>. QED BY <1>2, <1>3, <1>4, <1>5, FedJoin DEF Whole, F

\* It goes on by closing files, having had input.
LEMMA ThenCloses ==
  ASSUME NEW s, NEW C, NEW D, NEW T, NEW U, NEW I, Whole(s, C, D, T, U, I), HasInput(s),
         NEW files \in Seq(Names)
  PROVE  /\ Whole(s \o Closes(files), C, D \cup Files(files), T \cup Files(files), U, I)
         /\ HasInput(s \o Closes(files))
<1>. DEFINE F == Files(files)
<1>1. Part(Closes(files), D, D \cup F, F, {}, {})
  BY ClosesPart
<1>. HIDE DEF F
<1>2. /\ Whole(s \o Closes(files), C, D \cup F, T \cup F, U \cup {}, I \cup {})
      /\ HasInput(s \o Closes(files))
  BY <1>1, ThenPart
<1>3. U \cup {} = U /\ I \cup {} = I
  OBVIOUS
<1>. QED BY <1>2, <1>3 DEF F

\* Of what a program leaves current one may forget.
LEMMA WholeWeaker ==
  ASSUME NEW s, NEW C, NEW D, NEW E, NEW T, NEW T2, NEW U, NEW I,
         Whole(s, C, D, T, U, I), E \subseteq D, T \subseteq T2
  PROVE  Whole(s, C, E, T2, U, I)
BY PartWeaker DEF Whole

\* The sets of files that sequences list.
LEMMA FilesListed ==
  /\ Files(<<>>) = {}
  /\ \A a : Files(<<a>>) = {a}
  /\ \A a, b : Files(<<a, b>>) = {a, b}
  /\ \A a, b, c : Files(<<a, b, c>>) = {a, b, c}
  /\ \A a, b, c, d : Files(<<a, b, c, d>>) = {a, b, c, d}
BY DEF Files

\* Lists of one to four names.
LEMMA FilesSeq ==
  /\ <<>> \in Seq(Names)
  /\ \A a \in Names : <<a>> \in Seq(Names) /\ <<a>> # <<>>
  /\ \A a, b \in Names : <<a, b>> \in Seq(Names) /\ <<a, b>> # <<>>
  /\ \A a, b, c \in Names : <<a, b, c>> \in Seq(Names) /\ <<a, b, c>> # <<>>
  /\ \A a, b, c, d \in Names : <<a, b, c, d>> \in Seq(Names) /\ <<a, b, c, d>> # <<>>
OBVIOUS

\* The files of two lists.
LEMMA FilesJoin ==
  ASSUME NEW s \in Seq(Names), NEW t \in Seq(Names)
  PROVE  s \o t \in Seq(Names) /\ Files(s \o t) = Files(s) \cup Files(t)
<1>. DEFINE u == s \o t
            m == Len(s)
            n == Len(t)
<1>1. /\ m \in Nat /\ n \in Nat /\ Len(u) = m + n /\ u \in Seq(Names)
      /\ \A i \in 1 .. m : u[i] = s[i]
      /\ \A i \in 1 .. n : u[m + i] = t[i]
  BY JoinFacts
<1>2. DOMAIN s = 1 .. m /\ DOMAIN t = 1 .. n /\ DOMAIN u = 1 .. Len(u)
  BY <1>1
<1>. HIDE DEF u, m, n
<1>3. ASSUME NEW f \in Files(u) PROVE f \in Files(s) \cup Files(t)
  <2>1. PICK i \in 1 .. m + n : u[i] = f
    BY <1>1, <1>2 DEF Files
  <2>2. CASE i <= m
    BY <1>1, <1>2, <2>1, <2>2 DEF Files
  <2>3. CASE ~(i <= m)
    <3>. DEFINE k == i - m
    <3>1. k \in 1 .. n /\ m + k = i
      BY <1>1, <2>3
    <3>. HIDE DEF k
    <3>. QED BY <1>1, <1>2, <2>1, <3>1 DEF Files
  <2>. QED BY <2>2, <2>3
<1>4. Files(s) \subseteq Files(u)
  BY <1>1, <1>2 DEF Files
<1>5. ASSUME NEW f \in Files(t) PROVE f \in Files(u)
  <2>1. PICK i \in 1 .. n : t[i] = f
    BY <1>2 DEF Files
  <2>2. m + i \in 1 .. m + n /\ u[m + i] = f
    BY <1>1, <2>1
  <2>. QED BY <1>1, <1>2, <2>2 DEF Files
<1>. QED BY <1>1, <1>3, <1>4, <1>5 DEF u

ParagraphFile == IF config.level = 3 THEN {"invf.paragraph"} ELSE {}

\* The file of the counts by paragraph, at level 3.
LEMMA ParagraphListed == Paragraph \in Seq(Names) /\ Files(Paragraph) = ParagraphFile
<1>1. CASE config.level = 3
  <2>1. Paragraph = <<"invf.paragraph">> /\ ParagraphFile = {"invf.paragraph"} /\ "invf.paragraph" \in Names
    BY <1>1 DEF Paragraph, ParagraphFile, Names
  <2>. QED BY <2>1, FilesListed, FilesSeq
<1>2. CASE config.level # 3
  <2>1. Paragraph = <<>> /\ ParagraphFile = {}
    BY <1>2 DEF Paragraph, ParagraphFile
  <2>. QED BY <2>1, FilesListed, FilesSeq
<1>. QED BY <1>1, <1>2

\* A list of files: names, at least one, and these.
Lists(files, F) == files \in Seq(Names) /\ files # <<>> /\ Files(files) = F

\* A list of one file.
LEMMA OneListed == \A a \in Names : Lists(<<a>>, {a})
BY FilesListed, FilesSeq DEF Lists

\* Of two.
LEMMA TwoListed == \A a, b \in Names : Lists(<<a, b>>, {a, b})
BY FilesListed, FilesSeq DEF Lists

\* Of three.
LEMMA ThreeListed == \A a, b, c \in Names : Lists(<<a, b, c>>, {a, b, c})
BY FilesListed, FilesSeq DEF Lists

\* Of four.
LEMMA FourListed == \A a, b, c, d \in Names : Lists(<<a, b, c, d>>, {a, b, c, d})
BY FilesListed, FilesSeq DEF Lists

(***************************************************************************)
(* A program that reads some files and writes one.                         *)
(***************************************************************************)
LEMMA WritesOne ==
  ASSUME NEW C, NEW from, NEW F, Lists(from, F), F \subseteq C, NEW g \in Names
  PROVE  /\ Whole(Opens(from) \o Creates(<<g>>) \o Closes(<<g>>), C, C \cup {g}, {g}, {}, {})
         /\ HasInput(Opens(from) \o Creates(<<g>>) \o Closes(<<g>>))
<1>. DEFINE a == Opens(from)
            b == a \o Creates(<<g>>)
            c == b \o Closes(<<g>>)
<1>1. from \in Seq(Names) /\ from # <<>> /\ Files(from) = F /\ <<g>> \in Seq(Names) /\ Files(<<g>>) = {g}
  BY OneListed DEF Lists
<1>2. Whole(a, C, C, {}, {}, {}) /\ HasInput(a)
  BY <1>1, OpensPart DEF Whole
<1>. HIDE DEF a
<1>3. Whole(b, C, C \ {g}, {g}, {}, {}) /\ HasInput(b)
  <2>1. Whole(b, C, C \ Files(<<g>>), {} \cup Files(<<g>>), {}, {}) /\ HasInput(b)
    BY <1>1, <1>2, ThenCreates
  <2>2. {} \cup {g} = {g}
    OBVIOUS
  <2>. QED BY <1>1, <2>1, <2>2
<1>. HIDE DEF b
<1>4. Whole(c, C, (C \ {g}) \cup {g}, {g} \cup {g}, {}, {}) /\ HasInput(c)
  BY <1>1, <1>3, ThenCloses
<1>5. (C \ {g}) \cup {g} = C \cup {g} /\ {g} \cup {g} = {g}
  OBVIOUS
<1>. QED BY <1>4, <1>5 DEF a, b, c

\* mg_perf_hash_build makes the hash function.
LEMMA PerfHashWhole ==
  ASSUME NEW C, "invf.dict" \in C
  PROVE  Whole(PerfHashBuild, C, C \cup {"invf.dict.hash"}, {"invf.dict.hash"}, {}, {})
<1>1. "invf.dict" \in Names /\ "invf.dict.hash" \in Names
  BY DEF Names
<1>2. Lists(<<"invf.dict">>, {"invf.dict"}) /\ {"invf.dict"} \subseteq C
  BY <1>1, OneListed
<1>. QED BY <1>1, <1>2, WritesOne DEF PerfHashBuild

\* mg_compression_dict makes the dictionary of the text.
LEMMA CompressionDictWhole ==
  ASSUME NEW C, "text.stats" \in C
  PROVE  Whole(CompressionDict, C, C \cup {"text.dict"}, {"text.dict"}, {}, {})
<1>1. "text.stats" \in Names /\ "text.dict" \in Names
  BY DEF Names
<1>2. Lists(<<"text.stats">>, {"text.stats"}) /\ {"text.stats"} \subseteq C
  BY <1>1, OneListed
<1>. QED BY <1>1, <1>2, WritesOne DEF CompressionDict

\* mg_invf_dict makes the dictionary of the stems.
LEMMA InvfDictWhole ==
  ASSUME NEW C, {"invf.dict", "invf.idx"} \subseteq C
  PROVE  Whole(InvfDict, C, C \cup {"invf.dict.blocked"}, {"invf.dict.blocked"}, {}, {})
<1>1. "invf.dict" \in Names /\ "invf.idx" \in Names /\ "invf.dict.blocked" \in Names
  BY DEF Names
<1>2. Lists(<<"invf.dict", "invf.idx">>, {"invf.dict", "invf.idx"})
  BY <1>1, TwoListed
<1>. QED BY <1>1, <1>2, WritesOne DEF InvfDict

\* mg_stem_idx makes an index of stems and sets its bit.
LEMMA StemIdxWhole ==
  ASSUME NEW C, "invf.dict.blocked" \in C, NEW n \in 1 .. 3
  PROVE  Whole(StemIdx(n), C, C \cup {StemFiles[n]}, {StemFiles[n]}, {}, {n})
<1>. DEFINE g == StemFiles[n]
            s == Opens(<<"invf.dict.blocked">>) \o Creates(<<g>>) \o Closes(<<g>>)
<1>1. "invf.dict.blocked" \in Names /\ g \in Names
  BY DEF Names, StemFiles
<1>2. Lists(<<"invf.dict.blocked">>, {"invf.dict.blocked"}) /\ {"invf.dict.blocked"} \subseteq C
  BY <1>1, OneListed
<1>3. StemIdx(n) = s \o <<Op("index", n)>>
  BY DEF StemIdx
<1>. HIDE DEF g
<1>4. Whole(s, C, C \cup {g}, {g}, {}, {}) /\ HasInput(s)
  BY <1>1, <1>2, WritesOne
<1>. HIDE DEF s
<1>5. Part(<<Op("index", n)>>, C \cup {g}, C \cup {g}, {}, {}, {n})
  BY IndexPart
<1>6. Whole(s \o <<Op("index", n)>>, C, C \cup {g}, {g} \cup {}, {} \cup {}, {} \cup {n})
  BY <1>4, <1>5, ThenPart
<1>7. {g} \cup {} = {g} /\ {} \cup {} = {} /\ {} \cup {n} = {n}
  OBVIOUS
<1>. QED BY <1>3, <1>6, <1>7 DEF g

(***************************************************************************)
(* The first pass.                                                         *)
(***************************************************************************)
Pass1Files == {"invf.chunk", "text.stats", "invf.dict", "invf.chunk.trans"}

\* The first pass makes four files.
LEMMA Passes1Whole == \A C : Whole(Passes1, C, C \cup Pass1Files, Pass1Files, {}, {})
<1>. TAKE C
<1>. DEFINE f1 == <<"invf.chunk">>
            f2 == <<"text.stats", "invf.dict">>
            f3 == <<"invf.dict">>
            f4 == <<"invf.chunk.trans">>
            f5 == <<"invf.chunk.trans", "invf.chunk", "text.stats">>
            s1 == Creates(f1)
            s2 == s1 \o Source
            s3 == s2 \o Creates(f2)
            s4 == s3 \o Closes(f3)
            s5 == s4 \o Creates(f4)
            s6 == s5 \o Closes(f5)
<1>1. /\ Lists(f1, {"invf.chunk"}) /\ Lists(f2, {"text.stats", "invf.dict"})
      /\ Lists(f3, {"invf.dict"}) /\ Lists(f4, {"invf.chunk.trans"})
      /\ Lists(f5, {"invf.chunk.trans", "invf.chunk", "text.stats"})
  <2>1. Pass1Files \subseteq Names
    BY DEF Names, Pass1Files
  <2>. QED BY <2>1, OneListed, TwoListed, ThreeListed DEF Pass1Files
<1>2. Passes1 = s6
  BY DEF Passes1
<1>. HIDE DEF f1, f2, f3, f4, f5
<1>3. Whole(s1, C, C \ Files(f1), Files(f1), {}, {})
  BY <1>1, CreatesPart DEF Whole, Lists
<1>. HIDE DEF s1
<1>4. Whole(s2, C, C \ Files(f1), Files(f1), {}, {}) /\ HasInput(s2)
  BY <1>3, ThenSource
<1>. HIDE DEF s2
<1>5. /\ Whole(s3, C, (C \ Files(f1)) \ Files(f2), Files(f1) \cup Files(f2), {}, {})
      /\ HasInput(s3)
  BY <1>1, <1>4, ThenCreates DEF Lists
<1>. HIDE DEF s3
<1>6. /\ Whole(s4, C, ((C \ Files(f1)) \ Files(f2)) \cup Files(f3),
               (Files(f1) \cup Files(f2)) \cup Files(f3), {}, {})
      /\ HasInput(s4)
  BY <1>1, <1>5, ThenCloses DEF Lists
<1>. HIDE DEF s4
<1>7. /\ Whole(s5, C, (((C \ Files(f1)) \ Files(f2)) \cup Files(f3)) \ Files(f4),
               ((Files(f1) \cup Files(f2)) \cup Files(f3)) \cup Files(f4), {}, {})
      /\ HasInput(s5)
  BY <1>1, <1>6, ThenCreates DEF Lists
<1>. HIDE DEF s5
<1>8. Whole(s6, C, ((((C \ Files(f1)) \ Files(f2)) \cup Files(f3)) \ Files(f4)) \cup Files(f5),
            (((Files(f1) \cup Files(f2)) \cup Files(f3)) \cup Files(f4)) \cup Files(f5), {}, {})
  BY <1>1, <1>7, ThenCloses DEF Lists
<1>9. /\ C \cup Pass1Files
           \subseteq ((((C \ Files(f1)) \ Files(f2)) \cup Files(f3)) \ Files(f4)) \cup Files(f5)
      /\ (((Files(f1) \cup Files(f2)) \cup Files(f3)) \cup Files(f4)) \cup Files(f5) \subseteq Pass1Files
  BY <1>1 DEF Lists, Pass1Files
<1>. QED BY <1>2, <1>8, <1>9, WholeWeaker

(***************************************************************************)
(* The second pass.                                                        *)
(***************************************************************************)
Pass2Files == {"text", "text.idx", "invf", "invf.idx"} \cup ParagraphFile
AuxFile == IF config.aux THEN {"text.dict.aux"} ELSE {}
NoAuxFile == IF config.aux THEN {} ELSE {"text.dict.aux"}

\* The list of novel words is written or taken away.
LEMMA AuxDictPart ==
  \A D : Part(AuxDict, D, (D \ {"text.dict.aux"}) \cup AuxFile, AuxFile, NoAuxFile, {})
<1>. TAKE D
<1>. DEFINE x == "text.dict.aux"
<1>0. x \in Names
  BY DEF Names
<1>1. CASE config.aux
  <2>. DEFINE f == <<x>>
              s == Creates(f)
              t == Closes(f)
  <2>1. f \in Seq(Names) /\ Files(f) = {x}
    BY <1>0, OneListed DEF Lists
  <2>2. AuxDict = s \o t /\ AuxFile = {x} /\ NoAuxFile = {}
    BY <1>1 DEF AuxDict, AuxFile, NoAuxFile
  <2>3. Part(s, D, D \ {x}, {x}, {}, {})
    BY <2>1, CreatesPart
  <2>4. Part(t, D \ {x}, (D \ {x}) \cup {x}, {x}, {}, {})
    BY <2>1, ClosesPart
  <2>. HIDE DEF f, s, t, x
  <2>5. Part(s \o t, D, (D \ {x}) \cup {x}, {x} \cup {x}, {} \cup {}, {} \cup {})
    BY <2>3, <2>4, PartThen
  <2>6. {x} \cup {x} = {x} /\ {} \cup {} = {}
    OBVIOUS
  <2>. QED BY <2>2, <2>5, <2>6 DEF x
<1>2. CASE ~config.aux
  <2>1. AuxDict = <<Op("unlink", x)>> /\ AuxFile = {} /\ NoAuxFile = {x}
    BY <1>2 DEF AuxDict, AuxFile, NoAuxFile
  <2>2. Part(<<Op("unlink", x)>>, D, D \ {x}, {}, {x}, {})
    BY <1>0, UnlinkPart
  <2>3. (D \ {x}) \cup {} = D \ {x}
    OBVIOUS
  <2>. QED BY <2>1, <2>2, <2>3
<1>. QED BY <1>1, <1>2

\* The second pass makes the text and the inverted file, and takes old weights away.
LEMMA Passes2Whole ==
  ASSUME NEW C, Pass1Files \cup {"invf.dict.hash", "text.dict"} \subseteq C
  PROVE  Whole(Passes2, C, (C \ {"weight", "text.dict.aux"}) \cup Pass2Files \cup AuxFile,
               Pass2Files \cup AuxFile, {"weight"} \cup NoAuxFile, {})
<1>. DEFINE f1 == <<"text.dict">>
            f2 == <<"text", "text.idx">>
            f3 == <<"invf.dict", "invf.dict.hash", "invf.chunk", "invf.chunk.trans">>
            f4 == <<"invf", "invf.idx">> \o Paragraph
            f5 == <<"text.idx", "text">>
            f6 == Paragraph \o <<"invf.idx", "invf">>
            P == ParagraphFile
            s1 == Opens(f1)
            s2 == s1 \o Creates(f2)
            s3 == s2 \o Opens(f3)
            s4 == s3 \o Creates(f4)
            s5 == s4 \o OldWeights
            s6 == s5 \o Source
            s7 == s6 \o Closes(f5)
            s8 == s7 \o AuxDict
            s9 == s8 \o Closes(f6)
            F2 == {"text", "text.idx"}
            F4 == {"invf", "invf.idx"} \cup P
<1>1. /\ Lists(f1, {"text.dict"}) /\ Lists(f2, F2)
      /\ Lists(f3, {"invf.dict", "invf.dict.hash", "invf.chunk", "invf.chunk.trans"})
      /\ Lists(f5, F2)
  <2>1. /\ "text.dict" \in Names /\ "text" \in Names /\ "text.idx" \in Names
        /\ "invf.dict" \in Names /\ "invf.dict.hash" \in Names /\ "invf.chunk" \in Names
        /\ "invf.chunk.trans" \in Names
    BY DEF Names
  <2>2. {"text.idx", "text"} = F2
    OBVIOUS
  <2>. QED BY <2>1, <2>2, OneListed, TwoListed, FourListed
<1>2. f4 \in Seq(Names) /\ Files(f4) = F4 /\ f6 \in Seq(Names) /\ Files(f6) = F4
  <2>1. "invf" \in Names /\ "invf.idx" \in Names
    BY DEF Names
  <2>2. /\ Lists(<<"invf", "invf.idx">>, {"invf", "invf.idx"})
        /\ Lists(<<"invf.idx", "invf">>, {"invf.idx", "invf"})
    BY <2>1, TwoListed
  <2>. DEFINE a == <<"invf", "invf.idx">>
              b == <<"invf.idx", "invf">>
  <2>3. /\ a \in Seq(Names) /\ Files(a) = {"invf", "invf.idx"}
        /\ b \in Seq(Names) /\ Files(b) = {"invf", "invf.idx"}
    BY <2>2 DEF Lists
  <2>. HIDE DEF a, b
  <2>4. f4 \in Seq(Names) /\ Files(f4) = F4
    BY <2>3, FilesJoin, ParagraphListed DEF a
  <2>5. f6 \in Seq(Names) /\ Files(f6) = F4
    <3>1. f6 = Paragraph \o b
      BY DEF b
    <3>2. Paragraph \o b \in Seq(Names) /\ Files(Paragraph \o b) = Files(Paragraph) \cup Files(b)
      BY <2>3, FilesJoin, ParagraphListed
    <3>3. P \cup {"invf", "invf.idx"} = F4
      OBVIOUS
    <3>. QED BY <2>3, <3>1, <3>2, <3>3, ParagraphListed
  <2>. QED BY <2>4, <2>5
<1>3. Passes2 = s9
  BY DEF Passes2
<1>. HIDE DEF f1, f2, f3, f4, f5, f6, F2, F4, P
<1>4. Whole(s1, C, C, {}, {}, {}) /\ HasInput(s1)
  BY <1>1, OpensPart DEF Whole, Lists
<1>. HIDE DEF s1
<1>5. Whole(s2, C, C \ F2, {} \cup F2, {}, {}) /\ HasInput(s2)
  BY <1>1, <1>4, ThenCreates DEF Lists
<1>. HIDE DEF s2
<1>6. Whole(s3, C, C \ F2, {} \cup F2, {}, {}) /\ HasInput(s3)
  <2>1. Files(f3) \subseteq C \ F2
    BY <1>1 DEF Lists, F2, Pass1Files
  <2>. QED BY <1>1, <1>5, <2>1, ThenOpens DEF Lists
<1>. HIDE DEF s3
<1>7. Whole(s4, C, (C \ F2) \ F4, ({} \cup F2) \cup F4, {}, {}) /\ HasInput(s4)
  BY <1>2, <1>6, ThenCreates
<1>. HIDE DEF s4
<1>. DEFINE D5 == ((C \ F2) \ F4) \ {"weight"}
            T5 == (({} \cup F2) \cup F4) \cup {}
            U5 == {} \cup {"weight"}
            I5 == {} \cup {}
<1>8. Whole(s5, C, D5, T5, U5, I5) /\ HasInput(s5)
  <2>1. "weight" \in Names
    BY DEF Names
  <2>2. Part(OldWeights, (C \ F2) \ F4, D5, {}, {"weight"}, {})
    BY <2>1, UnlinkPart DEF OldWeights
  <2>. HIDE DEF D5
  <2>. QED BY <1>7, <2>2, ThenPart
<1>. HIDE DEF s5, D5, T5, U5, I5
<1>9. Whole(s6, C, D5, T5, U5, I5) /\ HasInput(s6)
  BY <1>8, ThenSource
<1>. HIDE DEF s6
<1>10. Whole(s7, C, D5 \cup F2, T5 \cup F2, U5, I5) /\ HasInput(s7)
  BY <1>1, <1>9, ThenCloses DEF Lists
<1>. HIDE DEF s7
<1>. DEFINE D8 == ((D5 \cup F2) \ {"text.dict.aux"}) \cup AuxFile
<1>11. Whole(s8, C, D8, (T5 \cup F2) \cup AuxFile, U5 \cup NoAuxFile, I5 \cup {}) /\ HasInput(s8)
  <2>1. Part(AuxDict, D5 \cup F2, D8, AuxFile, NoAuxFile, {})
    BY AuxDictPart
  <2>. HIDE DEF D8
  <2>. QED BY <1>10, <2>1, ThenPart
<1>. HIDE DEF s8, D8
<1>12. Whole(s9, C, D8 \cup F4, ((T5 \cup F2) \cup AuxFile) \cup F4, U5 \cup NoAuxFile, I5 \cup {})
  BY <1>2, <1>11, ThenCloses
<1>. HIDE DEF s9
<1>13. U5 \cup NoAuxFile = {"weight"} \cup NoAuxFile /\ I5 \cup {} = {}
  BY DEF U5, I5
<1>14. ((T5 \cup F2) \cup AuxFile) \cup F4 \subseteq Pass2Files \cup AuxFile
  BY DEF T5, F2, F4, P, Pass2Files
<1>15. (C \ {"weight", "text.dict.aux"}) \cup Pass2Files \cup AuxFile \subseteq D8 \cup F4
  <2>1. ASSUME NEW f, f \in C, f # "weight", f # "text.dict.aux" PROVE f \in D8 \cup F4
    BY <2>1 DEF D8, D5
  <2>2. Pass2Files \subseteq D8 \cup F4
    BY DEF D8, F2, F4, P, Pass2Files
  <2>3. AuxFile \subseteq D8
    BY DEF D8
  <2>. QED BY <2>1, <2>2, <2>3
<1>. DEFINE D9 == D8 \cup F4
            T9 == ((T5 \cup F2) \cup AuxFile) \cup F4
            D == (C \ {"weight", "text.dict.aux"}) \cup Pass2Files \cup AuxFile
            T == Pass2Files \cup AuxFile
            U == {"weight"} \cup NoAuxFile
<1>16. Whole(s9, C, D9, T9, U, {})
  BY <1>12, <1>13
<1>17. D \subseteq D9 /\ T9 \subseteq T
  BY <1>14, <1>15
<1>. HIDE DEF D9, T9, D, T, U
<1>18. Whole(s9, C, D, T, U, {})
  BY ONLY <1>16, <1>17, WholeWeaker
<1>. QED BY <1>3, <1>18 DEF D, T, U

(***************************************************************************)
(* The weights.  Without any and at level 1 nothing is written.            *)
(***************************************************************************)
WeightOutput == {"weight", "weight.approx", "text.idx.wgt"}

\* mg_weights_build makes the weights, or takes current ones; at level 1 it makes none.
LEMMA WeightsWhole ==
  ASSUME NEW C, Pass1Files \cup Pass2Files \subseteq C,
         Exists("weight") => "weight" \in C /\ config.level # 1
  PROVE  Whole(WeightsBuild, C, IF config.level = 1 THEN C ELSE C \cup WeightOutput,
               IF config.level = 1 THEN {} ELSE WeightOutput, {}, {})
<1>. DEFINE f1 == <<"invf.dict">>
            f2 == <<"invf.idx", "invf">>
            f3 == <<"weight">>
            f4 == <<"weight.approx">>
            f5 == <<"text.idx.wgt">>
            f6 == <<"text.idx">> \o Paragraph
            middle == Opens(f2) \o Creates(f3) \o Closes(f3)
            s1 == Opens(f1)
            s2 == s1 \o (IF Exists("weight") THEN <<>> ELSE middle)
            s3 == s2 \o Opens(f3)
            s4 == s3 \o Creates(f4)
            s5 == s4 \o Closes(f4)
            s6 == s5 \o Creates(f5)
            s7 == s6 \o Opens(f6)
            s8 == s7 \o Closes(f5)
            D2 == C \cup {"weight"}
<1>1. /\ Lists(f1, {"invf.dict"}) /\ Lists(f2, {"invf.idx", "invf"}) /\ Lists(f3, {"weight"})
      /\ Lists(f4, {"weight.approx"}) /\ Lists(f5, {"text.idx.wgt"})
  <2>1. /\ "invf.dict" \in Names /\ "invf.idx" \in Names /\ "invf" \in Names
        /\ "weight" \in Names /\ "weight.approx" \in Names /\ "text.idx.wgt" \in Names
    BY DEF Names
  <2>. QED BY <2>1, OneListed, TwoListed
<1>2. f6 \in Seq(Names) /\ Files(f6) = {"text.idx"} \cup ParagraphFile /\ Files(f6) \subseteq C
  <2>1. "text.idx" \in Names
    BY DEF Names
  <2>2. <<"text.idx">> \in Seq(Names) /\ Files(<<"text.idx">>) = {"text.idx"}
    BY <2>1, OneListed DEF Lists
  <2>3. f6 \in Seq(Names) /\ Files(f6) = {"text.idx"} \cup ParagraphFile
    BY <2>2, FilesJoin, ParagraphListed
  <2>. QED BY <2>3 DEF Pass2Files
<1>3. "weight" \in Names /\ {"invf.idx", "invf"} \subseteq C /\ {"invf.dict"} \subseteq C
  BY DEF Names, Pass1Files, Pass2Files
<1>4. CASE ~Exists("weight") /\ config.level = 1
  <2>1. WeightsBuild = Opens(<<"invf.dict", "invf.idx", "invf">>)
    BY <1>4 DEF WeightsBuild
  <2>2. Lists(<<"invf.dict", "invf.idx", "invf">>, {"invf.dict", "invf.idx", "invf"})
    <3>1. "invf.dict" \in Names /\ "invf.idx" \in Names /\ "invf" \in Names
      BY DEF Names
    <3>. QED BY <3>1, ThreeListed
  <2>3. Whole(WeightsBuild, C, C, {}, {}, {})
    BY <1>3, <2>1, <2>2, OpensPart DEF Whole, Lists
  <2>. QED BY <1>4, <2>3
<1>5. CASE config.level # 1
  <2>1. WeightsBuild = s8
    <3>1. WeightsBuild
            = Opens(<<"invf.dict">>)
                \o (IF Exists("weight") THEN <<>>
                    ELSE Opens(<<"invf.idx", "invf">>) \o Creates(<<"weight">>) \o Closes(<<"weight">>))
                \o Opens(<<"weight">>) \o Creates(<<"weight.approx">>) \o Closes(<<"weight.approx">>)
                \o Creates(<<"text.idx.wgt">>) \o Opens(<<"text.idx">> \o Paragraph)
                \o Closes(<<"text.idx.wgt">>)
      BY <1>5 DEF WeightsBuild
    <3>. QED BY <3>1
  <2>2. Whole(s1, C, C, {}, {}, {}) /\ HasInput(s1)
    BY <1>1, <1>3, OpensPart DEF Whole, Lists
  <2>3. Whole(middle, C, D2, {"weight"}, {}, {})
    BY <1>1, <1>3, WritesOne
  <2>. HIDE DEF f1, f2, f3, f4, f5, f6, middle, s1, D2
  <2>4. Whole(s2, C, D2, {"weight"}, {}, {}) /\ HasInput(s2)
    <3>1. CASE Exists("weight")
      <4>1. Part(<<>>, C, C, {}, {}, {}) /\ s2 = s1 \o <<>> /\ C = D2
        BY <3>1, NoPart DEF D2
      <4>2. Whole(s1 \o <<>>, C, C, {} \cup {}, {} \cup {}, {} \cup {}) /\ HasInput(s1 \o <<>>)
        BY <2>2, <4>1, ThenPart
      <4>3. {} \cup {} \subseteq {"weight"} /\ {} \cup {} = {}
        OBVIOUS
      <4>4. Whole(s1 \o <<>>, C, C, {} \cup {}, {}, {})
        BY <4>2, <4>3
      <4>5. Whole(s1 \o <<>>, C, C, {"weight"}, {}, {})
        BY <4>3, <4>4, WholeWeaker
      <4>. QED BY <4>1, <4>2, <4>5
    <3>2. CASE ~Exists("weight")
      <4>1. s2 = s1 \o middle
        BY <3>2
      <4>2. Part(middle, C, D2, {"weight"}, {}, {})
        BY <2>3 DEF Whole
      <4>3. /\ Whole(s1 \o middle, C, D2, {} \cup {"weight"}, {} \cup {}, {} \cup {})
            /\ HasInput(s1 \o middle)
        BY <2>2, <4>2, ThenPart
      <4>4. {} \cup {"weight"} = {"weight"} /\ {} \cup {} = {}
        OBVIOUS
      <4>. QED BY <4>1, <4>3, <4>4
    <3>. QED BY <3>1, <3>2
  <2>. HIDE DEF s2
  <2>5. Whole(s3, C, D2, {"weight"}, {}, {}) /\ HasInput(s3)
    BY <1>1, <2>4, ThenOpens DEF Lists, D2
  <2>. HIDE DEF s3
  <2>6. Whole(s4, C, D2 \ Files(f4), {"weight"} \cup Files(f4), {}, {}) /\ HasInput(s4)
    BY <1>1, <2>5, ThenCreates DEF Lists
  <2>. HIDE DEF s4
  <2>. DEFINE D5 == (D2 \ Files(f4)) \cup Files(f4)
              T5 == ({"weight"} \cup Files(f4)) \cup Files(f4)
  <2>7. Whole(s5, C, D5, T5, {}, {}) /\ HasInput(s5)
    BY <1>1, <2>6, ThenCloses DEF Lists
  <2>. HIDE DEF s5, D5, T5
  <2>8. Whole(s6, C, D5 \ Files(f5), T5 \cup Files(f5), {}, {}) /\ HasInput(s6)
    BY <1>1, <2>7, ThenCreates DEF Lists
  <2>. HIDE DEF s6
  <2>9. Whole(s7, C, D5 \ Files(f5), T5 \cup Files(f5), {}, {}) /\ HasInput(s7)
    <3>1. Files(f6) \subseteq D5
      BY <1>2 DEF D5, D2
    <3>2. "text.idx.wgt" \notin Files(f6)
      BY <1>2 DEF ParagraphFile
    <3>3. Files(f6) \subseteq D5 \ Files(f5)
      BY <1>1, <3>1, <3>2 DEF Lists
    <3>. QED BY <1>2, <2>8, <3>3, ThenOpens
  <2>. HIDE DEF s7
  <2>10. Whole(s8, C, (D5 \ Files(f5)) \cup Files(f5), (T5 \cup Files(f5)) \cup Files(f5), {}, {})
    BY <1>1, <2>9, ThenCloses DEF Lists
  <2>. HIDE DEF s8
  <2>11. /\ C \cup WeightOutput \subseteq (D5 \ Files(f5)) \cup Files(f5)
         /\ (T5 \cup Files(f5)) \cup Files(f5) \subseteq WeightOutput
    BY <1>1 DEF Lists, D5, D2, T5, WeightOutput
  <2>12. Whole(s8, C, C \cup WeightOutput, WeightOutput, {}, {})
    BY <2>10, <2>11, WholeWeaker
  <2>. QED BY <1>5, <2>1, <2>12
<1>. QED BY <1>4, <1>5

\* mg_fast_comp_dict touches one file.
LEMMA FastCompDictFacts ==
  /\ FastCompDict \in Seq(AnOp)
  /\ Of(FastCompDict, "create") \cup Of(FastCompDict, "close") \subseteq {"text.dict.fast"}
  /\ Of(FastCompDict, "unlink") = {} /\ Of(FastCompDict, "index") = {}
<1>. DEFINE a == IF Exists("text.dict.aux") THEN Opens(<<"text.dict.aux">>) ELSE <<>>
            b == a \o Opens(<<"text.dict">>)
            f == <<"text.dict.fast">>
            F == {"text.dict.fast"}
            c == b \o Creates(f)
            d == c \o Closes(f)
<1>1. /\ Lists(f, F) /\ Lists(<<"text.dict">>, {"text.dict"})
      /\ Lists(<<"text.dict.aux">>, {"text.dict.aux"})
      /\ {"text.dict", "text.dict.aux"} \subseteq Names
  <2>1. "text.dict.fast" \in Names /\ "text.dict" \in Names /\ "text.dict.aux" \in Names
    BY DEF Names
  <2>. QED BY <2>1, OneListed
<1>2. FastCompDict = d
  BY DEF FastCompDict
<1>3. Part(a, Names, Names, {}, {}, {})
  <2>1. CASE Exists("text.dict.aux")
    <3>1. Part(Opens(<<"text.dict.aux">>), Names, Names, {}, {}, {})
      BY <1>1, OpensPart DEF Lists
    <3>. QED BY <2>1, <3>1
  <2>2. CASE ~Exists("text.dict.aux")
    BY <2>2, NoPart
  <2>. QED BY <2>1, <2>2
<1>4. Part(Opens(<<"text.dict">>), Names, Names, {}, {}, {})
  BY <1>1, OpensPart DEF Lists
<1>5. Part(Creates(f), Names, Names \ F, F, {}, {})
  BY <1>1, CreatesPart DEF Lists
<1>6. Part(Closes(f), Names \ F, (Names \ F) \cup F, F, {}, {})
  BY <1>1, ClosesPart DEF Lists
<1>. HIDE DEF a, f, F
<1>7. Part(b, Names, Names, {} \cup {}, {} \cup {}, {} \cup {})
  BY <1>3, <1>4, PartThen
<1>. HIDE DEF b
<1>8. Part(c, Names, Names \ F, ({} \cup {}) \cup F, ({} \cup {}) \cup {}, ({} \cup {}) \cup {})
  BY <1>5, <1>7, PartThen
<1>. HIDE DEF c
<1>9. Part(d, Names, (Names \ F) \cup F, (({} \cup {}) \cup F) \cup F,
           (({} \cup {}) \cup {}) \cup {}, (({} \cup {}) \cup {}) \cup {})
  BY <1>6, <1>8, PartThen
<1>. HIDE DEF d
<1>. QED BY <1>2, <1>9 DEF Part, F

-----------------------------------------------------------------------------
\* What a build has made when it has come so far.

Programs ==
  <<"mg_passes -1", "mg_perf_hash_build", "mg_compression_dict", "mg_passes -2",
    "mg_weights_build", "mg_invf_dict", "mg_stem_idx -s1", "mg_stem_idx -s2", "mg_stem_idx -s3">>

Last(o) == IF o.indexes THEN 9 ELSE 6

\* The programs from the k-th on.
Rest(o, k) == SubSeq(Programs, k, Last(o))

\* The files the k-th program writes with the options o.
Output(o, k) ==
  CASE k = 1 -> Pass1Files
    [] k = 2 -> {"invf.dict.hash"}
    [] k = 3 -> {"text.dict"}
    [] k = 4 -> {"text", "text.idx", "invf", "invf.idx"}
                  \cup (IF o.level = 3 THEN {"invf.paragraph"} ELSE {})
                  \cup (IF o.aux THEN {"text.dict.aux"} ELSE {})
    [] k = 5 -> IF o.level = 1 THEN {} ELSE WeightOutput
    [] k = 6 -> {"invf.dict.blocked"}
    [] k = 7 -> {"invf.dict.blocked.1"}
    [] k = 8 -> {"invf.dict.blocked.2"}
    [] k = 9 -> {"invf.dict.blocked.3"}

\* The files it takes away.
Removed(o, k) ==
  IF k # 4 THEN {} ELSE {"weight"} \cup (IF o.aux THEN {} ELSE {"text.dict.aux"})

Made(o, k) == UNION {Output(o, j) : j \in 1 .. k}

\* The program that writes a file.
Writer(f) ==
  CASE f \in Pass1Files -> 1
    [] f = "invf.dict.hash" -> 2
    [] f = "text.dict" -> 3
    [] f \in {"text", "text.idx", "invf", "invf.idx", "invf.paragraph", "text.dict.aux"} -> 4
    [] f \in WeightOutput -> 5
    [] f = "invf.dict.blocked" -> 6
    [] f = "invf.dict.blocked.1" -> 7
    [] f = "invf.dict.blocked.2" -> 8
    [] f = "invf.dict.blocked.3" -> 9
    [] f = "text.dict.fast" -> 10

\* A program's output is its own.
LEMMA OutputWriter == \A o : \A k \in 1 .. 9 : \A f \in Output(o, k) : Writer(f) = k
<1>. SUFFICES ASSUME NEW o, NEW k \in 1 .. 9, NEW f \in Output(o, k) PROVE Writer(f) = k
  OBVIOUS
<1>1. CASE k = 1
  BY <1>1 DEF Output, Writer, Pass1Files, WeightOutput
<1>2. CASE k = 2
  BY <1>2 DEF Output, Writer, Pass1Files, WeightOutput
<1>3. CASE k = 3
  BY <1>3 DEF Output, Writer, Pass1Files, WeightOutput
<1>4. CASE k = 4
  BY <1>4 DEF Output, Writer, Pass1Files, WeightOutput
<1>5. CASE k = 5
  BY <1>5 DEF Output, Writer, Pass1Files, WeightOutput
<1>6. CASE k = 6
  BY <1>6 DEF Output, Writer, Pass1Files, WeightOutput
<1>7. CASE k = 7
  BY <1>7 DEF Output, Writer, Pass1Files, WeightOutput
<1>8. CASE k = 8
  BY <1>8 DEF Output, Writer, Pass1Files, WeightOutput
<1>9. CASE k = 9
  BY <1>9 DEF Output, Writer, Pass1Files, WeightOutput
<1>. QED BY <1>1, <1>2, <1>3, <1>4, <1>5, <1>6, <1>7, <1>8, <1>9

\* Who writes four of the files.
LEMMA WriterFacts ==
  /\ Writer("weight") = 5 /\ Writer("text.dict.aux") = 4 /\ Writer("text.dict.fast") = 10
  /\ Writer("invf.dict.blocked") = 6
BY DEF Writer, Pass1Files, WeightOutput

\* What k programs make, and who of them.
LEMMA MadeFacts ==
  ASSUME NEW o, NEW k \in 1 .. 9
  PROVE  /\ Made(o, k) = Made(o, k - 1) \cup Output(o, k)
         /\ \A f \in Made(o, k - 1) : Writer(f) < k
<1>1. Made(o, k) = Made(o, k - 1) \cup Output(o, k)
  <2>1. \A j : j \in 1 .. k <=> j \in 1 .. k - 1 \/ j = k
    OBVIOUS
  <2>. QED BY <2>1 DEF Made
<1>2. ASSUME NEW f \in Made(o, k - 1) PROVE Writer(f) < k
  <2>1. PICK j \in 1 .. k - 1 : f \in Output(o, j)
    BY DEF Made
  <2>2. j \in 1 .. 9 /\ j < k
    BY <2>1
  <2>. QED BY <2>1, <2>2, OutputWriter
<1>. QED BY <1>1, <1>2

\* What a program takes away is not what it or an earlier one wrote.
LEMMA RemovedFacts ==
  ASSUME NEW o, NEW k \in 1 .. 9
  PROVE  /\ Removed(o, k) \cap (Made(o, k - 1) \cup Output(o, k)) = {}
         /\ Removed(o, k) # {} => k = 4
<1>1. ASSUME NEW f \in Removed(o, k), f \in Made(o, k - 1) PROVE FALSE
  <2>1. k = 4 /\ f \in {"weight", "text.dict.aux"}
    BY DEF Removed
  <2>2. Writer(f) < 4
    BY <1>1, <2>1, MadeFacts
  <2>. QED BY <2>1, <2>2, WriterFacts
<1>2. ASSUME NEW f \in Removed(o, k), f \in Output(o, k) PROVE FALSE
  BY <1>2 DEF Removed, Output
<1>. QED BY <1>1, <1>2 DEF Removed

\* What is current: whole, and of this build.
Cur == {f \in DOMAIN disk : disk[f] = {build}}

(***************************************************************************)
(* The files are right after k programs, whether the next is running or    *)
(* was killed.  The weights may be torn, by the program that makes them.   *)
(***************************************************************************)
FilesRight(k) ==
  /\ Made(config, k) \subseteq Cur
  /\ k >= 4 => /\ config.aux \/ ~Exists("text.dict.aux")
               /\ Exists("weight") => /\ config.level # 1
                                      /\ disk["weight"] \in {Torn, {build}}

\* And the k-th program may begin.
Ready(k) ==
  /\ k = 5 /\ Exists("weight") => "weight" \in Cur
  /\ k >= 7 => indexed = 1 .. k - 7

\* What is left of the k-th program will make it so.
Running(k) ==
  /\ ops \in Seq(AnOp)
  /\ inputs = {build} \/ (inputs = {} /\ Fed(ops))
  /\ Runs(ops, Cur, Made(config, k))
  /\ Of(ops, "create") \cup Of(ops, "close") \subseteq Output(config, k)
  /\ Of(ops, "unlink") \subseteq Removed(config, k)
  /\ \A f \in Removed(config, k) : f \in Of(ops, "unlink") \/ ~Exists(f)
  /\ k = 6 => /\ indexed = {} \/ "invf.dict.blocked" \in Of(ops, "create")
              /\ Of(ops, "index") = {}
  /\ k >= 7 => indexed \cup Of(ops, "index") = 1 .. k - 6

\* The dictionary that is built by hand touches nothing else.
RunningFast ==
  /\ ops \in Seq(AnOp)
  /\ Of(ops, "create") \cup Of(ops, "close") \subseteq {"text.dict.fast"}
  /\ Of(ops, "unlink") = {} /\ Of(ops, "index") = {}

AllRight == FilesRight(Last(config)) /\ Ready(Last(config) + 1)

(***************************************************************************)
(* Wherever the build has come and whatever has been killed: the programs  *)
(* before the one to run have left what they promise.                      *)
(***************************************************************************)
Coming(k) ==
  /\ script = Rest(config, k)
  /\ FilesRight(k - 1)
  /\ \/ status = "next" /\ Ready(k)
     \/ status = "run" /\ k <= Last(config) /\ Running(k)
     \/ status = "failed" /\ k <= Last(config)
     \/ status = "done" /\ k = Last(config) + 1 /\ Ready(k)

ByHand ==
  /\ script = <<"mg_fast_comp_dict">>
  /\ \/ status = "failed"
     \/ status = "next" /\ AllRight
     \/ status = "run" /\ AllRight /\ RunningFast

BuildInv ==
  /\ configs \in ConfigSets /\ config \in configs
  /\ build \in Nat /\ (status # "new" => build > 0)
  /\ status # "run" => inputs = {}
  /\ status = "new" \/ (\E k \in 1 .. Last(config) + 1 : Coming(k)) \/ ByHand

\* The indexes that the k-th program announces.
Announced(k) == IF k >= 7 THEN {k - 6} ELSE {}

\* What the k-th program does, when it starts, makes what the k-th makes.
Fits(s, k) ==
  Whole(s, Cur, Made(config, k), Output(config, k), Removed(config, k), Announced(k))

\* What each program does.
LEMMA FileOpsAre ==
  /\ FileOps(Programs[1]) = Passes1
  /\ FileOps(Programs[2]) = PerfHashBuild
  /\ FileOps(Programs[3]) = CompressionDict
  /\ FileOps(Programs[4]) = Passes2
  /\ FileOps(Programs[5]) = WeightsBuild
  /\ FileOps(Programs[6]) = InvfDict
  /\ FileOps(Programs[7]) = StemIdx(1)
  /\ FileOps(Programs[8]) = StemIdx(2)
  /\ FileOps(Programs[9]) = StemIdx(3)
  /\ FileOps("mg_fast_comp_dict") = FastCompDict
BY DEF FileOps, Programs

\* From what a program leaves current to what it should make.
LEMMA FitsWhole ==
  ASSUME NEW s, NEW k \in 1 .. 9, NEW D, NEW T, NEW U, NEW I, Whole(s, Cur, D, T, U, I),
         Made(config, k - 1) \cup Output(config, k) \subseteq D, T \subseteq Output(config, k),
         U = Removed(config, k), I = Announced(k)
  PROVE  Fits(s, k)
<1>1. Made(config, k) \subseteq D
  BY MadeFacts
<1>. QED BY <1>1, WholeWeaker DEF Fits

\* What an earlier program wrote has been made.
LEMMA MadeBefore ==
  ASSUME NEW o, NEW k \in 0 .. 9, NEW j \in 1 .. k
  PROVE  Output(o, j) \subseteq Made(o, k)
BY DEF Made

\* The options of the build at hand.
LEMMA LevelTyped ==
  ASSUME configs \in ConfigSets, config \in configs
  PROVE  config.level \in 1 .. 3 /\ config.indexes \in BOOLEAN /\ config.aux \in BOOLEAN
BY BuildAssumption

\* Begun where the build has come, each program makes what it should.
LEMMA ProgramFits ==
  ASSUME configs \in ConfigSets, config \in configs, NEW k \in 1 .. 9,
         FilesRight(k - 1), Ready(k)
  PROVE  Fits(FileOps(Programs[k]), k)
<1>1. Made(config, k - 1) \subseteq Cur
  BY DEF FilesRight
<1>2. \A j \in 1 .. k - 1 : Output(config, j) \subseteq Cur
  BY <1>1, MadeBefore
<1>3. Removed(config, k) = {} \/ k = 4
  BY RemovedFacts
<1>4. CASE k = 1
  <2>1. Whole(Passes1, Cur, Cur \cup Pass1Files, Pass1Files, {}, {})
    BY Passes1Whole
  <2>2. Output(config, k) = Pass1Files /\ Removed(config, k) = {} /\ Announced(k) = {}
    BY <1>4 DEF Output, Removed, Announced
  <2>3. Made(config, k - 1) \cup Output(config, k) \subseteq Cur \cup Pass1Files
    BY <1>1, <2>2
  <2>4. Fits(Passes1, k)
    BY <2>1, <2>2, <2>3, FitsWhole
  <2>. QED BY <1>4, <2>4, FileOpsAre
<1>5. CASE k = 2
  <2>. DEFINE g == {"invf.dict.hash"}
  <2>1. "invf.dict" \in Cur
    BY <1>2, <1>5 DEF Output, Pass1Files
  <2>2. Whole(PerfHashBuild, Cur, Cur \cup g, g, {}, {})
    BY <2>1, PerfHashWhole
  <2>3. Output(config, k) = g /\ Removed(config, k) = {} /\ Announced(k) = {}
    BY <1>5 DEF Output, Removed, Announced
  <2>. HIDE DEF g
  <2>4. Made(config, k - 1) \cup Output(config, k) \subseteq Cur \cup g
    BY <1>1, <2>3
  <2>5. Fits(PerfHashBuild, k)
    BY <2>2, <2>3, <2>4, FitsWhole
  <2>. QED BY <1>5, <2>5, FileOpsAre
<1>6. CASE k = 3
  <2>. DEFINE g == {"text.dict"}
  <2>1. "text.stats" \in Cur
    BY <1>2, <1>6 DEF Output, Pass1Files
  <2>2. Whole(CompressionDict, Cur, Cur \cup g, g, {}, {})
    BY <2>1, CompressionDictWhole
  <2>3. Output(config, k) = g /\ Removed(config, k) = {} /\ Announced(k) = {}
    BY <1>6 DEF Output, Removed, Announced
  <2>. HIDE DEF g
  <2>4. Made(config, k - 1) \cup Output(config, k) \subseteq Cur \cup g
    BY <1>1, <2>3
  <2>5. Fits(CompressionDict, k)
    BY <2>2, <2>3, <2>4, FitsWhole
  <2>. QED BY <1>6, <2>5, FileOpsAre
<1>7. CASE k = 4
  <2>. DEFINE D == (Cur \ {"weight", "text.dict.aux"}) \cup Pass2Files \cup AuxFile
  <2>1. Pass1Files \cup {"invf.dict.hash", "text.dict"} \subseteq Cur
    <3>1. /\ Output(config, 1) \subseteq Cur /\ Output(config, 2) \subseteq Cur
          /\ Output(config, 3) \subseteq Cur
      BY <1>2, <1>7
    <3>. QED BY <3>1 DEF Output
  <2>2. Whole(Passes2, Cur, D, Pass2Files \cup AuxFile, {"weight"} \cup NoAuxFile, {})
    BY <2>1, Passes2Whole
  <2>3. /\ Output(config, k) = Pass2Files \cup AuxFile
        /\ Removed(config, k) = {"weight"} \cup NoAuxFile /\ Announced(k) = {}
    BY <1>7 DEF Output, Removed, Announced, Pass2Files, ParagraphFile, AuxFile, NoAuxFile
  <2>4. Made(config, k - 1) \cup Output(config, k) \subseteq D
    <3>1. ASSUME NEW f \in Made(config, k - 1) PROVE f # "weight" /\ f # "text.dict.aux"
      BY <1>7, MadeFacts, WriterFacts
    <3>. QED BY <1>1, <2>3, <3>1
  <2>. HIDE DEF D
  <2>5. Fits(Passes2, k)
    BY <2>2, <2>3, <2>4, FitsWhole
  <2>. QED BY <1>7, <2>5, FileOpsAre
<1>8. CASE k = 5
  <2>. DEFINE T == IF config.level = 1 THEN {} ELSE WeightOutput
              D == IF config.level = 1 THEN Cur ELSE Cur \cup WeightOutput
  <2>1. Pass1Files \cup Pass2Files \subseteq Cur
    <3>1. Output(config, 1) \subseteq Cur /\ Output(config, 4) \subseteq Cur
      BY <1>2, <1>8
    <3>. QED BY <3>1 DEF Output, Pass2Files, ParagraphFile
  <2>2. Exists("weight") => "weight" \in Cur /\ config.level # 1
    BY <1>8 DEF FilesRight, Ready
  <2>3. Whole(WeightsBuild, Cur, D, T, {}, {})
    BY <2>1, <2>2, WeightsWhole
  <2>4. Output(config, k) = T /\ Removed(config, k) = {} /\ Announced(k) = {}
    BY <1>8 DEF Output, Removed, Announced
  <2>5. Made(config, k - 1) \cup Output(config, k) \subseteq D
    BY <1>1, <2>4
  <2>. HIDE DEF D, T
  <2>6. Fits(WeightsBuild, k)
    BY <2>3, <2>4, <2>5, FitsWhole
  <2>. QED BY <1>8, <2>6, FileOpsAre
<1>9. CASE k = 6
  <2>. DEFINE g == {"invf.dict.blocked"}
  <2>1. {"invf.dict", "invf.idx"} \subseteq Cur
    <3>1. Output(config, 1) \subseteq Cur /\ Output(config, 4) \subseteq Cur
      BY <1>2, <1>9
    <3>. QED BY <3>1 DEF Output, Pass1Files
  <2>2. Whole(InvfDict, Cur, Cur \cup g, g, {}, {})
    BY <2>1, InvfDictWhole
  <2>3. Output(config, k) = g /\ Removed(config, k) = {} /\ Announced(k) = {}
    BY <1>9 DEF Output, Removed, Announced
  <2>. HIDE DEF g
  <2>4. Made(config, k - 1) \cup Output(config, k) \subseteq Cur \cup g
    BY <1>1, <2>3
  <2>5. Fits(InvfDict, k)
    BY <2>2, <2>3, <2>4, FitsWhole
  <2>. QED BY <1>9, <2>5, FileOpsAre
<1>10. CASE k >= 7
  <2>. DEFINE n == k - 6
              g == {StemFiles[n]}
  <2>1. n \in 1 .. 3 /\ k = n + 6
    BY <1>10
  <2>2. "invf.dict.blocked" \in Cur
    <3>1. Output(config, 6) \subseteq Cur
      BY <1>2, <1>10
    <3>. QED BY <3>1 DEF Output
  <2>3. Output(config, k) = g /\ Announced(k) = {n}
    BY <2>1 DEF Output, Announced, StemFiles
  <2>4. Removed(config, k) = {}
    BY <1>3, <1>10
  <2>5. FileOps(Programs[k]) = StemIdx(n)
    <3>1. n = 1 \/ n = 2 \/ n = 3
      BY <2>1
    <3>. QED BY <2>1, <3>1, FileOpsAre
  <2>. HIDE DEF n
  <2>6. Whole(StemIdx(n), Cur, Cur \cup g, g, {}, {n})
    BY <2>1, <2>2, StemIdxWhole
  <2>. HIDE DEF g
  <2>7. Made(config, k - 1) \cup Output(config, k) \subseteq Cur \cup g
    BY <1>1, <2>3
  <2>8. Fits(StemIdx(n), k)
    BY <2>3, <2>4, <2>6, <2>7, FitsWhole
  <2>. QED BY <2>5, <2>8
<1>. QED BY <1>4, <1>5, <1>6, <1>7, <1>8, <1>9, <1>10

\* The dictionary is created before it is closed.
LEMMA InvfDictCreates == "invf.dict.blocked" \in Of(InvfDict, "create")
<1>. DEFINE f == <<"invf.dict", "invf.idx">>
            g == <<"invf.dict.blocked">>
            a == Opens(f)
            b == Creates(g)
            c == Closes(g)
            ab == a \o b
<1>1. f \in Seq(Names) /\ g \in Seq(Names) /\ Files(g) = {"invf.dict.blocked"}
  <2>1. "invf.dict" \in Names /\ "invf.idx" \in Names /\ "invf.dict.blocked" \in Names
    BY DEF Names
  <2>. QED BY <2>1, OneListed, TwoListed DEF Lists
<1>2. InvfDict = ab \o c
  BY DEF InvfDict
<1>3. a \in Seq(AnOp) /\ b \in Seq(AnOp) /\ c \in Seq(AnOp) /\ Of(b, "create") = {"invf.dict.blocked"}
  <2>1. "read" \in Verbs /\ "create" \in Verbs /\ "close" \in Verbs
    BY DEF Verbs
  <2>. QED BY <1>1, <2>1, EachFacts, EachIsOpens
<1>. HIDE DEF a, b, c
<1>4. ab \in Seq(AnOp)
  BY <1>3
<1>5. Of(ab, "create") = Of(a, "create") \cup Of(b, "create")
  BY <1>3, OfJoin
<1>. HIDE DEF ab
<1>6. Of(ab \o c, "create") = Of(ab, "create") \cup Of(c, "create")
  BY ONLY <1>3, <1>4, OfJoin
<1>. QED BY <1>2, <1>3, <1>5, <1>6

-----------------------------------------------------------------------------
\* The scripts are what is left of the list of programs.

ProgramNames == {Programs[k] : k \in 1 .. 9}

\* The programs by number.
LEMMA ProgramsAre ==
  /\ Programs[1] = "mg_passes -1" /\ Programs[2] = "mg_perf_hash_build"
  /\ Programs[3] = "mg_compression_dict" /\ Programs[4] = "mg_passes -2"
  /\ Programs[5] = "mg_weights_build" /\ Programs[6] = "mg_invf_dict"
  /\ Programs[7] = "mg_stem_idx -s1" /\ Programs[8] = "mg_stem_idx -s2"
  /\ Programs[9] = "mg_stem_idx -s3"
BY DEF Programs

\* There are nine.
LEMMA ProgramsTyped == Programs \in Seq(ProgramNames) /\ Len(Programs) = 9
<1>. DEFINE S == ProgramNames
<1>1. /\ "mg_passes -1" \in S /\ "mg_perf_hash_build" \in S /\ "mg_compression_dict" \in S
      /\ "mg_passes -2" \in S /\ "mg_weights_build" \in S /\ "mg_invf_dict" \in S
      /\ "mg_stem_idx -s1" \in S /\ "mg_stem_idx -s2" \in S /\ "mg_stem_idx -s3" \in S
  <2>1. \A k \in 1 .. 9 : Programs[k] \in S
    BY DEF ProgramNames
  <2>. HIDE DEF S
  <2>2. \A k \in {1, 2, 3, 4, 5, 6, 7, 8, 9} : Programs[k] \in S
    BY <2>1
  <2>. QED BY <2>2, ProgramsAre
<1>. HIDE DEF S
<1>2. Programs \in Seq(S)
  <2>1. Programs \in [1 .. 9 -> S]
    <3>1. \A k \in 1 .. 9 : Programs[k] \in S
      <4>1. ASSUME NEW k \in 1 .. 9 PROVE Programs[k] \in S
        <5>1. k \in {1, 2, 3, 4, 5, 6, 7, 8, 9}
          OBVIOUS
        <5>. QED BY <1>1, <5>1, ProgramsAre
      <4>. QED BY <4>1
    <3>2. DOMAIN Programs = 1 .. 9 /\ Programs = [k \in 1 .. 9 |-> Programs[k]]
      BY DEF Programs
    <3>. QED BY <3>1, <3>2
  <2>. QED BY <2>1, SeqDef
<1>3. Len(Programs) = 9
  BY DEF Programs
<1>. QED BY <1>2, <1>3 DEF S

\* The names of the programs are all different.
LEMMA ProgramsDiffer ==
  /\ \A j, k \in 1 .. 9 : Programs[j] = Programs[k] => j = k
  /\ \A k \in 1 .. 9 : Programs[k] # "mg_fast_comp_dict"
<1>. DEFINE Number(p) ==
       CASE p = "mg_passes -1" -> 1 [] p = "mg_perf_hash_build" -> 2
         [] p = "mg_compression_dict" -> 3 [] p = "mg_passes -2" -> 4
         [] p = "mg_weights_build" -> 5 [] p = "mg_invf_dict" -> 6
         [] p = "mg_stem_idx -s1" -> 7 [] p = "mg_stem_idx -s2" -> 8
         [] p = "mg_stem_idx -s3" -> 9 [] p = "mg_fast_comp_dict" -> 10
<1>1. ASSUME NEW k \in 1 .. 9 PROVE Number(Programs[k]) = k
  <2>1. k \in {1, 2, 3, 4, 5, 6, 7, 8, 9}
    OBVIOUS
  <2>. QED BY <2>1, ProgramsAre
<1>2. Number("mg_fast_comp_dict") = 10
  OBVIOUS
<1>. HIDE DEF Number
<1>. QED BY <1>1, <1>2

\* The length of a script and its elements.
LEMMA RestFacts ==
  ASSUME NEW o, o.indexes \in BOOLEAN
  PROVE  /\ Last(o) \in {6, 9}
         /\ \A k \in 1 .. Last(o) + 1 :
              /\ Rest(o, k) \in Seq(ProgramNames) /\ Len(Rest(o, k)) = Last(o) + 1 - k
              /\ \A i \in 1 .. Last(o) + 1 - k : Rest(o, k)[i] = Programs[(k - 1) + i]
<1>1. Last(o) \in {6, 9}
  BY DEF Last
<1>. DEFINE n == Last(o)
<1>. HIDE DEF n
<1>2. ASSUME NEW k \in 1 .. n + 1
      PROVE  /\ Rest(o, k) \in Seq(ProgramNames) /\ Len(Rest(o, k)) = n + 1 - k
             /\ \A i \in 1 .. n + 1 - k : Rest(o, k)[i] = Programs[(k - 1) + i]
  <2>. DEFINE r == SubSeq(Programs, k, n)
  <2>1. k \in 1 .. Len(Programs) + 1 /\ n \in k - 1 .. Len(Programs) /\ n \in Nat
    BY <1>1, ProgramsTyped DEF n
  <2>2. /\ r \in Seq(ProgramNames) /\ Len(r) = n - k + 1
        /\ \A i \in 1 .. n - k + 1 : r[i] = Programs[k + i - 1]
    <3>1. \A i \in k .. n : Programs[i] \in ProgramNames
      <4>1. \A i \in k .. n : i \in 1 .. 9
        BY <2>1, ProgramsTyped
      <4>. QED BY <4>1 DEF ProgramNames
    <3>2. k \in Int /\ n \in Int
      BY <2>1
    <3>3. Len(r) = IF k <= n THEN n - k + 1 ELSE 0
      BY <3>1, <3>2, SubSeqProperties
    <3>4. Len(r) = n - k + 1
      BY <2>1, <3>2, <3>3
    <3>. QED BY <3>1, <3>2, <3>4, SubSeqProperties
  <2>3. n - k + 1 = n + 1 - k /\ \A i \in 1 .. n + 1 - k : k + i - 1 = (k - 1) + i
    BY <2>1, ProgramsTyped
  <2>. HIDE DEF r
  <2>4. \A i \in 1 .. n + 1 - k : r[i] = Programs[(k - 1) + i]
    BY <2>2, <2>3
  <2>. QED BY <2>2, <2>3, <2>4 DEF Rest, n, r
<1>. QED BY <1>1, <1>2 DEF n

\* Sequences with the same elements are equal.
LEMMA SameSequence ==
  ASSUME NEW S, NEW s \in Seq(S), NEW t \in Seq(S), Len(s) = Len(t),
         \A i \in 1 .. Len(s) : s[i] = t[i]
  PROVE  s = t
OBVIOUS

\* A script begins with its program and goes on with the next.
LEMMA RestTail ==
  ASSUME NEW o, o.indexes \in BOOLEAN, NEW k \in 1 .. Last(o)
  PROVE  /\ Rest(o, k) # <<>> /\ Head(Rest(o, k)) = Programs[k]
         /\ Tail(Rest(o, k)) = Rest(o, k + 1)
<1>. DEFINE r == Rest(o, k)
            q == Rest(o, k + 1)
            n == Last(o)
<1>1. n \in {6, 9} /\ k \in 1 .. n
  BY RestFacts
<1>2. /\ r \in Seq(ProgramNames) /\ Len(r) = n + 1 - k
      /\ \A i \in 1 .. n + 1 - k : r[i] = Programs[(k - 1) + i]
  BY <1>1, RestFacts
<1>3. /\ q \in Seq(ProgramNames) /\ Len(q) = n + 1 - (k + 1)
      /\ \A i \in 1 .. n + 1 - (k + 1) : q[i] = Programs[((k + 1) - 1) + i]
  <2>1. k + 1 \in 1 .. n + 1
    BY <1>1
  <2>. QED BY <2>1, RestFacts
<1>. HIDE DEF r, q, n
<1>4. r # <<>> /\ Len(r) > 0
  BY <1>1, <1>2
<1>5. Head(r) = Programs[k]
  <2>1. 1 \in 1 .. n + 1 - k /\ (k - 1) + 1 = k
    BY <1>1
  <2>2. r[1] = Programs[k]
    BY <1>2, <2>1
  <2>. QED BY <1>2, <1>4, <2>2
<1>6. Tail(r) = q
  <2>1. /\ Tail(r) \in Seq(ProgramNames) /\ Len(Tail(r)) = Len(r) - 1
        /\ \A i \in 1 .. Len(r) - 1 : Tail(r)[i] = r[i + 1]
    BY <1>2, <1>4
  <2>2. Len(r) - 1 = n + 1 - (k + 1) /\ Len(q) = Len(r) - 1
    BY <1>1, <1>2, <1>3
  <2>3. ASSUME NEW i \in 1 .. Len(r) - 1 PROVE Tail(r)[i] = q[i]
    <3>1. i + 1 \in 1 .. n + 1 - k /\ (k - 1) + (i + 1) = ((k + 1) - 1) + i
      BY <1>1, <1>2
    <3>2. r[i + 1] = Programs[(k - 1) + (i + 1)]
      BY <1>2, <3>1
    <3>3. q[i] = Programs[((k + 1) - 1) + i]
      BY <1>3, <2>2
    <3>. QED BY <2>1, <3>1, <3>2, <3>3
  <2>. QED BY <1>3, <2>1, <2>2, <2>3, SameSequence
<1>. QED BY <1>4, <1>5, <1>6 DEF r, q

\* It is empty when the last has ended.
LEMMA RestEmpty ==
  ASSUME NEW o, o.indexes \in BOOLEAN, NEW k \in 1 .. Last(o) + 1
  PROVE  Rest(o, k) = <<>> <=> k = Last(o) + 1
<1>1. Last(o) \in {6, 9} /\ Rest(o, k) \in Seq(ProgramNames) /\ Len(Rest(o, k)) = Last(o) + 1 - k
  BY RestFacts
<1>2. Rest(o, k) = <<>> <=> Len(Rest(o, k)) = 0
  BY <1>1
<1>. QED BY <1>1, <1>2

\* mgbuild's scripts begin at the first, the fourth and the fifth program.
LEMMA ScriptsAre ==
  ASSUME NEW o, o.indexes \in BOOLEAN
  PROVE  /\ LastPart(o) = Rest(o, 5)
         /\ Pass2Part \o LastPart(o) = Rest(o, 4)
         /\ (Pass1Part \o Pass2Part) \o LastPart(o) = Rest(o, 1)
<1>. DEFINE S == ProgramNames
            two == <<"mg_weights_build", "mg_invf_dict">>
            stems == IF o.indexes THEN <<"mg_stem_idx -s1", "mg_stem_idx -s2", "mg_stem_idx -s3">>
                     ELSE <<>>
            n == Last(o)
<1>1. /\ n = IF o.indexes THEN 9 ELSE 6
      /\ \A k \in {1, 4, 5} :
           /\ Rest(o, k) \in Seq(S) /\ Len(Rest(o, k)) = n + 1 - k
           /\ \A i \in 1 .. n + 1 - k : Rest(o, k)[i] = Programs[(k - 1) + i]
  <2>1. \A k \in {1, 4, 5} : k \in 1 .. Last(o) + 1
    BY RestFacts
  <2>. QED BY <2>1, RestFacts DEF Last
<1>2. /\ two \in Seq(S) /\ Len(two) = 2 /\ two[1] = Programs[5] /\ two[2] = Programs[6]
      /\ stems \in Seq(S) /\ Len(stems) = n - 6
      /\ \A i \in 1 .. n - 6 : stems[i] = Programs[6 + i]
  <2>1. \A k \in 1 .. 9 : Programs[k] \in S
    BY DEF ProgramNames
  <2>. HIDE DEF S
  <2>2. \A k \in {5, 6, 7, 8, 9} : Programs[k] \in S
    BY <2>1
  <2>3. two \in Seq(S) /\ Len(two) = 2 /\ two[1] = Programs[5] /\ two[2] = Programs[6]
    <3>1. two = <<Programs[5], Programs[6]>> /\ Programs[5] \in S /\ Programs[6] \in S
      BY <2>2, ProgramsAre
    <3>. HIDE DEF two
    <3>. QED BY <3>1
  <2>4. CASE o.indexes
    <3>1. stems = <<Programs[7], Programs[8], Programs[9]>> /\ n - 6 = 3
      <4>1. stems = <<Programs[7], Programs[8], Programs[9]>>
        BY <2>4, ProgramsAre
      <4>2. n = 9
        BY <1>1, <2>4
      <4>. HIDE DEF stems, n
      <4>. QED BY <4>1, <4>2
    <3>2. Programs[7] \in S /\ Programs[8] \in S /\ Programs[9] \in S
      BY <2>2
    <3>. HIDE DEF stems, two, n
    <3>3. /\ stems \in Seq(S) /\ Len(stems) = 3
          /\ stems[1] = Programs[7] /\ stems[2] = Programs[8] /\ stems[3] = Programs[9]
      BY <3>1, <3>2
    <3>4. \A i \in 1 .. 3 : stems[i] = Programs[6 + i]
      BY <3>3
    <3>. QED BY <2>3, <3>1, <3>3, <3>4
  <2>5. CASE ~o.indexes
    <3>1. stems = <<>> /\ n - 6 = 0
      BY <1>1, <2>5
    <3>. HIDE DEF stems, n
    <3>2. stems \in Seq(S) /\ Len(stems) = 0
      BY <3>1
    <3>. QED BY <2>3, <3>1, <3>2
  <2>. QED BY <2>4, <2>5
<1>3. LastPart(o) = two \o stems
  BY DEF LastPart
<1>. HIDE DEF two, stems, S, n
<1>. DEFINE last == two \o stems
<1>4. /\ last \in Seq(S) /\ Len(last) = n - 4 /\ n \in {6, 9}
      /\ \A i \in 1 .. n - 4 : last[i] = Programs[4 + i]
  <2>1. /\ last \in Seq(S) /\ Len(last) = 2 + (n - 6)
        /\ \A i \in 1 .. 2 : last[i] = two[i]
        /\ \A i \in 1 .. n - 6 : last[2 + i] = stems[i]
    <3>1. /\ last \in Seq(S) /\ Len(last) = Len(two) + Len(stems)
          /\ \A i \in 1 .. Len(two) : last[i] = two[i]
          /\ \A i \in 1 .. Len(stems) : last[Len(two) + i] = stems[i]
      <4>1. two \in Seq(S) /\ stems \in Seq(S)
        BY <1>2
      <4>. QED BY ONLY <4>1, JoinFacts
    <3>. HIDE DEF last
    <3>. QED BY <1>2, <3>1
  <2>2. n \in {6, 9}
    BY <1>1
  <2>3. ASSUME NEW i \in 1 .. n - 4 PROVE last[i] = Programs[4 + i]
    <3>1. CASE i \in 1 .. 2
      <4>1. i = 1 \/ i = 2
        BY <3>1
      <4>. QED BY <1>2, <2>1, <3>1, <4>1
    <3>2. CASE i \notin 1 .. 2
      <4>1. i - 2 \in 1 .. n - 6 /\ 2 + (i - 2) = i /\ 6 + (i - 2) = 4 + i
        BY <2>2, <3>2
      <4>. QED BY <1>2, <2>1, <4>1
    <3>. QED BY <3>1, <3>2
  <2>. QED BY <2>1, <2>2, <2>3
<1>. HIDE DEF last
<1>5. last = Rest(o, 5)
  <2>1. n + 1 - 5 = n - 4 /\ \A i : (5 - 1) + i = 4 + i
    BY <1>4
  <2>2. /\ Rest(o, 5) \in Seq(S) /\ Len(Rest(o, 5)) = n - 4
        /\ \A i \in 1 .. n - 4 : Rest(o, 5)[i] = Programs[4 + i]
    BY <1>1, <2>1
  <2>. QED BY <1>4, <2>2, SameSequence
<1>6. ASSUME NEW part \in Seq(S), NEW k \in {1, 4}, Len(part) = 5 - k,
             \A i \in 1 .. 5 - k : part[i] = Programs[(k - 1) + i]
      PROVE  part \o last = Rest(o, k)
  <2>. DEFINE u == part \o last
              r == Rest(o, k)
  <2>1. /\ u \in Seq(S) /\ Len(u) = (5 - k) + (n - 4)
        /\ \A i \in 1 .. 5 - k : u[i] = part[i]
        /\ \A i \in 1 .. n - 4 : u[(5 - k) + i] = last[i]
    <3>1. /\ u \in Seq(S) /\ Len(u) = Len(part) + Len(last)
          /\ \A i \in 1 .. Len(part) : u[i] = part[i]
          /\ \A i \in 1 .. Len(last) : u[Len(part) + i] = last[i]
      BY <1>4, JoinFacts
    <3>. HIDE DEF u
    <3>. QED BY <1>4, <1>6, <3>1
  <2>2. /\ r \in Seq(S) /\ Len(r) = n + 1 - k
        /\ \A i \in 1 .. n + 1 - k : r[i] = Programs[(k - 1) + i]
    BY <1>1
  <2>. HIDE DEF u, r
  <2>3. Len(u) = n + 1 - k /\ Len(u) = Len(r)
    BY <1>4, <2>1, <2>2
  <2>4. ASSUME NEW i \in 1 .. n + 1 - k PROVE u[i] = r[i]
    <3>1. CASE i \in 1 .. 5 - k
      BY <1>6, <2>1, <2>2, <3>1
    <3>2. CASE i \notin 1 .. 5 - k
      <4>1. /\ i - (5 - k) \in 1 .. n - 4 /\ (5 - k) + (i - (5 - k)) = i
            /\ 4 + (i - (5 - k)) = (k - 1) + i
        BY <1>4, <3>2
      <4>2. u[i] = last[i - (5 - k)]
        BY <2>1, <4>1
      <4>. QED BY <1>4, <2>2, <4>1, <4>2
    <3>. QED BY <3>1, <3>2
  <2>5. u = r
    BY <2>1, <2>2, <2>3, <2>4, SameSequence
  <2>. QED BY <2>5 DEF u, r
<1>7. Pass2Part \in Seq(S) /\ Len(Pass2Part) = 1 /\ Pass2Part[1] = Programs[4]
  <2>1. Pass2Part = <<Programs[4]>>
    BY ProgramsAre DEF Pass2Part
  <2>2. Programs[4] \in S
    BY DEF S, ProgramNames
  <2>. QED BY <2>1, <2>2
<1>8. Pass2Part \o last = Rest(o, 4)
  <2>1. Len(Pass2Part) = 5 - 4 /\ \A i \in 1 .. 5 - 4 : Pass2Part[i] = Programs[(4 - 1) + i]
    BY <1>7
  <2>. QED BY <1>6, <1>7, <2>1
<1>9. Pass1Part \o Pass2Part \in Seq(S) /\ Len(Pass1Part \o Pass2Part) = 4
      /\ \A i \in 1 .. 4 : (Pass1Part \o Pass2Part)[i] = Programs[i]
  <2>1. /\ Pass1Part \in Seq(S) /\ Len(Pass1Part) = 3 /\ Pass1Part[1] = Programs[1]
        /\ Pass1Part[2] = Programs[2] /\ Pass1Part[3] = Programs[3]
    <3>1. Pass1Part = <<Programs[1], Programs[2], Programs[3]>>
      BY ProgramsAre DEF Pass1Part
    <3>2. Programs[1] \in S /\ Programs[2] \in S /\ Programs[3] \in S
      BY DEF S, ProgramNames
    <3>. QED BY <3>1, <3>2
  <2>. DEFINE p == Pass1Part \o Pass2Part
  <2>2. p \in Seq(S) /\ Len(p) = 3 + 1
        /\ (\A i \in 1 .. 3 : p[i] = Pass1Part[i]) /\ \A i \in 1 .. 1 : p[3 + i] = Pass2Part[i]
    <3>1. /\ p \in Seq(S) /\ Len(p) = Len(Pass1Part) + Len(Pass2Part)
          /\ \A i \in 1 .. Len(Pass1Part) : p[i] = Pass1Part[i]
          /\ \A i \in 1 .. Len(Pass2Part) : p[Len(Pass1Part) + i] = Pass2Part[i]
      <4>1. Pass1Part \in Seq(S) /\ Pass2Part \in Seq(S)
        BY <1>7, <2>1
      <4>. QED BY ONLY <4>1, JoinFacts
    <3>. HIDE DEF p
    <3>. QED BY <1>7, <2>1, <3>1
  <2>. HIDE DEF p
  <2>3. p[1] = Programs[1] /\ p[2] = Programs[2] /\ p[3] = Programs[3] /\ p[3 + 1] = Programs[4]
    BY <1>7, <2>1, <2>2
  <2>. QED BY <2>2, <2>3 DEF p
<1>10. (Pass1Part \o Pass2Part) \o last = Rest(o, 1)
  <2>. DEFINE p == Pass1Part \o Pass2Part
  <2>1. p \in Seq(S) /\ Len(p) = 5 - 1 /\ \A i \in 1 .. 5 - 1 : p[i] = Programs[(1 - 1) + i]
    BY <1>9
  <2>. HIDE DEF p
  <2>2. p \o last = Rest(o, 1)
    BY <1>6, <2>1
  <2>. QED BY <2>2 DEF p
<1>. QED BY <1>3, <1>5, <1>8, <1>10 DEF last

-----------------------------------------------------------------------------
\* One step of a program.

\* All files but f are as they were.
Elsewhere(f) ==
  /\ build' = build
  /\ \A g : g # f => /\ Exists(g)' <=> Exists(g)
                     /\ Exists(g) => disk'[g] = disk[g]
                     /\ g \in Cur' <=> g \in Cur

\* While no file changes, none becomes or ceases to be current.
LEMMA NothingWritten ==
  ASSUME disk' = disk, build' = build
  PROVE  Cur' = Cur /\ \A g : Exists(g)' <=> Exists(g)
BY DEF Cur, Exists

\* Writing a file changes this file.
LEMMA Written ==
  ASSUME NEW f, NEW stems, Write(f, stems), build' = build
  PROVE  Elsewhere(f) /\ Exists(f)' /\ disk'[f] = stems /\ (f \in Cur' <=> stems = {build})
<1>1. /\ DOMAIN disk' = DOMAIN disk \cup {f} /\ disk'[f] = stems
      /\ \A g \in DOMAIN disk : g # f => disk'[g] = disk[g]
  BY DEF Write
<1>. QED BY <1>1 DEF Elsewhere, Cur, Exists

\* So does taking it away.
LEMMA Unlinked ==
  ASSUME NEW f, disk' = [g \in DOMAIN disk \ {f} |-> disk[g]], build' = build
  PROVE  Elsewhere(f) /\ ~Exists(f)' /\ f \notin Cur'
<1>1. /\ DOMAIN disk' = DOMAIN disk \ {f}
      /\ \A g \in DOMAIN disk : g # f => disk'[g] = disk[g]
  OBVIOUS
<1>. QED BY <1>1 DEF Elsewhere, Cur, Exists

\* What the programs before have made stays, whatever file of its own the
\* k-th program writes or takes away.
LEMMA FilesStayRight ==
  ASSUME NEW k \in 1 .. 9, FilesRight(k - 1), config' = config, NEW f, Elsewhere(f),
         f \in Output(config, k) \cup Removed(config, k),
         Exists(f)' => f \in Output(config, k) /\ disk'[f] \in {Torn, {build}}
  PROVE  FilesRight(k - 1)'
<1>1. ASSUME NEW g \in Made(config, k - 1) PROVE g \in Cur'
  <2>1. g # f
    BY MadeFacts, OutputWriter, RemovedFacts
  <2>. QED BY <2>1 DEF FilesRight, Elsewhere
<1>2. ASSUME k - 1 >= 4 PROVE config.aux \/ ~Exists("text.dict.aux")'
  <2>1. f \in Output(config, k)
    BY <1>2, RemovedFacts
  <2>2. Writer(f) = k /\ f # "text.dict.aux"
    BY <1>2, <2>1, OutputWriter, WriterFacts
  <2>. QED BY <1>2, <2>2 DEF FilesRight, Elsewhere
<1>3. ASSUME k - 1 >= 4, Exists("weight")'
      PROVE  config.level # 1 /\ disk'["weight"] \in {Torn, {build}}
  <2>1. CASE f # "weight"
    BY <1>3, <2>1 DEF FilesRight, Elsewhere
  <2>2. CASE f = "weight"
    <3>1. f \in Output(config, k) /\ disk'[f] \in {Torn, {build}}
      BY <1>3, <2>2
    <3>2. k = 5
      BY <2>2, <3>1, OutputWriter, WriterFacts
    <3>3. config.level # 1
      BY <3>1, <3>2 DEF Output
    <3>. QED BY <2>2, <3>1, <3>3
  <2>. QED BY <2>1, <2>2
<1>4. build' = build
  BY DEF Elsewhere
<1>. QED BY <1>1, <1>2, <1>3, <1>4 DEF FilesRight, Torn

\* While no file changes, they stay right.
LEMMA FilesUntouched ==
  ASSUME NEW k, FilesRight(k), config' = config, disk' = disk, build' = build
  PROVE  FilesRight(k)'
BY NothingWritten DEF FilesRight, Exists, Torn

(***************************************************************************)
(* What is left of the program after a step still makes what it makes, if  *)
(* the step has done to the files what it says.                            *)
(***************************************************************************)
Stepped(o) ==
  /\ \A f \in Cur : ~(o.verb \in {"create", "unlink"} /\ o.f = f) => f \in Cur'
  /\ o.verb = "close" => o.f \in Cur'
  /\ \A f : Exists(f)' => Exists(f) \/ (o.verb \in {"create", "close"} /\ o.f = f)
  /\ o.verb = "unlink" => o.f \notin DOMAIN disk'
  /\ inputs' = {build'} \/ (inputs' = {} /\ inputs = {} /\ o.verb \notin {"read", "source"})
  /\ indexed' = IF o.verb = "create" /\ o.f = "invf.dict.blocked" THEN {}
                ELSE IF o.verb = "index" THEN indexed \cup {o.f} ELSE indexed

\* After a step that has done what it says, the program runs on.
LEMMA RunningOn ==
  ASSUME NEW k \in 1 .. 9, Running(k), ops # <<>>, ops' = Tail(ops), config' = config,
         build' = build, Stepped(Head(ops))
  PROVE  Running(k)'
<1>. DEFINE o == Head(ops)
            M == Made(config, k)
<1>1. ops \in Seq(AnOp) /\ Tail(ops) \in Seq(AnOp) /\ o \in AnOp
  BY TailFacts DEF Running
<1>2. Runs(Tail(ops), Cur', M)
  BY <1>1, TailRuns DEF Running, Stepped
<1>3. \A verb : /\ o.verb = verb => Of(ops, verb) = {o.f} \cup Of(Tail(ops), verb)
                /\ o.verb # verb => Of(ops, verb) = Of(Tail(ops), verb)
  BY <1>1, TailOf
<1>4. \A verb : Of(Tail(ops), verb) \subseteq Of(ops, verb)
  BY <1>3
<1>. HIDE DEF o
<1>5. inputs' = {build'} \/ (inputs' = {} /\ Fed(Tail(ops)))
  <2>1. CASE inputs' = {build'}
    BY <2>1
  <2>2. CASE inputs' = {} /\ inputs = {} /\ o.verb \notin {"read", "source"}
    <3>1. Fed(ops)
      BY <2>2 DEF Running
    <3>. QED BY <1>1, <2>2, <3>1, TailFed DEF o
  <2>. QED BY <2>1, <2>2 DEF Stepped, o
<1>6. /\ Of(Tail(ops), "create") \cup Of(Tail(ops), "close") \subseteq Output(config, k)
      /\ Of(Tail(ops), "unlink") \subseteq Removed(config, k)
  BY <1>4 DEF Running
<1>7. ASSUME NEW f \in Removed(config, k), f \notin Of(Tail(ops), "unlink") PROVE ~Exists(f)'
  <2>1. f \in Of(ops, "unlink") \/ ~Exists(f)
    BY DEF Running
  <2>2. CASE f \in Of(ops, "unlink")
    <3>1. o.verb = "unlink" /\ o.f = f
      BY <1>3, <1>7, <2>2
    <3>. QED BY <3>1 DEF Stepped, o, Exists
  <2>3. CASE ~Exists(f)
    <3>1. ASSUME o.verb \in {"create", "close"}, o.f = f PROVE FALSE
      <4>1. f \in Output(config, k)
        BY <1>3, <3>1 DEF Running
      <4>. QED BY <4>1, RemovedFacts
    <3>. QED BY <2>3, <3>1 DEF Stepped, o
  <2>. QED BY <2>1, <2>2, <2>3
<1>8. indexed' = IF o.verb = "create" /\ o.f = "invf.dict.blocked" THEN {}
                 ELSE IF o.verb = "index" THEN indexed \cup {o.f} ELSE indexed
  BY DEF Stepped, o
<1>9. ASSUME k = 6
      PROVE  /\ indexed' = {} \/ "invf.dict.blocked" \in Of(Tail(ops), "create")
             /\ Of(Tail(ops), "index") = {}
  <2>1. Of(ops, "index") = {} /\ o.verb # "index"
    BY <1>3, <1>9 DEF Running
  <2>2. indexed = {} \/ "invf.dict.blocked" \in Of(ops, "create")
    BY <1>9 DEF Running
  <2>. QED BY <1>3, <1>4, <1>8, <2>1, <2>2
<1>10. ASSUME k >= 7 PROVE indexed' \cup Of(Tail(ops), "index") = 1 .. k - 6
  <2>1. indexed \cup Of(ops, "index") = 1 .. k - 6
    BY <1>10 DEF Running
  <2>2. ~(o.verb = "create" /\ o.f = "invf.dict.blocked")
    <3>1. ASSUME o.verb = "create", o.f = "invf.dict.blocked" PROVE FALSE
      <4>1. o.f \in Output(config, k)
        BY <1>3, <3>1 DEF Running
      <4>. QED BY <1>10, <3>1, <4>1, OutputWriter, WriterFacts
    <3>. QED BY <3>1
  <2>. QED BY <1>3, <1>8, <2>1, <2>2
<1>. QED BY <1>1, <1>2, <1>5, <1>6, <1>7, <1>9, <1>10 DEF Running

\* The steps do what they say, and spare the files of earlier programs.
LEMMA StepKeepsRunning ==
  ASSUME status = "run", build \in Nat \ {0}, NEW k \in 1 .. 9, Running(k), FilesRight(k - 1),
         FileStep
  PROVE  /\ Running(k)' /\ FilesRight(k - 1)' /\ status' = "run"
         /\ UNCHANGED <<configs, config, build, script>>
<1>. DEFINE o == Head(ops)
<1>0. Torn # {build}
  BY DEF Torn
<1>1. ASSUME ops # <<>>
      PROVE  o.verb = "close" => inputs = {build} /\ inputs # {}
  <2>1. ops \in Seq(AnOp)
    BY DEF Running
  <2>2. Fed(ops) => o.verb # "close"
    BY <1>1, <2>1, TailFed
  <2>. QED BY <2>2 DEF Running
<1>2. ASSUME ops # <<>>
      PROVE  o.verb = "read" => o.f \in Cur
  <2>1. ops \in Seq(AnOp) /\ Runs(ops, Cur, Made(config, k))
    BY DEF Running
  <2>. DEFINE D == Cur \cup {o.f}
  <2>2. \A f \in Cur : f \in D
    OBVIOUS
  <2>3. o.f \in D
    OBVIOUS
  <2>. HIDE DEF D
  <2>. QED BY <1>2, <2>1, <2>2, <2>3, TailRuns
<1>3. ASSUME ops # <<>>
      PROVE  /\ o.verb \in {"create", "close"} => o.f \in Output(config, k)
             /\ o.verb = "unlink" => o.f \in Removed(config, k)
  <2>1. ops \in Seq(AnOp)
    BY DEF Running
  <2>2. \A verb : o.verb = verb => o.f \in Of(ops, verb)
    BY <1>3, <2>1, TailOf
  <2>. QED BY <2>2 DEF Running
<1>4. inputs = {build} \/ inputs = {}
  BY DEF Running
<1>5. CASE ReadSource \/ open_file \/ UpdateStemDict
  <2>1. /\ ops # <<>> /\ ops' = Tail(ops) /\ status' = "run" /\ disk' = disk
        /\ UNCHANGED <<configs, config, build, script>>
        /\ o.verb \in {"source", "read", "index"}
        /\ inputs' = {build'} \/ (inputs' = {} /\ inputs = {} /\ o.verb = "index")
        /\ indexed' = IF o.verb = "index" THEN indexed \cup {o.f} ELSE indexed
    <3>1. CASE ReadSource
      BY <1>4, <3>1 DEF ReadSource, Doing, Done
    <3>2. CASE open_file
      <4>1. ops # <<>> /\ o.verb = "read"
        BY <3>2 DEF open_file, Doing
      <4>2. Exists(o.f) /\ disk[o.f] = {build}
        BY <1>2, <4>1 DEF Exists, Cur
      <4>3. inputs' = inputs \cup {build} /\ Done /\ status' = status
        BY <3>2, <4>2 DEF open_file
      <4>4. disk' = disk /\ indexed' = indexed
        BY <3>2 DEF open_file
      <4>. QED BY <1>4, <4>1, <4>3, <4>4 DEF Done
    <3>3. CASE UpdateStemDict
      BY <1>4, <3>3 DEF UpdateStemDict, Doing, Done
    <3>. QED BY <1>5, <3>1, <3>2, <3>3
  <2>2. Cur' = Cur /\ \A g : Exists(g)' <=> Exists(g)
    BY <2>1, NothingWritten
  <2>. HIDE DEF o
  <2>3. Stepped(o)
    BY <2>1, <2>2 DEF Stepped
  <2>4. FilesRight(k - 1)'
    BY <2>1, FilesUntouched
  <2>. QED BY <2>1, <2>3, <2>4, RunningOn DEF o
<1>6. CASE create_file \/ CloseFile
  <2>. DEFINE stems == IF o.verb = "create" THEN Torn ELSE inputs
  <2>1. /\ ops # <<>> /\ ops' = Tail(ops) /\ status' = "run" /\ inputs' = inputs
        /\ UNCHANGED <<configs, config, build, script>>
        /\ o.verb \in {"create", "close"} /\ Write(o.f, stems)
        /\ indexed' = IF o.verb = "create" /\ o.f = "invf.dict.blocked" THEN {} ELSE indexed
    BY <1>6 DEF create_file, CloseFile, Doing, Done
  <2>2. stems \in {Torn, {build}} /\ (o.verb = "close" => stems = {build})
    BY <1>1, <2>1
  <2>3. o.f \in Output(config, k)
    BY <1>3, <2>1
  <2>. HIDE DEF o, stems
  <2>f. PICK f : f = o.f
    OBVIOUS
  <2>s. PICK s : s = stems
    OBVIOUS
  <2>4. Elsewhere(f) /\ Exists(f)' /\ disk'[f] = s /\ (f \in Cur' <=> s = {build})
    <3>1. Write(f, s) /\ build' = build
      BY <2>1, <2>f, <2>s
    <3>. QED BY ONLY <3>1, Written
  <2>5. FilesRight(k - 1)'
    <3>1. f \in Output(config, k) \cup Removed(config, k)
      BY <2>3, <2>f
    <3>2. Exists(f)' => f \in Output(config, k) /\ disk'[f] \in {Torn, {build}}
      BY <2>2, <2>3, <2>4, <2>f, <2>s
    <3>3. config' = config
      BY <2>1
    <3>. HIDE DEF Elsewhere
    <3>. QED BY ONLY FilesRight(k - 1), k \in 1 .. 9, <2>4, <3>1, <3>2, <3>3, FilesStayRight
  <2>6. Stepped(o)
    <3>1. \A g \in Cur : ~(o.verb \in {"create", "unlink"} /\ o.f = g) => g \in Cur'
      BY <2>1, <2>2, <2>4, <2>f, <2>s DEF Elsewhere
    <3>2. o.verb = "close" => o.f \in Cur'
      BY <2>1, <2>2, <2>4, <2>f, <2>s
    <3>3. \A g : Exists(g)' => Exists(g) \/ (o.verb \in {"create", "close"} /\ o.f = g)
      BY <2>1, <2>4, <2>f DEF Elsewhere
    <3>4. inputs' = {build'} \/ (inputs' = {} /\ inputs = {} /\ o.verb \notin {"read", "source"})
      BY <1>4, <2>1
    <3>. QED BY <2>1, <3>1, <3>2, <3>3, <3>4 DEF Stepped
  <2>. QED BY <2>1, <2>5, <2>6, RunningOn DEF o
<1>7. CASE Unlink
  <2>1. /\ ops # <<>> /\ ops' = Tail(ops) /\ status' = "run"
        /\ inputs' = inputs /\ indexed' = indexed
        /\ UNCHANGED <<configs, config, build, script>>
        /\ o.verb = "unlink" /\ disk' = [g \in DOMAIN disk \ {o.f} |-> disk[g]]
    BY <1>7 DEF Unlink, Doing, Done
  <2>2. o.f \in Removed(config, k)
    BY <1>3, <2>1
  <2>. HIDE DEF o
  <2>f. PICK f : f = o.f
    OBVIOUS
  <2>3. Elsewhere(f) /\ ~Exists(f)' /\ f \notin Cur'
    <3>1. disk' = [g \in DOMAIN disk \ {f} |-> disk[g]] /\ build' = build
      BY <2>1, <2>f
    <3>. QED BY ONLY <3>1, Unlinked
  <2>4. FilesRight(k - 1)'
    <3>1. f \in Output(config, k) \cup Removed(config, k)
      BY <2>2, <2>f
    <3>2. config' = config
      BY <2>1
    <3>. QED BY ONLY FilesRight(k - 1), k \in 1 .. 9, <2>3, <3>1, <3>2, FilesStayRight
  <2>5. Stepped(o)
    <3>1. \A g \in Cur : ~(o.verb \in {"create", "unlink"} /\ o.f = g) => g \in Cur'
      BY <2>1, <2>3, <2>f DEF Elsewhere
    <3>2. \A g : Exists(g)' => Exists(g)
      BY <2>3, <2>f DEF Elsewhere
    <3>3. o.f \notin DOMAIN disk'
      BY <2>1
    <3>4. inputs' = {build'} \/ (inputs' = {} /\ inputs = {} /\ o.verb \notin {"read", "source"})
      BY <1>4, <2>1
    <3>. QED BY <2>1, <3>1, <3>2, <3>3, <3>4 DEF Stepped
  <2>. QED BY <2>1, <2>4, <2>5, RunningOn DEF o
<1>. QED BY <1>5, <1>6, <1>7 DEF FileStep

\* A program starts.
LEMMA ProgramStarts ==
  ASSUME configs \in ConfigSets, config \in configs, NEW k \in 1 .. 9, FilesRight(k - 1),
         Ready(k), inputs = {}, ops' = FileOps(Programs[k]),
         UNCHANGED <<configs, config, build, disk, indexed, inputs>>
  PROVE  Running(k)' /\ FilesRight(k - 1)'
<1>. DEFINE s == FileOps(Programs[k])
<1>1. Fits(s, k)
  BY ProgramFits
<1>. HIDE DEF s
<1>2. /\ s \in Seq(AnOp) /\ Fed(s) /\ Runs(s, Cur, Made(config, k))
      /\ Of(s, "create") \cup Of(s, "close") \subseteq Output(config, k)
      /\ Of(s, "unlink") = Removed(config, k) /\ Of(s, "index") = Announced(k)
  BY <1>1 DEF Fits, Whole, Part
<1>3. Cur' = Cur
  BY NothingWritten
<1>4. k = 6 => "invf.dict.blocked" \in Of(s, "create") /\ Of(s, "index") = {}
  BY <1>2, FileOpsAre, InvfDictCreates DEF s, Announced
<1>5. ASSUME k >= 7 PROVE indexed \cup Of(s, "index") = 1 .. k - 6
  <2>1. indexed = 1 .. k - 7 /\ Of(s, "index") = {k - 6}
    BY <1>2, <1>5 DEF Ready, Announced
  <2>2. (1 .. k - 7) \cup {k - 6} = 1 .. k - 6
    BY <1>5
  <2>. QED BY <2>1, <2>2
<1>6. ops' = s /\ inputs' = {}
  BY DEF s
<1>7. Running(k)'
  BY <1>2, <1>3, <1>4, <1>5, <1>6 DEF Running
<1>. QED BY <1>7, FilesUntouched

\* A program ends.
LEMMA ProgramDone ==
  ASSUME NEW k \in 1 .. 9, FilesRight(k - 1), Running(k), ops = <<>>
  PROVE  FilesRight(k) /\ Ready(k + 1)
<1>1. Made(config, k) \subseteq Cur
  <2>1. Len(ops) = 0
    OBVIOUS
  <2>2. \A f \in Made(config, k) : Holds(ops, 0, f, Cur)
    BY <2>1 DEF Running, Runs, Leaves
  <2>. QED BY <2>2 DEF Holds
<1>2. \A verb : Of(ops, verb) = {}
  BY DEF Of
<1>3. k = 4 => ~Exists("weight") /\ (config.aux \/ ~Exists("text.dict.aux"))
  <2>1. \A f \in Removed(config, k) : ~Exists(f)
    BY <1>2 DEF Running
  <2>. QED BY <2>1 DEF Removed
<1>4. FilesRight(k)
  <2>1. CASE k = 4
    BY <1>1, <1>3, <2>1 DEF FilesRight
  <2>2. CASE k # 4
    BY <1>1, <2>2 DEF FilesRight
  <2>. QED BY <2>1, <2>2
<1>5. k + 1 = 5 => ~Exists("weight")
  BY <1>3
<1>6. ASSUME k + 1 >= 7 PROVE indexed = 1 .. (k + 1) - 7
  <2>1. CASE k = 6
    <3>1. indexed = {}
      BY <1>2, <2>1 DEF Running
    <3>. QED BY <2>1, <3>1
  <2>2. CASE k >= 7
    <3>1. indexed \cup {} = 1 .. k - 6
      BY <1>2, <2>2 DEF Running
    <3>. QED BY <3>1
  <2>. QED BY <1>6, <2>1, <2>2
<1>. QED BY <1>4, <1>5, <1>6 DEF Ready

-----------------------------------------------------------------------------
\* The invariant, step by step.

\* The options, under the invariant.
LEMMA ConfigTyped ==
  ASSUME BuildInv
  PROVE  /\ configs \in ConfigSets /\ config \in configs /\ build \in Nat
         /\ config.level \in 1 .. 3 /\ config.indexes \in BOOLEAN /\ config.aux \in BOOLEAN
         /\ Last(config) \in {6, 9}
BY LevelTyped, RestFacts DEF BuildInv

\* The invariant holds at first.
LEMMA BuildStart == BuildInit => BuildInv
BY DEF BuildInit, BuildInv

\* Nothing is made before the first program.
LEMMA StartsRight == FilesRight(0) /\ Ready(1)
<1>1. Made(config, 0) = {}
  <2>1. 1 .. 0 = {}
    OBVIOUS
  <2>. QED BY <2>1 DEF Made
<1>. QED BY <1>1 DEF FilesRight, Ready

\* A build begins with nothing made.
LEMMA MgbuildKeeps ==
  ASSUME BuildInv, mgbuild
  PROVE  BuildInv'
<1>1. /\ configs' = configs /\ config' \in configs /\ build' = build + 1 /\ build \in Nat
      /\ status' = "next" /\ inputs' = {}
  BY DEF mgbuild, BuildInv, Ended
<1>2. configs \in ConfigSets /\ config'.indexes \in BOOLEAN
  BY <1>1, BuildAssumption DEF BuildInv
<1>3. script' = Rest(config', 1) /\ Last(config') \in {6, 9}
  <2>1. script' = (Pass1Part \o Pass2Part) \o LastPart(config')
    BY DEF mgbuild
  <2>2. PICK o : o = config'
    OBVIOUS
  <2>3. o.indexes \in BOOLEAN
    BY <1>2, <2>2
  <2>4. (Pass1Part \o Pass2Part) \o LastPart(o) = Rest(o, 1)
    BY ONLY <2>3, ScriptsAre
  <2>5. Last(o) \in {6, 9}
    BY <2>3, RestFacts
  <2>. QED BY <2>1, <2>2, <2>4, <2>5
<1>4. (FilesRight(0) /\ Ready(1))'
  BY StartsRight, PTL
<1>5. Coming(1)'
  BY <1>1, <1>3, <1>4 DEF Coming
<1>6. 1 \in 1 .. Last(config') + 1
  BY <1>3
<1>. QED BY <1>1, <1>2, <1>5, <1>6 DEF BuildInv

\* What has been made by then was made before.
LEMMA FilesRightBefore ==
  ASSUME NEW k \in 0 .. 9, NEW j \in 0 .. k, FilesRight(k)
  PROVE  FilesRight(j)
<1>1. Made(config, j) \subseteq Made(config, k)
  <2>1. \A i \in 1 .. j : i \in 1 .. k
    OBVIOUS
  <2>. QED BY <2>1 DEF Made
<1>. QED BY <1>1 DEF FilesRight

\* One that goes on begins at or before the program that was killed.
LEMMA GoOnKeeps ==
  ASSUME BuildInv, GoOn
  PROVE  BuildInv'
<1>1. /\ configs \in ConfigSets /\ config \in configs /\ build \in Nat /\ build > 0
      /\ config.indexes \in BOOLEAN /\ Last(config) \in {6, 9}
      /\ status = "failed" /\ inputs = {}
  BY ConfigTyped DEF BuildInv, GoOn
<1>2. /\ UNCHANGED <<configs, config, build, disk, indexed, inputs>> /\ status' = "next"
      /\ script # <<>>
  BY DEF GoOn
<1>3. PICK part \in {Pass2Part \o LastPart(config), LastPart(config)} :
        /\ \E n \in 0 .. Len(part) - 1 : SubSeq(part, n + 1, Len(part)) = script
        /\ Exists("weight") /\ disk["weight"] = Torn => Head(part) = Head(Pass2Part)
        /\ script' = part
  BY ONLY GoOn, Zenon DEF GoOn
<1>4. PICK j \in {4, 5} : part = Rest(config, j)
  <2>1. Pass2Part \o LastPart(config) = Rest(config, 4) /\ LastPart(config) = Rest(config, 5)
    BY ONLY <1>1, ScriptsAre
  <2>2. part = Rest(config, 4) \/ part = Rest(config, 5)
    BY ONLY <1>3, <2>1
  <2>. QED BY <2>2
<1>5. PICK n \in 0 .. Len(part) - 1 : SubSeq(part, n + 1, Len(part)) = script
  BY <1>3
<1>6. /\ part \in Seq(ProgramNames) /\ Len(part) = Last(config) + 1 - j
      /\ \A i \in 1 .. Last(config) + 1 - j : part[i] = Programs[(j - 1) + i]
  BY <1>1, <1>4, RestFacts
<1>7. j + n \in 1 .. 9 /\ script[1] = Programs[j + n]
  <2>1. n + 1 \in 1 .. Len(part) /\ j + n \in 1 .. 9 /\ (j - 1) + (n + 1) = j + n
    BY <1>1, <1>5, <1>6
  <2>2. SubSeq(part, n + 1, Len(part))[1] = part[n + 1]
    BY <1>6, <2>1
  <2>. QED BY <1>5, <1>6, <2>1, <2>2
<1>8. script # <<"mg_fast_comp_dict">>
  BY <1>7, ProgramsDiffer
<1>9. PICK k \in 1 .. Last(config) + 1 : Coming(k)
  BY <1>1, <1>8 DEF BuildInv, ByHand
<1>10. k \in 1 .. Last(config) /\ script = Rest(config, k) /\ FilesRight(k - 1)
  BY <1>1, <1>9 DEF Coming
<1>11. k = j + n
  <2>1. Head(script) = Programs[k] /\ script # <<>>
    BY <1>1, <1>10, RestTail
  <2>2. script[1] = Programs[k]
    BY <2>1
  <2>3. k \in 1 .. 9
    BY <1>1, <1>10
  <2>. QED BY <1>7, <2>2, <2>3, ProgramsDiffer
<1>12. FilesRight(j - 1)
  <2>1. k - 1 \in 0 .. 9 /\ j - 1 \in 0 .. k - 1
    BY <1>1, <1>5, <1>10, <1>11
  <2>. QED BY <1>10, <2>1, FilesRightBefore
<1>13. Ready(j)
  <2>1. ASSUME j = 5, Exists("weight") PROVE "weight" \in Cur
    <3>1. Head(part) = Programs[5] /\ Head(Pass2Part) = Programs[4]
      <4>1. Head(part) = Programs[5]
        <5>1. 5 \in 1 .. Last(config) /\ part = Rest(config, 5)
          BY <1>1, <1>4, <2>1
        <5>. QED BY <1>1, <5>1, RestTail
      <4>2. Head(Pass2Part) = "mg_passes -2"
        <5>1. \A w : Head(<<w>>) = w
          OBVIOUS
        <5>. QED BY <5>1 DEF Pass2Part
      <4>. QED BY <4>1, <4>2, ProgramsAre
    <3>2. disk["weight"] # Torn
      BY <1>3, <2>1, <3>1, ProgramsDiffer
    <3>3. disk["weight"] = {build}
      <4>1. k - 1 >= 4
        BY <1>5, <1>11, <2>1
      <4>. QED BY <1>10, <2>1, <3>2, <4>1 DEF FilesRight
    <3>. QED BY <2>1, <3>3 DEF Cur, Exists
  <2>. QED BY <2>1 DEF Ready
<1>14. FilesRight(j - 1)' /\ Ready(j)'
  <2>1. FilesRight(j - 1)'
    BY <1>2, <1>12, FilesUntouched
  <2>2. Cur' = Cur /\ (Exists("weight")' <=> Exists("weight"))
    BY <1>2, NothingWritten
  <2>. QED BY <1>2, <1>13, <2>1, <2>2 DEF Ready
<1>15. Coming(j)'
  BY <1>2, <1>3, <1>4, <1>14 DEF Coming
<1>. QED BY <1>1, <1>2, <1>15 DEF BuildInv

\* A finished collection stays so while nothing is written.
LEMMA AllRightStays ==
  ASSUME AllRight, UNCHANGED <<config, build, disk, indexed>>
  PROVE  AllRight'
<1>1. Cur' = Cur /\ (Exists("weight")' <=> Exists("weight"))
  BY NothingWritten
<1>2. PICK k : k = Last(config)
  OBVIOUS
<1>3. FilesRight(k) /\ Ready(k + 1)
  BY <1>2 DEF AllRight
<1>4. FilesRight(k)'
  BY <1>3, FilesUntouched
<1>5. Ready(k + 1)'
  BY <1>1, <1>3 DEF Ready
<1>6. Last(config)' = k
  BY <1>2
<1>. QED BY <1>4, <1>5, <1>6 DEF AllRight

\* The dictionary by hand begins on a finished collection.
LEMMA FastKeeps ==
  ASSUME BuildInv, mg_fast_comp_dict
  PROVE  BuildInv'
<1>1. /\ UNCHANGED <<configs, config, build, disk, indexed, inputs>>
      /\ status = "done" /\ status' = "next" /\ script' = <<"mg_fast_comp_dict">>
  BY DEF mg_fast_comp_dict
<1>2. PICK k \in 1 .. Last(config) + 1 : Coming(k)
  BY <1>1 DEF BuildInv, ByHand
<1>3. k = Last(config) + 1 /\ FilesRight(k - 1) /\ Ready(k)
  BY <1>1, <1>2 DEF Coming
<1>4. AllRight
  <2>1. k - 1 = Last(config)
    BY <1>3, ConfigTyped
  <2>. QED BY <1>3, <2>1 DEF AllRight
<1>5. AllRight'
  BY <1>1, <1>4, AllRightStays
<1>6. ByHand'
  BY <1>1, <1>5 DEF ByHand
<1>. QED BY <1>1, <1>6 DEF BuildInv

\* The next program begins, or the build is done.
LEMMA RunProgramKeeps ==
  ASSUME BuildInv, RunProgram
  PROVE  BuildInv'
<1>1. /\ UNCHANGED <<configs, config, build, disk, indexed, script, inputs>>
      /\ status = "next" /\ inputs = {}
      /\ script = <<>> => status' = "done"
      /\ script # <<>> => status' = "run" /\ ops' = FileOps(Head(script))
  BY DEF RunProgram, BuildInv
<1>2. /\ configs \in ConfigSets /\ config \in configs /\ build \in Nat /\ build > 0
      /\ config.indexes \in BOOLEAN /\ Last(config) \in {6, 9}
  BY <1>1, ConfigTyped DEF BuildInv
<1>3. CASE \E k \in 1 .. Last(config) + 1 : Coming(k)
  <2>1. PICK k \in 1 .. Last(config) + 1 : Coming(k)
    BY <1>3
  <2>2. script = Rest(config, k) /\ FilesRight(k - 1) /\ Ready(k)
    BY <1>1, <2>1 DEF Coming
  <2>3. CASE script = <<>>
    <3>1. k = Last(config) + 1
      <4>1. Rest(config, k) = <<>>
        BY <2>2, <2>3
      <4>. QED BY ONLY <1>2, k \in 1 .. Last(config) + 1, <4>1, RestEmpty
    <3>2. FilesRight(k - 1)'
      BY <1>1, <2>2, FilesUntouched
    <3>3. Ready(k)'
      <4>1. Cur' = Cur /\ (Exists("weight")' <=> Exists("weight"))
        BY <1>1, NothingWritten
      <4>. QED BY <1>1, <2>2, <4>1 DEF Ready
    <3>4. Coming(k)'
      BY <1>1, <2>2, <2>3, <3>1, <3>2, <3>3 DEF Coming
    <3>. QED BY <1>1, <1>2, <2>3, <3>4 DEF BuildInv
  <2>4. CASE script # <<>>
    <3>1. k \in 1 .. Last(config)
      BY <1>2, <2>2, <2>4, RestEmpty
    <3>2. Head(script) = Programs[k] /\ k \in 1 .. 9
      BY <1>2, <2>2, <3>1, RestTail
    <3>3. ops' = FileOps(Programs[k])
      BY <1>1, <2>4, <3>2
    <3>4. Running(k)' /\ FilesRight(k - 1)'
      BY <1>1, <1>2, <2>2, <3>2, <3>3, ProgramStarts
    <3>5. Coming(k)'
      BY <1>1, <2>2, <2>4, <3>1, <3>4 DEF Coming
    <3>. QED BY <1>1, <1>2, <2>4, <3>5 DEF BuildInv
  <2>. QED BY <2>3, <2>4
<1>4. CASE ByHand
  <2>1. script = <<"mg_fast_comp_dict">> /\ AllRight /\ script # <<>>
    BY <1>1, <1>4 DEF ByHand
  <2>2. AllRight'
    BY <1>1, <2>1, AllRightStays
  <2>3. ops' = FastCompDict
    BY <1>1, <2>1 DEF FileOps
  <2>4. RunningFast'
    BY <2>3, FastCompDictFacts DEF RunningFast
  <2>5. ByHand'
    BY <1>1, <2>1, <2>2, <2>4 DEF ByHand
  <2>. QED BY <1>1, <1>2, <2>1, <2>5 DEF BuildInv
<1>. QED BY <1>1, <1>3, <1>4 DEF BuildInv

\* A program ends, having made what it should.
LEMMA ProgramEndsKeeps ==
  ASSUME BuildInv, ProgramEnds
  PROVE  BuildInv'
<1>1. /\ UNCHANGED <<configs, config, build, disk, indexed>>
      /\ status = "run" /\ ops = <<>> /\ script' = Tail(script)
      /\ inputs' = {} /\ status' = "next"
  BY DEF ProgramEnds
<1>2. /\ configs \in ConfigSets /\ config \in configs /\ build \in Nat /\ build > 0
      /\ config.indexes \in BOOLEAN /\ Last(config) \in {6, 9}
  BY <1>1, ConfigTyped DEF BuildInv
<1>3. \A k \in 1 .. 10 : FilesRight(k - 1) /\ Ready(k) => FilesRight(k - 1)' /\ Ready(k)'
  <2>1. SUFFICES ASSUME NEW k \in 1 .. 10, FilesRight(k - 1), Ready(k)
                 PROVE  FilesRight(k - 1)' /\ Ready(k)'
    OBVIOUS
  <2>2. FilesRight(k - 1)'
    BY <1>1, <2>1, FilesUntouched
  <2>3. Cur' = Cur /\ (Exists("weight")' <=> Exists("weight"))
    BY <1>1, NothingWritten
  <2>. QED BY <1>1, <2>1, <2>2, <2>3 DEF Ready
<1>4. CASE \E k \in 1 .. Last(config) + 1 : Coming(k)
  <2>1. PICK k \in 1 .. Last(config) + 1 : Coming(k)
    BY <1>4
  <2>2. script = Rest(config, k) /\ FilesRight(k - 1) /\ Running(k) /\ k \in 1 .. Last(config)
    BY <1>1, <1>2, <2>1 DEF Coming
  <2>3. FilesRight(k) /\ Ready(k + 1)
    <3>1. k \in 1 .. 9
      BY <1>2, <2>2
    <3>. QED BY <1>1, <2>2, <3>1, ProgramDone
  <2>4. script' = Rest(config, k + 1)
    BY <1>1, <1>2, <2>2, RestTail
  <2>5. PICK n : n = k + 1
    OBVIOUS
  <2>6. n \in 1 .. 10 /\ n - 1 = k /\ n \in 1 .. Last(config) + 1
    BY <1>2, <2>2, <2>5
  <2>7. FilesRight(n - 1) /\ Ready(n)
    BY <2>3, <2>5, <2>6
  <2>8. FilesRight(n - 1)' /\ Ready(n)'
    BY <1>3, <2>6, <2>7
  <2>9. Coming(n)'
    BY <1>1, <2>4, <2>5, <2>8 DEF Coming
  <2>. QED BY <1>1, <1>2, <2>6, <2>9 DEF BuildInv
<1>5. CASE ByHand
  <2>1. script = <<"mg_fast_comp_dict">> /\ AllRight
    BY <1>1, <1>5 DEF ByHand
  <2>2. PICK n : n = Last(config) + 1
    OBVIOUS
  <2>3. n \in 1 .. 10 /\ n - 1 = Last(config) /\ n \in 1 .. Last(config) + 1
    BY <1>2, <2>2
  <2>4. FilesRight(n - 1) /\ Ready(n)
    BY <2>1, <2>2, <2>3 DEF AllRight
  <2>5. FilesRight(n - 1)' /\ Ready(n)'
    BY <1>3, <2>3, <2>4
  <2>6. script' = Rest(config, n)
    <3>1. Rest(config, n) = <<>>
      BY <1>2, <2>2, <2>3, RestEmpty
    <3>2. Tail(<<"mg_fast_comp_dict">>) = <<>>
      OBVIOUS
    <3>. QED BY <1>1, <2>1, <3>1, <3>2
  <2>7. Coming(n)'
    BY <1>1, <2>5, <2>6 DEF Coming
  <2>. QED BY <1>1, <1>2, <2>3, <2>7 DEF BuildInv
<1>. QED BY <1>1, <1>4, <1>5 DEF BuildInv

\* A program is killed, or misses a file.
LEMMA KilledKeeps ==
  ASSUME BuildInv,
         UNCHANGED <<configs, config, build, disk, script>>, status = "run", status' = "failed",
         inputs' = {}
  PROVE  BuildInv'
<1>1. configs \in ConfigSets /\ config \in configs /\ build \in Nat /\ build > 0
  BY DEF BuildInv
<1>2. CASE \E k \in 1 .. Last(config) + 1 : Coming(k)
  <2>1. PICK k \in 1 .. Last(config) + 1 : Coming(k)
    BY <1>2
  <2>2. script = Rest(config, k) /\ FilesRight(k - 1) /\ k <= Last(config)
    BY <2>1 DEF Coming
  <2>3. FilesRight(k - 1)'
    BY <2>2, FilesUntouched
  <2>4. Coming(k)'
    BY <2>2, <2>3 DEF Coming
  <2>. QED BY <1>1, <2>4 DEF BuildInv
<1>3. CASE ByHand
  BY <1>1, <1>3 DEF ByHand, BuildInv
<1>. QED BY <1>2, <1>3 DEF BuildInv

\* The fast dictionary is nobody else's file.
LEMMA AllRightElsewhere ==
  ASSUME AllRight, config.indexes \in BOOLEAN, UNCHANGED <<config, indexed>>,
         NEW f, f = "text.dict.fast", Elsewhere(f)
  PROVE  AllRight'
<1>1. PICK k \in {6, 9} : k = Last(config)
  BY RestFacts
<1>2. FilesRight(k) /\ Ready(k + 1) /\ build' = build
  BY <1>1 DEF AllRight, Elsewhere
<1>3. ASSUME NEW g \in Made(config, k) PROVE g \in Cur'
  <2>1. PICK j \in 1 .. k : g \in Output(config, j)
    BY DEF Made
  <2>2. j \in 1 .. 9
    BY <2>1
  <2>3. Writer(g) = j
    BY <2>1, <2>2, OutputWriter
  <2>4. g # f
    BY <2>2, <2>3, WriterFacts
  <2>5. g \in Cur
    BY <1>2 DEF FilesRight
  <2>. QED BY <2>4, <2>5 DEF Elsewhere
<1>4. /\ Exists("text.dict.aux")' <=> Exists("text.dict.aux")
      /\ Exists("weight")' <=> Exists("weight")
      /\ Exists("weight") => disk'["weight"] = disk["weight"]
  BY DEF Elsewhere
<1>5. FilesRight(k)'
  BY <1>1, <1>2, <1>3, <1>4 DEF FilesRight, Torn
<1>6. Ready(k + 1)'
  BY <1>1, <1>2 DEF Ready
<1>7. Last(config)' = k
  BY <1>1
<1>. QED BY <1>5, <1>6, <1>7 DEF AllRight

\* A step of the dictionary by hand.
LEMMA FileStepByHand ==
  ASSUME BuildInv, status = "run", ByHand, FileStep
  PROVE  BuildInv'
<1>. DEFINE o == Head(ops)
<1>1. AllRight /\ RunningFast /\ script = <<"mg_fast_comp_dict">>
  BY DEF ByHand
<1>2. /\ configs \in ConfigSets /\ config \in configs /\ build \in Nat /\ build > 0
      /\ config.indexes \in BOOLEAN
  BY ConfigTyped DEF BuildInv
<1>3. ops # <<>> /\ UNCHANGED <<configs, config, build, script>>
  BY DEF FileStep, ReadSource, open_file, create_file, CloseFile, Unlink, UpdateStemDict, Doing, Done
<1>4. /\ Tail(ops) \in Seq(AnOp)
      /\ \A verb : /\ o.verb = verb => Of(ops, verb) = {o.f} \cup Of(Tail(ops), verb)
                   /\ o.verb # verb => Of(ops, verb) = Of(Tail(ops), verb)
  BY <1>1, <1>3, TailFacts, TailOf DEF RunningFast
<1>5. /\ o.verb \in {"create", "close"} => o.f = "text.dict.fast"
      /\ o.verb # "unlink" /\ o.verb # "index"
  BY <1>1, <1>4 DEF RunningFast
<1>6. ASSUME ops' = Tail(ops) PROVE RunningFast'
  <2>1. \A verb : Of(Tail(ops), verb) \subseteq Of(ops, verb)
    BY <1>4
  <2>. QED BY <1>1, <1>4, <1>6, <2>1 DEF RunningFast
<1>7. CASE ReadSource \/ open_file
  <2>1. disk' = disk /\ indexed' = indexed
    BY <1>7 DEF ReadSource, open_file
  <2>2. \/ status' = "run" /\ ops' = Tail(ops)
        \/ status' = "failed" /\ inputs' = {}
    BY <1>7 DEF ReadSource, open_file, Doing, Done
  <2>3. CASE status' = "run" /\ ops' = Tail(ops)
    <3>1. AllRight' /\ RunningFast'
      BY <1>1, <1>3, <1>6, <2>1, <2>3, AllRightStays
    <3>2. ByHand'
      BY <1>1, <1>3, <2>3, <3>1 DEF ByHand
    <3>. QED BY <1>2, <1>3, <2>3, <3>2 DEF BuildInv
  <2>4. CASE status' = "failed" /\ inputs' = {}
    BY <1>3, <2>1, <2>4, KilledKeeps
  <2>. QED BY <2>2, <2>3, <2>4
<1>8. CASE create_file \/ CloseFile
  <2>1. /\ ops' = Tail(ops) /\ status' = "run" /\ o.verb \in {"create", "close"}
        /\ Write(o.f, IF o.verb = "create" THEN Torn ELSE inputs)
        /\ indexed' = indexed
    <3>1. "text.dict.fast" # "invf.dict.blocked"
      OBVIOUS
    <3>. QED BY <1>5, <1>8, <3>1 DEF create_file, CloseFile, Doing, Done
  <2>2. PICK f, s : f = o.f /\ Write(f, s)
    BY <2>1
  <2>3. Elsewhere(f)
    BY ONLY <1>3, <2>2, Written
  <2>4. f = "text.dict.fast"
    BY <1>5, <2>1, <2>2
  <2>5. AllRight'
    BY ONLY <1>1, <1>2, <1>3, <2>1, <2>3, <2>4, AllRightElsewhere
  <2>6. RunningFast'
    BY <1>6, <2>1
  <2>7. ByHand'
    BY <1>1, <1>3, <2>1, <2>5, <2>6 DEF ByHand
  <2>. QED BY <1>2, <1>3, <2>1, <2>7 DEF BuildInv
<1>9. ~Unlink /\ ~UpdateStemDict
  BY <1>5 DEF Unlink, UpdateStemDict, Doing
<1>. QED BY <1>7, <1>8, <1>9 DEF FileStep

\* A step of a program.
LEMMA FileStepKeeps ==
  ASSUME BuildInv, FileStep
  PROVE  BuildInv'
<1>1. status = "run"
  BY DEF FileStep, ReadSource, open_file, create_file, CloseFile, Unlink, UpdateStemDict, Doing
<1>2. /\ configs \in ConfigSets /\ config \in configs /\ build \in Nat /\ build > 0
      /\ Last(config) \in {6, 9}
  BY <1>1, ConfigTyped DEF BuildInv
<1>3. CASE \E k \in 1 .. Last(config) + 1 : Coming(k)
  <2>1. PICK k \in 1 .. Last(config) + 1 : Coming(k)
    BY <1>3
  <2>2. script = Rest(config, k) /\ FilesRight(k - 1) /\ Running(k) /\ k \in 1 .. Last(config)
    BY <1>1, <1>2, <2>1 DEF Coming
  <2>3. k \in 1 .. 9 /\ build \in Nat \ {0}
    BY <1>2, <2>2
  <2>4. /\ Running(k)' /\ FilesRight(k - 1)' /\ status' = "run"
        /\ UNCHANGED <<configs, config, build, script>>
    BY <1>1, <2>2, <2>3, StepKeepsRunning
  <2>5. Coming(k)'
    BY <2>2, <2>4 DEF Coming
  <2>. QED BY <1>2, <2>4, <2>5 DEF BuildInv
<1>4. CASE ByHand
  BY <1>1, <1>4, FileStepByHand
<1>. QED BY <1>1, <1>3, <1>4 DEF BuildInv

\* Every step keeps the invariant.
LEMMA BuildStep == BuildInv /\ [BuildNext]_buildVars => BuildInv'
<1>. SUFFICES ASSUME BuildInv, [BuildNext]_buildVars PROVE BuildInv'
  OBVIOUS
<1>1. CASE mgbuild
  BY <1>1, MgbuildKeeps
<1>2. CASE GoOn
  BY <1>2, GoOnKeeps
<1>3. CASE mg_fast_comp_dict
  BY <1>3, FastKeeps
<1>4. CASE RunProgram
  BY <1>4, RunProgramKeeps
<1>5. CASE ProgramEnds
  BY <1>5, ProgramEndsKeeps
<1>6. CASE FileStep
  BY <1>6, FileStepKeeps
<1>7. CASE Killed
  <2>1. /\ UNCHANGED <<configs, config, build, disk, script>> /\ status = "run"
        /\ status' = "failed" /\ inputs' = {}
    BY <1>7 DEF Killed
  <2>. QED BY <2>1, KilledKeeps
<1>8. CASE UNCHANGED buildVars
  <2>1. UNCHANGED <<configs, config, build, disk, indexed, script, ops, inputs, status>>
    BY <1>8 DEF buildVars
  <2>2. Cur' = Cur /\ \A f : Exists(f)' <=> Exists(f)
    BY <2>1, NothingWritten
  <2>3. \A k : /\ FilesRight(k) => FilesRight(k)'
               /\ Ready(k) => Ready(k)'
               /\ Running(k) => Running(k)'
    <3>1. SUFFICES ASSUME NEW k PROVE /\ FilesRight(k) => FilesRight(k)'
                                      /\ Ready(k) => Ready(k)'
                                      /\ Running(k) => Running(k)'
      OBVIOUS
    <3>2. FilesRight(k) => FilesRight(k)'
      BY <2>1, FilesUntouched
    <3>3. Ready(k) => Ready(k)'
      BY <2>1, <2>2 DEF Ready
    <3>4. Running(k) => Running(k)'
      BY <2>1, <2>2 DEF Running
    <3>. QED BY <3>2, <3>3, <3>4
  <2>4. \A k : Coming(k) => Coming(k)'
    BY <2>1, <2>3 DEF Coming
  <2>5. ByHand => ByHand'
    BY <2>1, AllRightStays DEF ByHand, RunningFast
  <2>. QED BY <2>1, <2>4, <2>5 DEF BuildInv
<1>. QED BY <1>1, <1>2, <1>3, <1>4, <1>5, <1>6, <1>7, <1>8 DEF BuildNext

\* And where it holds, a build that is done is current.
LEMMA BuildInvIsCurrent == BuildInv => BuiltIsCurrent
<1>. SUFFICES ASSUME BuildInv, status = "done" PROVE BuiltIsCurrent
  BY DEF BuiltIsCurrent
<1>1. PICK k \in 1 .. Last(config) + 1 : Coming(k)
  BY DEF BuildInv, ByHand
<1>2. /\ config.level \in 1 .. 3 /\ config.indexes \in BOOLEAN /\ config.aux \in BOOLEAN
      /\ Last(config) \in {6, 9}
  BY ConfigTyped
<1>3. FilesRight(Last(config)) /\ Ready(Last(config) + 1)
  <2>1. k = Last(config) + 1 /\ FilesRight(k - 1) /\ Ready(k)
    BY <1>1 DEF Coming
  <2>2. k - 1 = Last(config)
    BY <1>2, <2>1
  <2>. QED BY <2>1, <2>2
<1>4. \A j \in 1 .. Last(config) : Output(config, j) \subseteq Cur
  <2>1. Made(config, Last(config)) \subseteq Cur
    BY <1>3 DEF FilesRight
  <2>. QED BY <2>1 DEF Made
<1>5. {"text", "text.idx", "invf", "invf.dict.blocked", "text.dict"} \subseteq Cur
  <2>1. 3 \in 1 .. Last(config) /\ 4 \in 1 .. Last(config) /\ 6 \in 1 .. Last(config)
    BY <1>2
  <2>2. /\ "text.dict" \in Output(config, 3) /\ "invf.dict.blocked" \in Output(config, 6)
        /\ {"text", "text.idx", "invf"} \subseteq Output(config, 4)
    BY DEF Output
  <2>. QED BY <1>4, <2>1, <2>2
<1>6. /\ config.aux => "text.dict.aux" \in Cur
      /\ ~config.aux => ~Exists("text.dict.aux")
  <2>1. 4 \in 1 .. Last(config) /\ Last(config) >= 4
    BY <1>2
  <2>2. config.aux => "text.dict.aux" \in Output(config, 4)
    BY DEF Output
  <2>. QED BY <1>3, <1>4, <2>1, <2>2 DEF FilesRight
<1>7. config.level > 1 => WeightFiles \subseteq Cur
  <2>1. 5 \in 1 .. Last(config)
    BY <1>2
  <2>2. config.level > 1 => WeightFiles \subseteq Output(config, 5)
    BY <1>2 DEF Output, WeightFiles, WeightOutput
  <2>. QED BY <1>4, <2>1, <2>2
<1>8. \A f \in Cur : Exists(f) /\ disk[f] = {build}
  BY DEF Cur, Exists
<1>9. /\ UsesStemIndexes = config.indexes /\ (indexed # {} => UsesStemIndexes)
      /\ config.indexes => StemIndexes \subseteq Cur
  <2>1. CASE config.indexes
    <3>1. Last(config) = 9
      BY <2>1 DEF Last
    <3>2. indexed = 1 .. 3 /\ indexed # {}
      <4>1. 9 + 1 >= 7 /\ (9 + 1) - 7 = 3
        OBVIOUS
      <4>. QED BY <1>3, <3>1, <4>1 DEF Ready
    <3>3. StemIndexes \subseteq Cur
      <4>1. StemIndexes = {"invf.dict.blocked.1", "invf.dict.blocked.2", "invf.dict.blocked.3"}
        BY DEF StemIndexes, StemFiles
      <4>2. /\ "invf.dict.blocked.1" \in Output(config, 7)
            /\ "invf.dict.blocked.2" \in Output(config, 8)
            /\ "invf.dict.blocked.3" \in Output(config, 9)
        BY DEF Output
      <4>. QED BY <1>4, <3>1, <4>1, <4>2
    <3>4. Present(StemIndexes) = StemIndexes
      BY <1>8, <3>3 DEF Present
    <3>. QED BY <2>1, <3>2, <3>3, <3>4 DEF UsesStemIndexes
  <2>2. CASE ~config.indexes
    <3>1. Last(config) = 6
      BY <2>2 DEF Last
    <3>2. indexed = {}
      <4>1. 6 + 1 >= 7 /\ 1 .. (6 + 1) - 7 = {}
        OBVIOUS
      <4>. QED BY <1>3, <3>1, <4>1 DEF Ready
    <3>3. ~UsesStemIndexes
      BY <3>2 DEF UsesStemIndexes
    <3>4. config.indexes = FALSE
      BY <1>2, <2>2
    <3>5. UsesStemIndexes = FALSE
      BY <3>2 DEF UsesStemIndexes
    <3>. QED BY <3>2, <3>4, <3>5
  <2>. QED BY <1>2, <2>1, <2>2
<1>10. ASSUME NEW f \in Dictionary PROVE Exists(f) /\ (f \in Cur \/ f \in LeftBehind)
  BY <1>2, <1>5, <1>6, <1>8 DEF Dictionary, Present, LeftBehind
<1>11. ASSUME NEW f \in TextIndexes PROVE Exists(f) /\ (f \in Cur \/ f \in LeftBehind)
  BY <1>2, <1>5, <1>7, <1>8 DEF TextIndexes, Present, LeftBehind
<1>12. ASSUME NEW f \in open_all_files PROVE Exists(f) /\ (f \in Cur \/ f \in LeftBehind)
  BY <1>2, <1>5, <1>8, <1>9, <1>10, <1>11 DEF open_all_files
<1>13. config.level > 1 => WeightFiles \subseteq open_all_files
  <2>1. ASSUME config.level > 1 PROVE WeightFiles \subseteq TextIndexes
    <3>1. Present(WeightFiles) = WeightFiles /\ WeightFiles # {}
      BY <1>7, <1>8, <2>1 DEF Present, WeightFiles
    <3>. QED BY <3>1 DEF TextIndexes
  <2>. QED BY <2>1 DEF open_all_files
<1>14. ~Exists("text.dict.fast") => config.aux = ("text.dict.aux" \in open_all_files)
  <2>1. CASE config.aux
    <3>1. ~Exists("text.dict.fast") => "text.dict.aux" \in Dictionary
      BY <1>6, <1>8, <2>1 DEF Dictionary, Present
    <3>2. ~Exists("text.dict.fast") => "text.dict.aux" \in open_all_files
      BY <3>1 DEF open_all_files
    <3>. QED BY <1>2, <2>1, <3>2
  <2>2. CASE ~config.aux
    <3>1. "text.dict.aux" \notin open_all_files
      BY <1>6, <1>12, <2>2
    <3>. QED BY <1>2, <2>2, <3>1
  <2>. QED BY <1>2, <2>1, <2>2
<1>15. InitQuerySystem
  BY <1>9, <1>12 DEF InitQuerySystem
<1>16. \A f \in open_all_files \ LeftBehind : disk[f] = {build}
  BY <1>8, <1>12
<1>. QED BY <1>9, <1>13, <1>14, <1>15, <1>16 DEF BuiltIsCurrent

(***************************************************************************)
(* mgbuild's programs, in the order of its scripts: whatever was killed    *)
(* and gone on with before, when a build is done the collection can be     *)
(* queried and everything mgquery opens is of this build.                  *)
(***************************************************************************)
THEOREM BuildsAreCurrent == BuildSpec => []BuiltIsCurrent
<1>. QED BY BuildStart, BuildStep, BuildInvIsCurrent, PTL DEF BuildSpec
=============================================================================
