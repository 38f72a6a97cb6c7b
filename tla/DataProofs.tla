----------------------------- MODULE DataProofs -----------------------------
(***************************************************************************)
(* Proofs about the data the program reads and computes.  What is read     *)
(* from a manifest is what is written in it, whatever the text; both       *)
(* programs take a command line as it is meant, however long, and go on    *)
(* with valid manifests only; a picture fits any monitor and keeps its     *)
(* proportions, and a pixel its color, whatever their sizes and bytes; and *)
(* the catalog has no model that is invalid or hides another, however it   *)
(* is filled.                                                              *)
(***************************************************************************)
EXTENDS PureFunctions, ModelCatalog, SequenceTheorems, FiniteSetTheorems, WellFoundedInduction, TLAPS

-----------------------------------------------------------------------------
(***************************************************************************)
(* Whole numbers.                                                          *)
(***************************************************************************)

LEMMA DivMod ==
  ASSUME NEW a \in Int, NEW b \in Int, b > 0
  PROVE  /\ a \div b \in Int /\ a % b \in Int
         /\ a = b * (a \div b) + (a % b)
         /\ a % b >= 0 /\ a % b < b
  OBVIOUS

\* A product lies between two neighbours of its factor.
LEMMA TimesOrder ==
  ASSUME NEW b \in Int, b > 0, NEW p \in Int, NEW q \in Int
  PROVE  /\ p <= q => b * p <= b * q
         /\ p < q => b * p + b <= b * q
         /\ p < q => b * p < b * q
  <1>1. ASSUME p <= q PROVE b * p <= b * q
    <2>1. b * (q - p) >= 0
      BY <1>1, SMT
    <2> QED BY <2>1, SMT
  <1>2. ASSUME p < q PROVE b * p + b <= b * q
    <2>1. b * (q - p - 1) >= 0
      BY <1>2, SMT
    <2> QED BY <2>1, SMT
  <1> QED BY <1>1, <1>2

LEMMA DivUnique ==
  ASSUME NEW a \in Int, NEW b \in Int, b > 0, NEW q \in Int, NEW r \in Int,
         a = b * q + r, 0 <= r, r < b
  PROVE  a \div b = q /\ a % b = r
  <1>1. /\ a \div b \in Int /\ a % b \in Int
         /\ a = b * (a \div b) + (a % b)
         /\ a % b >= 0 /\ a % b < b
    BY DivMod
  <1> DEFINE p == a \div b
             s == a % b
  <1> HIDE DEF p, s
  <1>2. p \in Int /\ s \in Int /\ a = b * p + s /\ 0 <= s /\ s < b
    BY <1>1 DEF p, s
  <1>3. ~(p < q) 
    BY <1>2, TimesOrder
  <1>4. ~(q < p) 
    BY <1>2, TimesOrder
  <1>5. p = q /\ s = r
    BY <1>2, <1>3, <1>4
  <1> QED BY <1>5 DEF p, s

LEMMA MulMod ==
  ASSUME NEW U \in Int, U > 0, NEW k \in Int, NEW q \in Int, NEW s \in Int
  PROVE  ((U * k) * q + U * s) % U = 0
  <1>1. (U * k) * q + U * s = U * (k * q + s) + 0
    BY SMT
  <1> QED BY <1>1, DivUnique

-----------------------------------------------------------------------------
(***************************************************************************)
(* Manifests: ReadLine is folded over the lines of a text.                 *)
(***************************************************************************)

TextFold == INSTANCE Folding WITH Op <- ReadLine, Base <- Reading(Default, "none")

\* What from_text() has read before it validates.
Read(text) == FoldLeft(ReadLine, Reading(Default, "none"), text)

LEMMA ReadIsFold == ASSUME NEW text PROVE Read(text) = TextFold!Fold(text)
  BY Zenon DEF Read, FoldLeft, MapThenFoldSet, Max,
               TextFold!Fold, TextFold!FoldLeft, TextFold!MapThenFoldSet, TextFold!Max

LEMMA ReadEmpty == Read(<<>>) = Reading(Default, "none")
  BY ReadIsFold, TextFold!FoldEmpty, Zenon

LEMMA ReadAppend ==
  ASSUME NEW T, NEW text \in Seq(T), NEW line \in T
  PROVE  Read(Append(text, line)) = ReadLine(Read(text), line)
  BY ReadIsFold, TextFold!FoldAppend, Zenon

-----------------------------------------------------------------------------

\* One more entry adds its line to those that have its key.
LEMMA PlacesAppend ==
  ASSUME NEW T, NEW text \in Seq(T), NEW line \in T, NEW key
  PROVE  /\ Places(<<>>, key) = {}
         /\ Places(text, key) \subseteq 1 .. Len(text)
         /\ Places(Append(text, line), key) =
               IF line.what = "entry" /\ line.key = key
               THEN Places(text, key) \cup {Len(text) + 1} ELSE Places(text, key)
         /\ \A i \in Places(text, key) : Append(text, line)[i] = text[i]
  <1> DEFINE n == Len(text)
             longer == Append(text, line)
  <1>1. /\ n \in Nat /\ DOMAIN text = 1 .. n /\ DOMAIN longer = 1 .. n + 1 /\ longer[n + 1] = line
        /\ \A i \in 1 .. n : longer[i] = text[i]
    BY AppendProperties, LenProperties
  <1>2. DOMAIN <<>> = {}
    OBVIOUS
  <1>3. 1 .. n + 1 = (1 .. n) \cup {n + 1} /\ n + 1 \notin 1 .. n
    BY <1>1
  <1> HIDE DEF n, longer
  <1> QED BY <1>1, <1>2, <1>3 DEF Places, n, longer

LEMMA MaxPlace ==
  ASSUME NEW n \in Nat, NEW S \in SUBSET (1 .. n)
  PROVE  Max(S \cup {n + 1}) = n + 1
  <1> DEFINE Q == S \cup {n + 1}
  <1>1. n + 1 \in Q /\ \A y \in Q : n + 1 >= y
    OBVIOUS
  <1>2. \A x \in Q : (\A y \in Q : x >= y) => x = n + 1
    OBVIOUS
  <1> HIDE DEF Q
  <1>3. Max(Q) = n + 1
    BY <1>1, <1>2, Zenon DEF Max
  <1> QED BY <1>3 DEF Q

LEMMA HasMax ==
  ASSUME NEW n \in Nat, NEW S \in SUBSET (1 .. n), S # {}
  PROVE  \E m \in S : \A x \in S : m >= x
  <1> DEFINE D == {x \in Nat : x + 0 = x /\ \E y \in S : n - y = x}
             R == OpToRel(<, Nat)
  <1>2. PICK y \in S : TRUE
    OBVIOUS
  <1>3. n - y \in D
    BY <1>2
  <1>4. \A a, b \in Nat : a < b => <<a, b>> \in R
    BY DEF OpToRel
  <1>5. PICK d \in D : \A x \in D : ~ (<<x, d>> \in R)
    <2>1. IsWellFoundedOn(R, Nat)
      BY NatLessThanWellFounded
    <2>2. D \subseteq Nat
      OBVIOUS
    <2> HIDE DEF D, R
    <2> QED BY <1>3, <2>1, <2>2, WFMin
  <1> HIDE DEF R
  <1>6. PICK z \in S : n - z = d
    OBVIOUS
  <1>7. \A x \in S : z >= x
    <2> SUFFICES ASSUME NEW x \in S, x > z PROVE FALSE
      OBVIOUS
    <2>1. n - x \in D /\ n - x \in Nat /\ d \in Nat /\ n - x < d
      BY <1>6
    <2> QED BY <2>1, <1>4, <1>5
  <1> QED BY <1>7

LEMMA MaxIn ==
  ASSUME NEW n \in Nat, NEW S \in SUBSET (1 .. n), S # {}
  PROVE  Max(S) \in S
  BY HasMax, Zenon DEF Max

\* Places are counted one by one.
LEMMA PlacesCounted ==
  ASSUME NEW n \in Nat, NEW S \in SUBSET (1 .. n)
  PROVE  /\ Cardinality(S) \in Nat
         /\ Cardinality(S \cup {n + 1}) = Cardinality(S) + 1
         /\ \A i \in S : /\ {j \in S \cup {n + 1} : j <= i} = {j \in S : j <= i}
                         /\ Cardinality({j \in S : j <= i}) \in 1 .. Cardinality(S)
         /\ {j \in S \cup {n + 1} : j <= n + 1} = S \cup {n + 1}
  <1>1. IsFiniteSet(1 .. n)
    BY FS_Interval
  <1>2. IsFiniteSet(S) /\ Cardinality(S) \in Nat
    BY <1>1, FS_Subset, FS_CardinalityType
  <1>3. n + 1 \notin S
    OBVIOUS
  <1>4. Cardinality(S \cup {n + 1}) = Cardinality(S) + 1
    BY <1>2, <1>3, FS_AddElement
  <1>5. ASSUME NEW i \in S
        PROVE  /\ {j \in S \cup {n + 1} : j <= i} = {j \in S : j <= i}
               /\ Cardinality({j \in S : j <= i}) \in 1 .. Cardinality(S)
    <2> DEFINE P == {j \in S : j <= i}
    <2>1. P \subseteq S /\ i \in P
      OBVIOUS
    <2>2. IsFiniteSet(P) /\ Cardinality(P) \in Nat /\ Cardinality(P) <= Cardinality(S)
      BY <1>2, <2>1, FS_Subset, FS_CardinalityType
    <2>3. Cardinality(P) # 0
      BY <2>1, <2>2, FS_EmptySet
    <2>4. {j \in S \cup {n + 1} : j <= i} = P
      OBVIOUS
    <2> HIDE DEF P
    <2>5. Cardinality(P) \in 1 .. Cardinality(S)
      BY <1>2, <2>2, <2>3
    <2> QED BY <2>4, <2>5 DEF P
  <1>6. {j \in S \cup {n + 1} : j <= n + 1} = S \cup {n + 1}
    <2>1. \A j \in S \cup {n + 1} : j <= n + 1
      OBVIOUS
    <2> QED BY <2>1, Zenon
  <1> QED BY <1>2, <1>4, <1>5, <1>6

-----------------------------------------------------------------------------

Accepted(text) == \A i \in DOMAIN text : Readable(text[i])

IsManifest(m) ==
  /\ m = [key \in Keys |-> m[key]]
  /\ IsPath(m.model_path) /\ IsPath(m.engine_path)

\* What holds of a text and what is read from it, before it is validated.  The
\* values are those of the lines.
ReadSoFar(text, reading, values) ==
  /\ reading = Reading(reading.manifest, reading.error)
  /\ IsManifest(reading.manifest)
  /\ IF Accepted(text)
     THEN /\ reading.error = "none"
          /\ Describes(text, reading.manifest)
          /\ reading.manifest.fixed_shape \in Seq(values)
     ELSE reading.error \in {"no '='", "unknown key", "invalid value"}

LEMMA KeysAre ==
  Keys = {"id", "kind", "precision", "input_layout", "model_path", "engine_path",
          "input_names", "output_names", "license", "native_scale", "min_scale",
          "max_scale", "arbitrary_timestep", "fixed_shape"}
  BY DEF Keys, Default

LEMMA DefaultIs ==
  /\ IsManifest(Default) /\ Default.fixed_shape = <<>>
  <1>1. Default = [key \in Keys |-> Default[key]]
    BY DEF Keys, Default
  <1>2. Default.model_path = NoPath /\ Default.engine_path = NoPath /\ Default.fixed_shape = <<>>
    BY DEF Default
  <1>3. IsPath(NoPath)
    BY DEF IsPath, NoPath, Path
  <1> QED BY <1>1, <1>2, <1>3 DEF IsManifest

LEMMA AcceptedAppend ==
  ASSUME NEW T, NEW text \in Seq(T), NEW line \in T
  PROVE  Accepted(Append(text, line)) <=> Accepted(text) /\ Readable(line)
  <1> DEFINE n == Len(text)
             longer == Append(text, line)
  <1>1. /\ n \in Nat /\ DOMAIN text = 1 .. n /\ DOMAIN longer = 1 .. n + 1 /\ longer[n + 1] = line
        /\ \A i \in 1 .. n : longer[i] = text[i]
    BY AppendProperties, LenProperties
  <1>3. 1 .. n + 1 = (1 .. n) \cup {n + 1}
    BY <1>1
  <1> HIDE DEF n, longer
  <1>4. Accepted(longer) <=> \A i \in (1 .. n) \cup {n + 1} : Readable(longer[i])
    BY <1>1, <1>3, Zenon DEF Accepted
  <1>5. Accepted(text) <=> \A i \in 1 .. n : Readable(text[i])
    BY <1>1, Zenon DEF Accepted
  <1>6. \A i \in 1 .. n : Readable(longer[i]) <=> Readable(text[i])
    BY <1>1, Zenon
  <1>7. Readable(longer[n + 1]) <=> Readable(line)
    BY <1>1, Zenon
  <1> HIDE DEF Readable
  <1>8. Accepted(longer) <=> (\A i \in 1 .. n : Readable(text[i])) /\ Readable(line)
    BY <1>4, <1>6, <1>7, Zenon
  <1> QED BY <1>5, <1>8, Zenon DEF longer

\* A setting depends on the entries of its key alone.
LEMMA SettingSame ==
  ASSUME NEW text, NEW longer, NEW key, NEW n \in Nat, Places(text, key) \in SUBSET (1 .. n),
         Places(longer, key) = Places(text, key),
         \A i \in Places(text, key) : longer[i] = text[i]
  PROVE  Setting(longer, key) = Setting(text, key)
  <1>1. CASE Places(text, key) = {}
    BY <1>1, Zenon DEF Setting
  <1>2. CASE Places(text, key) # {}
    <2>1. Max(Places(text, key)) \in Places(text, key)
      BY <1>2, MaxIn
    <2>2. longer[Max(Places(text, key))] = text[Max(Places(text, key))]
      BY <2>1, Zenon
    <2> QED BY <1>2, <2>2, Zenon DEF Setting
  <1> QED BY <1>1, <1>2

\* So it is for every key.
LEMMA SettingsSame ==
  ASSUME NEW text, NEW longer, NEW n \in Nat,
         \A key : Places(text, key) \in SUBSET (1 .. n),
         \A key : \A i \in Places(text, key) : longer[i] = text[i]
  PROVE  \A key : Places(longer, key) = Places(text, key) => Setting(longer, key) = Setting(text, key)
  <1> TAKE key
  <1> HAVE Places(longer, key) = Places(text, key)
  <1>1. /\ Places(text, key) \in SUBSET (1 .. n)
        /\ \A i \in Places(text, key) : longer[i] = text[i]
    OBVIOUS
  <1> QED BY <1>1, SettingSame

\* A line that is no entry of a key leaves its places and what is found at them.
LEMMA DescribesSame ==
  ASSUME NEW T, NEW text \in Seq(T), NEW line \in T, NEW m, Describes(text, m),
         line.what # "entry"
  PROVE  Describes(Append(text, line), m)
  <1> DEFINE longer == Append(text, line)
  <1>1. \A key : /\ Places(longer, key) = Places(text, key)
                 /\ \A i \in Places(text, key) : longer[i] = text[i]
    BY PlacesAppend
  <1> DEFINE n == Len(text)
  <1>2. n \in Nat /\ \A key : Places(text, key) \in SUBSET (1 .. n)
    BY PlacesAppend, LenProperties
  <1>3. \A key : Places(longer, key) = Places(text, key) => Setting(longer, key) = Setting(text, key)
    <2> HIDE DEF longer, n
    <2> QED BY <1>1, <1>2, SettingsSame
  <1> HIDE DEF longer, n
  <1>4. \A key \in Keys \ {"fixed_shape"} :
          m[key] = Setting(longer, key)
    BY <1>1, <1>3, Zenon DEF Describes
  <1>5. /\ DOMAIN m = Keys /\ DOMAIN m.fixed_shape = 1 .. Cardinality(Places(longer, "fixed_shape"))
        /\ \A i \in Places(longer, "fixed_shape") :
             m.fixed_shape[Cardinality({j \in Places(longer, "fixed_shape") : j <= i})] = longer[i].value
    BY <1>1, Zenon DEF Describes
  <1> QED BY <1>4, <1>5, Zenon DEF Describes, longer

LEMMA DescribesEntry ==
  ASSUME NEW T, NEW text \in Seq(T), NEW line \in T, NEW m, Describes(text, m),
         line.what = "entry", line.key \in Keys, line.key # "fixed_shape"
  PROVE  Describes(Append(text, line), [m EXCEPT ![line.key] = line.value])
  <1> DEFINE longer == Append(text, line)
             n == Len(text)
             new == [m EXCEPT ![line.key] = line.value]
             shapes == Places(text, "fixed_shape")
  <1>0. /\ DOMAIN m = Keys
        /\ \A key \in Keys \ {"fixed_shape"} :
             m[key] = Setting(text, key)
        /\ DOMAIN m.fixed_shape = 1 .. Cardinality(shapes)
        /\ \A i \in shapes : m.fixed_shape[Cardinality({j \in shapes : j <= i})] = text[i].value
    BY Zenon DEF Describes
  <1>1. /\ \A key : key # line.key => Places(longer, key) = Places(text, key)
        /\ \A key : \A i \in Places(text, key) : longer[i] = text[i]
        /\ Places(longer, line.key) = Places(text, line.key) \cup {n + 1}
    BY PlacesAppend
  <1>2. n \in Nat /\ \A key : Places(text, key) \in SUBSET (1 .. n)
    BY PlacesAppend, LenProperties
  <1>3. \A key : Places(longer, key) = Places(text, key) => Setting(longer, key) = Setting(text, key)
    <2> HIDE DEF longer, n
    <2> QED BY <1>1, <1>2, SettingsSame
  <1>4. Max(Places(longer, line.key)) = n + 1 /\ longer[n + 1] = line
    <2>1. longer[n + 1] = line
      BY AppendProperties
    <2>2. Max(Places(text, line.key) \cup {n + 1}) = n + 1
      BY <1>2, MaxPlace
    <2> QED BY <1>1, <2>1, <2>2, Zenon
  <1>5. /\ DOMAIN new = Keys /\ new[line.key] = line.value
        /\ \A key \in Keys \ {line.key} : new[key] = m[key]
    BY <1>0, Zenon
  <1>6. "fixed_shape" \in Keys
    BY KeysAre
  <1>7. new.fixed_shape = m.fixed_shape
    BY <1>5, <1>6, Zenon
  <1> HIDE DEF longer, n, new
  <1>8. ASSUME NEW key \in Keys \ {"fixed_shape"}
        PROVE  new[key] = Setting(longer, key)
    <2>1. CASE key = line.key
      <3>1. Places(longer, key) # {}
        BY <1>1, <2>1
      <3>2. Setting(longer, key) = line.value
        BY <2>1, <3>1, <1>4, Zenon DEF Setting
      <3> QED BY <2>1, <3>2, <1>5, Zenon
    <2>2. CASE key # line.key
      BY <2>2, <1>0, <1>1, <1>3, <1>5, Zenon
    <2> QED BY <2>1, <2>2
  <1>9. /\ DOMAIN new.fixed_shape = 1 .. Cardinality(Places(longer, "fixed_shape"))
        /\ \A i \in Places(longer, "fixed_shape") :
             new.fixed_shape[Cardinality({j \in Places(longer, "fixed_shape") : j <= i})] = longer[i].value
    BY <1>0, <1>1, <1>7, Zenon
  <1> QED BY <1>5, <1>8, <1>9, Zenon DEF Describes, longer, new

LEMMA DescribesShape ==
  ASSUME NEW T, NEW text \in Seq(T), NEW line \in T, NEW m, Describes(text, m),
         NEW values, m.fixed_shape \in Seq(values), line.value \in values,
         line.what = "entry", line.key = "fixed_shape"
  PROVE  /\ Describes(Append(text, line), [m EXCEPT !.fixed_shape = Append(@, line.value)])
         /\ Append(m.fixed_shape, line.value) \in Seq(values)
  <1> DEFINE longer == Append(text, line)
             n == Len(text)
             more == Append(m.fixed_shape, line.value)
             new == [m EXCEPT !.fixed_shape = Append(@, line.value)]
             shapes == Places(text, "fixed_shape")
             count == Cardinality(shapes)
  <1>0. /\ DOMAIN m = Keys
        /\ \A key \in Keys \ {"fixed_shape"} :
             m[key] = Setting(text, key)
        /\ DOMAIN m.fixed_shape = 1 .. count
        /\ \A i \in shapes : m.fixed_shape[Cardinality({j \in shapes : j <= i})] = text[i].value
    BY Zenon DEF Describes
  <1>1. /\ \A key : key # "fixed_shape" => Places(longer, key) = Places(text, key)
        /\ \A key : \A i \in Places(text, key) : longer[i] = text[i]
        /\ Places(longer, "fixed_shape") = shapes \cup {n + 1}
    BY PlacesAppend
  <1>2. n \in Nat /\ \A key : Places(text, key) \in SUBSET (1 .. n)
    BY PlacesAppend, LenProperties
  <1>3. \A key : Places(longer, key) = Places(text, key) => Setting(longer, key) = Setting(text, key)
    <2> HIDE DEF longer, n
    <2> QED BY <1>1, <1>2, SettingsSame
  <1>4. longer[n + 1] = line
    BY AppendProperties
  <1>5. /\ count \in Nat
        /\ Cardinality(shapes \cup {n + 1}) = count + 1
        /\ \A i \in shapes : /\ {j \in shapes \cup {n + 1} : j <= i} = {j \in shapes : j <= i}
                             /\ Cardinality({j \in shapes : j <= i}) \in 1 .. count
        /\ {j \in shapes \cup {n + 1} : j <= n + 1} = shapes \cup {n + 1}
    BY <1>2, PlacesCounted
  <1>6. "fixed_shape" \in Keys
    BY KeysAre
  <1>7. /\ DOMAIN new = Keys /\ new.fixed_shape = more
        /\ \A key \in Keys \ {"fixed_shape"} : new[key] = m[key]
    BY <1>0, <1>6, Zenon
  <1> HIDE DEF new
  <1>8. Len(m.fixed_shape) = count
    <2>1. \A a, b \in Nat : 1 .. a = 1 .. b => a = b
      OBVIOUS
    <2>2. Len(m.fixed_shape) \in Nat /\ DOMAIN m.fixed_shape = 1 .. Len(m.fixed_shape)
      BY LenProperties
    <2> QED BY <1>0, <1>5, <2>1, <2>2, Zenon
  <1>9. /\ more \in Seq(values) /\ DOMAIN more = 1 .. count + 1 /\ more[count + 1] = line.value
        /\ \A i \in 1 .. count : more[i] = m.fixed_shape[i]
    BY <1>8, AppendProperties, LenProperties
  <1> HIDE DEF longer, n, more, count, shapes
  <1>10. \A key \in Keys \ {"fixed_shape"} :
           new[key] = Setting(longer, key)
    BY <1>0, <1>1, <1>3, <1>7, Zenon
  <1>11. DOMAIN new.fixed_shape = 1 .. Cardinality(Places(longer, "fixed_shape"))
    BY <1>1, <1>5, <1>7, <1>9, Zenon
  <1>12. ASSUME NEW i \in Places(longer, "fixed_shape")
         PROVE  new.fixed_shape[Cardinality({j \in Places(longer, "fixed_shape") : j <= i})] = longer[i].value
    <2>1. CASE i \in shapes
      <3>1. longer[i] = text[i]
        BY <2>1, <1>1, Zenon DEF shapes
      <3>2. {j \in Places(longer, "fixed_shape") : j <= i} = {j \in shapes : j <= i}
        BY <2>1, <1>1, <1>5, Zenon
      <3>3. m.fixed_shape[Cardinality({j \in shapes : j <= i})] = text[i].value
        BY <2>1, <1>0, Zenon
      <3>4. more[Cardinality({j \in shapes : j <= i})] = m.fixed_shape[Cardinality({j \in shapes : j <= i})]
        BY <2>1, <1>5, <1>9, Zenon
      <3> QED BY <3>1, <3>2, <3>3, <3>4, <1>7, Zenon
    <2>2. CASE i = n + 1
      <3>1. Cardinality({j \in Places(longer, "fixed_shape") : j <= i}) = count + 1
        BY <2>2, <1>1, <1>5, Zenon
      <3> QED BY <3>1, <2>2, <1>4, <1>7, <1>9, Zenon
    <2> QED BY <2>1, <2>2, <1>1, Zenon
  <1>13. Describes(longer, new)
    BY <1>7, <1>10, <1>11, <1>12, Zenon DEF Describes
  <1> QED BY <1>9, <1>13, Zenon DEF longer, new, more

LEMMA SetKeepsShape ==
  ASSUME NEW m, IsManifest(m), NEW line, IsLine(line),
         line.what = "entry", line.key \in Keys, line.reads
  PROVE  IsManifest(Set(m, line))
  <1>0. DOMAIN m = Keys /\ "fixed_shape" \in Keys /\ "model_path" \in Keys /\ "engine_path" \in Keys
    BY KeysAre, Zenon DEF IsManifest
  <1>1. CASE line.key = "fixed_shape"
    <2> DEFINE new == [m EXCEPT !.fixed_shape = Append(@, line.value)]
    <2>1. new = [key \in Keys |-> new[key]]
      BY <1>0, Zenon
    <2>2. "model_path" # "fixed_shape" /\ "engine_path" # "fixed_shape"
      OBVIOUS
    <2>3. new.model_path = m.model_path /\ new.engine_path = m.engine_path
      BY <1>0, <2>2, Zenon
    <2> HIDE DEF new
    <2>4. IsManifest(new)
      BY <2>1, <2>3, Zenon DEF IsManifest
    <2> QED BY <1>1, <2>4, Zenon DEF Set, new
  <1>2. CASE line.key # "fixed_shape"
    <2> DEFINE new == [m EXCEPT ![line.key] = line.value]
    <2>1. new = [key \in Keys |-> new[key]]
      BY <1>0, Zenon
    <2>2. \A key \in {"model_path", "engine_path"} : IsPath(new[key])
      <3> SUFFICES ASSUME NEW key \in {"model_path", "engine_path"} PROVE IsPath(new[key])
        OBVIOUS
      <3>0. key \in Keys /\ IsPath(m[key])
        BY <1>0 DEF IsManifest
      <3>1. CASE key = line.key
        <4>1. new[key] = line.value
          BY <3>0, <3>1, <1>0, Zenon
        <4>2. IsPath(line.value)
          BY <3>1, Zenon DEF IsLine
        <4> QED BY <4>1, <4>2, Zenon
      <3>2. CASE key # line.key
        <4>1. new[key] = m[key]
          BY <3>0, <3>2, <1>0, Zenon
        <4> QED BY <4>1, <3>0, Zenon
      <3> QED BY <3>1, <3>2, Zenon
    <2> HIDE DEF new
    <2>4. IsManifest(new)
      BY <2>1, <2>2, Zenon DEF IsManifest
    <2> QED BY <1>2, <2>4, Zenon DEF Set, new
  <1> QED BY <1>1, <1>2, Zenon

LEMMA ReadingUpdated ==
  ASSUME NEW r, r = Reading(r.manifest, r.error), NEW x
  PROVE  /\ [r EXCEPT !.error = x] = Reading(r.manifest, x)
         /\ [r EXCEPT !.manifest = x] = Reading(x, r.error)
  <1>1. DOMAIN r = {"manifest", "error"}
    BY DEF Reading
  <1> QED BY <1>1 DEF Reading

LEMMA ReadingParts ==
  ASSUME NEW m, NEW e
  PROVE  Reading(m, e).manifest = m /\ Reading(m, e).error = e
  BY DEF Reading

\* Reading one more line.
LEMMA ReadStep ==
  ASSUME NEW T, NEW text \in Seq(T), NEW line \in T, IsLine(line), NEW values,
         line.what = "entry" => line.value \in values,
         NEW r, ReadSoFar(text, r, values)
  PROVE  ReadSoFar(Append(text, line), ReadLine(r, line), values)
  <1> DEFINE longer == Append(text, line)
             m == r.manifest
  <1>0. /\ r = Reading(m, r.error) /\ IsManifest(m)
        /\ Accepted(text) => /\ r.error = "none" /\ Describes(text, m)
                             /\ m.fixed_shape \in Seq(values)
        /\ ~Accepted(text) => r.error \in {"no '='", "unknown key", "invalid value"}
    BY Zenon DEF ReadSoFar
  <1>1. Accepted(longer) <=> Accepted(text) /\ Readable(line)
    BY AcceptedAppend
  <1>2. Failed(r) <=> ~Accepted(text)
    BY <1>0 DEF Failed
  <1>3. line.what \in {"blank", "plain", "entry"} /\ (line.what = "entry" => line.reads \in BOOLEAN)
    BY DEF IsLine
  <1> HIDE DEF longer, m
  <1>4. CASE ~Accepted(text)
    <2>1. ReadLine(r, line) = r
      BY <1>2, <1>4, Zenon DEF ReadLine
    <2> QED BY <1>0, <1>1, <1>4, <2>1, Zenon DEF ReadSoFar, longer, m
  <1>5. CASE Accepted(text) /\ line.what = "blank"
    <2>1. ReadLine(r, line) = r
      BY <1>5, Zenon DEF ReadLine
    <2>2. Describes(longer, m)
      BY <1>0, <1>5, DescribesSame DEF longer
    <2>3. Readable(line)
      BY <1>5 DEF Readable
    <2> QED BY <1>0, <1>1, <1>5, <2>1, <2>2, <2>3, Zenon DEF ReadSoFar, longer, m
  <1>6. ASSUME Accepted(text), ~Readable(line),
               NEW e \in {"no '='", "unknown key", "invalid value"},
               ReadLine(r, line) = [r EXCEPT !.error = e]
        PROVE  ReadSoFar(longer, ReadLine(r, line), values)
    <2> DEFINE new == [r EXCEPT !.error = e]
    <2>1. new = Reading(m, e)
      BY <1>0, ReadingUpdated DEF m
    <2>2. new.manifest = m /\ new.error = e
      BY <2>1 DEF Reading
    <2> HIDE DEF new
    <2>3. ~Accepted(longer)
      BY <1>1, <1>6
    <2>4. ReadSoFar(longer, new, values)
      BY <1>0, <2>1, <2>2, <2>3, Zenon DEF ReadSoFar
    <2> QED BY <1>6, <2>4, Zenon DEF new
  <1>7. CASE Accepted(text) /\ line.what = "plain"
    <2>1. ReadLine(r, line) = [r EXCEPT !.error = "no '='"]
      <3>1. ~Failed(r) /\ line.what # "blank" /\ line.what # "entry"
        BY <1>2, <1>7
      <3> QED BY <3>1, <1>7, Zenon DEF ReadLine
    <2>2. ~Readable(line)
      BY <1>7 DEF Readable
    <2> QED BY <1>6, <1>7, <2>1, <2>2 DEF longer
  <1>8. CASE Accepted(text) /\ line.what = "entry"
    <2>1. ReadLine(r, line) =
            IF line.key \notin Keys THEN [r EXCEPT !.error = "unknown key"]
            ELSE IF ~line.reads THEN [r EXCEPT !.error = "invalid value"]
            ELSE [r EXCEPT !.manifest = Set(@, line)]
      <3>1. ~Failed(r) /\ line.what # "blank" /\ line.what # "plain"
        BY <1>2, <1>8
      <3> QED BY <3>1, <1>8, Zenon DEF ReadLine
    <2>2. CASE line.key \notin Keys
      BY <2>1, <2>2, <1>6, <1>8 DEF Readable, longer
    <2>3. CASE line.key \in Keys /\ ~line.reads
      BY <2>1, <2>3, <1>6, <1>8 DEF Readable, longer
    <2>4. CASE line.key \in Keys /\ line.reads
      <3> DEFINE new == Set(m, line)
      <3>1. ReadLine(r, line) = Reading(new, "none")
        <4>1. [r EXCEPT !.manifest = Set(@, line)] = Reading(Set(m, line), r.error)
          <5>1. [r EXCEPT !.manifest = Set(m, line)] = Reading(Set(m, line), r.error)
            BY <1>0, ReadingUpdated DEF m
          <5> QED BY <5>1, Zenon DEF m
        <4> QED BY <2>1, <2>4, <4>1, <1>0, <1>8, Zenon
      <3>2. Reading(new, "none").manifest = new /\ Reading(new, "none").error = "none"
        BY DEF Reading
      <3>3. IsManifest(new)
        BY <1>0, <1>8, <2>4, SetKeepsShape
      <3>4. Describes(longer, new) /\ new.fixed_shape \in Seq(values)
        <4>0. DOMAIN m = Keys /\ "fixed_shape" \in Keys
          BY <1>0, KeysAre, Zenon DEF IsManifest
        <4>1. CASE line.key = "fixed_shape"
          <5>1. new = [m EXCEPT !.fixed_shape = Append(@, line.value)]
            BY <4>1, Zenon DEF Set
          <5>2. new.fixed_shape = Append(m.fixed_shape, line.value)
            BY <5>1, <4>0, Zenon
          <5>3. /\ Describes(Append(text, line), [m EXCEPT !.fixed_shape = Append(@, line.value)])
                /\ Append(m.fixed_shape, line.value) \in Seq(values)
            BY <1>0, <1>8, <4>1, DescribesShape
          <5> HIDE DEF new
          <5> QED BY <5>1, <5>2, <5>3, Zenon DEF longer
        <4>2. CASE line.key # "fixed_shape"
          <5>1. new = [m EXCEPT ![line.key] = line.value]
            BY <4>2, Zenon DEF Set
          <5>2. new.fixed_shape = m.fixed_shape
            BY <5>1, <4>0, <4>2, Zenon
          <5>3. Describes(Append(text, line), [m EXCEPT ![line.key] = line.value])
            BY <1>0, <1>8, <2>4, <4>2, DescribesEntry
          <5> HIDE DEF new
          <5> QED BY <5>1, <5>2, <5>3, <1>0, <1>8, Zenon DEF longer
        <4> QED BY <4>1, <4>2
      <3>5. Readable(line)
        BY <1>8, <2>4 DEF Readable
      <3> HIDE DEF new
      <3>6. ReadSoFar(longer, Reading(new, "none"), values)
        BY <3>2, <3>3, <3>4, <3>5, <1>1, <1>8, Zenon DEF ReadSoFar
      <3> QED BY <3>1, <3>6, Zenon DEF longer
    <2> QED BY <2>2, <2>3, <2>4, <1>3, <1>8
  <1> QED BY <1>3, <1>4, <1>5, <1>7, <1>8

\* What is read of every text.
LEMMA ReadIs ==
  ASSUME NEW text, IsText(text)
  PROVE  ReadSoFar(text, Read(text), {text[i].value : i \in {j \in DOMAIN text : text[j].what = "entry"}})
  <1> DEFINE T == {text[i] : i \in DOMAIN text}
             values == {text[i].value : i \in {j \in DOMAIN text : text[j].what = "entry"}}
             S == {t \in Seq(T) : ReadSoFar(t, Read(t), values)}
  <1>1. text \in Seq(T) /\ \A line \in T : IsLine(line)
    BY DEF IsText
  <1>2. \A line \in T : line.what = "entry" => line.value \in values
    OBVIOUS
  <1>3. <<>> \in S
    <2> DEFINE r == Reading(Default, "none")
    <2>1. r.manifest = Default /\ r.error = "none"
      BY DEF Reading
    <2> HIDE DEF r
    <2>2. Accepted(<<>>)
      BY DEF Accepted
    <2>3. \A key : Places(<<>>, key) = {}
      BY DEF Places
    <2>4. Cardinality(Places(<<>>, "fixed_shape")) = 0
      BY <2>3, FS_EmptySet
    <2>5. DOMAIN Default = Keys
      BY DEF Keys
    <2>6. DOMAIN Default.fixed_shape = 1 .. 0 /\ Default.fixed_shape \in Seq(values)
      BY DefaultIs
    <2>7. Describes(<<>>, Default)
      BY <2>3, <2>4, <2>5, <2>6, Zenon DEF Describes, Setting
    <2>8. ReadSoFar(<<>>, r, values)
      BY <2>1, <2>2, <2>6, <2>7, DefaultIs, Zenon DEF ReadSoFar, r
    <2>9. Read(<<>>) = r
      BY ReadEmpty DEF r
    <2>10. <<>> \in Seq(T)
      OBVIOUS
    <2> QED BY <2>8, <2>9, <2>10, Zenon
  <1>4. \A t \in Seq(T) : \A line \in T : t \in S => Append(t, line) \in S
    <2> HIDE DEF T, values
    <2> SUFFICES ASSUME NEW t \in Seq(T), NEW line \in T, ReadSoFar(t, Read(t), values)
                 PROVE  Append(t, line) \in S
      OBVIOUS
    <2>1. Append(t, line) \in Seq(T) /\ Read(Append(t, line)) = ReadLine(Read(t), line)
      BY ReadAppend, AppendProperties
    <2>2. ReadSoFar(Append(t, line), ReadLine(Read(t), line), values)
      BY <1>1, <1>2, ReadStep
    <2> QED BY <2>1, <2>2, Zenon
  <1> HIDE DEF T, S
  <1>5. Seq(T) \subseteq S
    BY <1>3, <1>4, TextFold!InductiveSequences
  <1> QED BY <1>1, <1>5 DEF S

LEMMA FromTextIs ==
  ASSUME NEW text
  PROVE  FromText(text) = IF Failed(Read(text)) THEN Read(text)
                          ELSE Reading(Read(text).manifest, Validate(Read(text).manifest))
  BY Zenon DEF FromText, Read

\* What is read from a manifest is what is written in it.
THEOREM ReadsExactly ==
  ASSUME NEW text, IsText(text)
  PROVE  ReadsWhatIsWritten(text)
  <1> DEFINE r == Read(text)
             m == r.manifest
             values == {text[i].value : i \in {j \in DOMAIN text : text[j].what = "entry"}}
  <1>1. ReadSoFar(text, r, values)
    BY ReadIs
  <1>2. Accepted(text) <=> (\A i \in DOMAIN text : Readable(text[i]))
    BY Zenon DEF Accepted
  <1> HIDE DEF r, m, values
  <1>3. CASE Accepted(text)
    <2>1. r.error = "none" /\ Describes(text, m)
      BY <1>1, <1>3, Zenon DEF ReadSoFar, m
    <2>2. FromText(text) = Reading(m, Validate(m))
      BY <2>1, FromTextIs, Zenon DEF Failed, r, m
    <2>3. FromText(text).manifest = m /\ FromText(text).error = Validate(m)
      <3>1. /\ Reading(m, Validate(m)).manifest = m
            /\ Reading(m, Validate(m)).error = Validate(m)
        BY ReadingParts
      <3> QED BY <2>2, <3>1, Zenon
    <2> QED BY <1>2, <1>3, <2>1, <2>3, Zenon DEF ReadsWhatIsWritten
  <1>4. CASE ~Accepted(text)
    <2>1. r.error \in {"no '='", "unknown key", "invalid value"}
      BY <1>1, <1>4, Zenon DEF ReadSoFar
    <2>2. r.error # "none"
      BY <2>1
    <2>3. FromText(text) = r
      BY <2>2, FromTextIs, Zenon DEF Failed, r
    <2> QED BY <1>2, <1>4, <2>1, <2>3, Zenon DEF ReadsWhatIsWritten
  <1> QED BY <1>3, <1>4

\* What is read has the members of the struct.
LEMMA FromTextShape ==
  ASSUME NEW text, IsText(text)
  PROVE  /\ FromText(text) = Reading(FromText(text).manifest, FromText(text).error)
         /\ IsManifest(FromText(text).manifest)
         /\ ~Failed(FromText(text)) => Validate(FromText(text).manifest) = "none"
  <1> DEFINE r == Read(text)
             m == r.manifest
  <1>1. r = Reading(m, r.error) /\ IsManifest(m)
    BY ReadIs, Zenon DEF ReadSoFar
  <1>2. FromText(text) = IF Failed(r) THEN r ELSE Reading(m, Validate(m))
    BY FromTextIs
  <1> HIDE DEF r, m
  <1>3. CASE Failed(r)
    BY <1>1, <1>2, <1>3, Zenon DEF m
  <1>4. CASE ~Failed(r)
    <2>1. FromText(text) = Reading(m, Validate(m))
      BY <1>2, <1>4, Zenon
    <2>2. FromText(text).manifest = m /\ FromText(text).error = Validate(m)
      <3>1. /\ Reading(m, Validate(m)).manifest = m
            /\ Reading(m, Validate(m)).error = Validate(m)
        BY ReadingParts
      <3> QED BY <2>1, <3>1, Zenon
    <2> QED BY <1>1, <2>1, <2>2, Zenon DEF Failed
  <1> QED BY <1>3, <1>4

\* What validate() accepts.
LEMMA ValidIs ==
  ASSUME NEW m, Validate(m) = "none"
  PROVE  /\ m.id # "" /\ m.model_path # NoPath /\ InRange(m)
         /\ m.kind = "interpolator" /\ ~m.arbitrary_timestep => m.native_scale.tenths = 10
  <1> HIDE DEF NoPath, InRange
  <1>1. "id" # "none" /\ "path" # "none" /\ "range" # "none" /\ "interpolator" # "none"
    OBVIOUS
  <1> QED BY <1>1, Zenon DEF Validate

\* The directory changes nothing that validate() looks at.
LEMMA ResolvedIs ==
  ASSUME NEW m, IsManifest(m), NEW base
  PROVE  /\ IsManifest(Resolved(m, base))
         /\ \A key \in Keys \ {"model_path", "engine_path"} : Resolved(m, base)[key] = m[key]
         /\ \A key \in {"model_path", "engine_path"} :
              /\ Resolved(m, base)[key] = NoPath <=> m[key] = NoPath
              /\ Resolved(m, base)[key] # NoPath =>
                   /\ Resolved(m, base)[key].name # ""
                   /\ base # "" => Resolved(m, base)[key].directory # ""
  <1> DEFINE from(path) ==
        IF path # NoPath /\ path.directory = "" THEN [path EXCEPT !.directory = base] ELSE path
             new == [m EXCEPT !.model_path = from(m.model_path), !.engine_path = from(m.engine_path)]
  <1>0. /\ DOMAIN m = Keys /\ IsPath(m.model_path) /\ IsPath(m.engine_path)
        /\ "model_path" \in Keys /\ "engine_path" \in Keys /\ "model_path" # "engine_path"
    <2>1. DOMAIN m = Keys /\ IsPath(m.model_path) /\ IsPath(m.engine_path)
      BY Zenon DEF IsManifest
    <2> QED BY <2>1, KeysAre
  <1>1. Resolved(m, base) = new
    BY Zenon DEF Resolved
  <1>2. ASSUME NEW path, IsPath(path)
        PROVE  /\ IsPath(from(path)) /\ (from(path) = NoPath <=> path = NoPath)
               /\ from(path) # NoPath => /\ from(path).name # ""
                                         /\ base # "" => from(path).directory # ""
    <2>0. path = [directory |-> path.directory, name |-> path.name]
      BY <1>2, Zenon DEF IsPath, Path
    <2>1. NoPath = [directory |-> "", name |-> ""]
      BY Zenon DEF NoPath, Path
    <2>2. path # NoPath => path.name # ""
      BY <1>2, Zenon DEF IsPath
    <2>3. CASE path # NoPath /\ path.directory = ""
      <3>1. from(path) = [directory |-> base, name |-> path.name]
        <4>1. [path EXCEPT !.directory = base] = [directory |-> base, name |-> path.name]
          BY <2>0
        <4> QED BY <2>3, <4>1, Zenon
      <3> HIDE DEF from
      <3>2. from(path).name = path.name /\ from(path).directory = base
        BY <3>1
      <3>3. NoPath.name = ""
        BY <2>1
      <3>4. from(path) # NoPath
        BY <2>2, <2>3, <3>2, <3>3, Zenon
      <3>5. IsPath(from(path))
        BY <2>2, <2>3, <3>1, <3>2, Zenon DEF IsPath, Path
      <3> QED BY <2>2, <2>3, <3>2, <3>4, <3>5, Zenon
    <2>4. CASE ~(path # NoPath /\ path.directory = "")
      <3>1. from(path) = path
        BY <2>4, Zenon
      <3> HIDE DEF from
      <3> QED BY <1>2, <2>2, <2>4, <3>1, Zenon
    <2> QED BY <2>3, <2>4
  <1>3. /\ \A key \in Keys \ {"model_path", "engine_path"} : new[key] = m[key]
        /\ DOMAIN new = Keys /\ new = [key \in Keys |-> new[key]]
    BY <1>0, Zenon
  <1>4. new.model_path = from(m.model_path) /\ new.engine_path = from(m.engine_path)
    BY <1>0, Zenon
  <1> HIDE DEF new, from
  <1>5. /\ IsPath(new.model_path) /\ IsPath(new.engine_path)
        /\ \A key \in {"model_path", "engine_path"} :
              /\ new[key] = NoPath <=> m[key] = NoPath
              /\ new[key] # NoPath => /\ new[key].name # ""
                                      /\ base # "" => new[key].directory # ""
    BY <1>0, <1>2, <1>4
  <1>6. IsManifest(new)
    BY <1>3, <1>5, Zenon DEF IsManifest
  <1> QED BY <1>1, <1>3, <1>5, <1>6, Zenon

LEMMA ResolvedValid ==
  ASSUME NEW m, IsManifest(m), NEW base
  PROVE  Validate(Resolved(m, base)) = Validate(m)
  <1> DEFINE new == Resolved(m, base)
  <1>1. /\ \A key \in Keys \ {"model_path", "engine_path"} : new[key] = m[key]
        /\ new.model_path = NoPath <=> m.model_path = NoPath
    BY ResolvedIs
  <1>2. {"id", "kind", "arbitrary_timestep", "native_scale", "min_scale", "max_scale"}
           \subseteq Keys \ {"model_path", "engine_path"}
    BY KeysAre
  <1> HIDE DEF new
  <1>3. /\ new.id = m.id /\ new.kind = m.kind /\ new.arbitrary_timestep = m.arbitrary_timestep
        /\ new.native_scale = m.native_scale /\ new.min_scale = m.min_scale
        /\ new.max_scale = m.max_scale
    BY <1>1, <1>2, Zenon
  <1>4. InRange(new) <=> InRange(m)
    BY <1>3, Zenon DEF InRange
  <1>5. CASE InRange(m)
    BY <1>1, <1>3, <1>4, <1>5, Zenon DEF Validate, new
  <1>6. CASE ~InRange(m)
    BY <1>1, <1>3, <1>4, <1>6, Zenon DEF Validate, new
  <1> QED BY <1>5, <1>6

\* What load_file() returns when it does not fail.
LEMMA LoadedIs ==
  ASSUME NEW file, file.opens => IsText(file.text), NEW base, ~Failed(LoadFile(file, base))
  PROVE  LET from == FromText(file.text).manifest
             m == LoadFile(file, base).manifest
         IN  IsManifest(from) /\ m = Resolved(from, base) /\ Validate(m) = "none"
  <1> DEFINE read == FromText(file.text)
             new == Resolved(read.manifest, base)
  <1>1. CASE ~file.opens
    <2>1. LoadFile(file, base) = Reading(Default, "cannot open")
      BY <1>1, Zenon DEF LoadFile
    <2>2. LoadFile(file, base).error = "cannot open"
      BY <2>1, ReadingParts, Zenon
    <2>3. Failed(LoadFile(file, base))
      BY <2>2 DEF Failed
    <2> QED BY <2>3
  <1>2. CASE file.opens
    <2>1. LoadFile(file, base) = IF Failed(read) THEN read ELSE Reading(new, "none")
      BY <1>2, Zenon DEF LoadFile
    <2>2. /\ IsManifest(read.manifest)
          /\ ~Failed(read) => Validate(read.manifest) = "none"
      BY <1>2, FromTextShape
    <2>3. ~Failed(read)
      BY <2>1, Zenon
    <2>4. Validate(new) = "none"
      BY <2>2, <2>3, ResolvedValid
    <2> HIDE DEF read, new
    <2>5. LoadFile(file, base).manifest = new
      <3>1. Reading(new, "none").manifest = new
        BY ReadingParts
      <3> QED BY <2>1, <2>3, <3>1, Zenon
    <2> QED BY <2>2, <2>4, <2>5, Zenon DEF read, new
  <1> QED BY <1>1, <1>2

\* Neither path of a resolved manifest lacks its directory.
LEMMA ResolvedPath ==
  ASSUME NEW m, IsManifest(m), NEW base, base # ""
  PROVE  \A key \in {"model_path", "engine_path"} :
           Resolved(m, base)[key] # NoPath =>
             Resolved(m, base)[key].name # "" /\ Resolved(m, base)[key].directory # ""
  <1> DEFINE new == Resolved(m, base)
  <1>1. \A key \in {"model_path", "engine_path"} :
          new[key] # NoPath => new[key].name # "" /\ (base # "" => new[key].directory # "")
    BY ResolvedIs
  <1> HIDE DEF new
  <1>2. \A key \in {"model_path", "engine_path"} :
          new[key] # NoPath => new[key].name # "" /\ new[key].directory # ""
    BY <1>1, Zenon
  <1> QED BY <1>2 DEF new

\* A manifest that loads can be used by the backends.
THEOREM LoadedUsable ==
  ASSUME NEW file, file.opens => IsText(file.text), NEW base, base # ""
  PROVE  UsableWhenLoaded(file, base)
  <1> SUFFICES ASSUME ~Failed(LoadFile(file, base))
               PROVE  LET m == LoadFile(file, base).manifest IN
                      /\ m.id # "" /\ m.model_path.name # "" /\ m.model_path.directory # ""
                      /\ m.engine_path # NoPath => m.engine_path.directory # ""
                      /\ m.native_scale.finite /\ m.min_scale.finite /\ m.max_scale.finite
                      /\ m.min_scale.tenths > 0
                      /\ m.native_scale.tenths \in m.min_scale.tenths .. m.max_scale.tenths
                      /\ m.kind = "interpolator" /\ ~m.arbitrary_timestep =>
                            m.native_scale.tenths = 10
    BY Zenon DEF UsableWhenLoaded
  <1> DEFINE from == FromText(file.text).manifest
             m == LoadFile(file, base).manifest
  <1>1. IsManifest(from) /\ m = Resolved(from, base) /\ Validate(m) = "none"
    BY LoadedIs
  <1>2. /\ m.id # "" /\ m.model_path # NoPath /\ InRange(m)
        /\ m.kind = "interpolator" /\ ~m.arbitrary_timestep => m.native_scale.tenths = 10
    BY <1>1, ValidIs
  <1> HIDE DEF from, m
  <1>3. \A key \in {"model_path", "engine_path"} :
          m[key] # NoPath => m[key].name # "" /\ m[key].directory # ""
    <2>1. \A key \in {"model_path", "engine_path"} :
            Resolved(from, base)[key] # NoPath =>
              Resolved(from, base)[key].name # "" /\ Resolved(from, base)[key].directory # ""
      BY <1>1, ResolvedPath
    <2> QED BY <1>1, <2>1, Zenon
  <1>4. /\ m.native_scale.finite /\ m.min_scale.finite /\ m.max_scale.finite
        /\ m.min_scale.tenths > 0
        /\ m.native_scale.tenths \in m.min_scale.tenths .. m.max_scale.tenths
    BY <1>2, Zenon DEF InRange
  <1>5. "model_path" \in {"model_path", "engine_path"} /\ "engine_path" \in {"model_path", "engine_path"}
    OBVIOUS
  <1> QED BY <1>2, <1>3, <1>4, <1>5, Zenon DEF m

-----------------------------------------------------------------------------
(***************************************************************************)
(* Command lines: ReadWord and AppReadWord are folded over the words.      *)
(***************************************************************************)

CliFold == INSTANCE Folding WITH Op <- ReadWord, Base <- Progress(CliDefaults, <<>>, TRUE)
AppFold == INSTANCE Folding WITH Op <- AppReadWord, Base <- Progress(AppDefaults, <<>>, TRUE)

\* What parse_arguments() and parse_options() have read before they return.
CliRead(words) == FoldLeft(ReadWord, Progress(CliDefaults, <<>>, TRUE), words)
AppRead(words) == FoldLeft(AppReadWord, Progress(AppDefaults, <<>>, TRUE), words)

LEMMA CliReadIs ==
  /\ CliRead(<<>>) = Progress(CliDefaults, <<>>, TRUE)
  /\ \A T : \A words \in Seq(T) : \A word \in T :
        CliRead(Append(words, word)) = ReadWord(CliRead(words), word)
  <1>1. ASSUME NEW words PROVE CliRead(words) = CliFold!Fold(words)
    BY Zenon DEF CliRead, FoldLeft, MapThenFoldSet, Max,
                 CliFold!Fold, CliFold!FoldLeft, CliFold!MapThenFoldSet, CliFold!Max
  <1> QED BY <1>1, CliFold!FoldEmpty, CliFold!FoldAppend, Zenon

LEMMA AppReadIs ==
  /\ AppRead(<<>>) = Progress(AppDefaults, <<>>, TRUE)
  /\ \A T : \A words \in Seq(T) : \A word \in T :
        AppRead(Append(words, word)) = AppReadWord(AppRead(words), word)
  <1>1. ASSUME NEW words PROVE AppRead(words) = AppFold!Fold(words)
    BY Zenon DEF AppRead, FoldLeft, MapThenFoldSet, Max,
                 AppFold!Fold, AppFold!FoldLeft, AppFold!MapThenFoldSet, AppFold!Max
  <1> QED BY <1>1, AppFold!FoldEmpty, AppFold!FoldAppend, Zenon

-----------------------------------------------------------------------------
\* The places of options, for some words only.

IsOptions(option, words, n) ==
  option = [i \in 0 .. n |->
              i > 0 => (i > 1 /\ option[i - 1] => words[i - 1].text = "--no-interpolation")]

OptionRules(option, words, n) ==
  /\ option[0]
  /\ \A i \in 0 .. n : option[i] \in BOOLEAN
  /\ \A i \in 0 .. n - 1 :
        option[i + 1] <=> (i > 0 /\ option[i] => words[i].text = "--no-interpolation")

LEMMA OptionsAre ==
  ASSUME NEW option, NEW words, NEW n \in Nat, IsOptions(option, words, n)
  PROVE  OptionRules(option, words, n)
  <1>1. \A i \in 0 .. n :
          option[i] = (i > 0 => (i > 1 /\ option[i - 1] => words[i - 1].text = "--no-interpolation"))
    BY Zenon DEF IsOptions
  <1>3. \A i \in 0 .. n - 1 :
          i + 1 \in 0 .. n /\ i + 1 > 0 /\ (i + 1) - 1 = i /\ (i + 1 > 1 <=> i > 0)
    OBVIOUS
  <1>4. 0 \in 0 .. n /\ ~(0 > 0)
    OBVIOUS
  <1>5. option[0]
    BY <1>1, <1>4, Zenon
  <1>6. \A i \in 0 .. n : option[i] \in BOOLEAN
    BY <1>1, Zenon
  <1>7. \A i \in 0 .. n - 1 :
          option[i + 1] <=> (i > 0 /\ option[i] => words[i].text = "--no-interpolation")
    BY <1>1, <1>3, Zenon
  <1> QED BY <1>5, <1>6, <1>7, Zenon DEF OptionRules

LEMMA OptionsExist ==
  ASSUME NEW words, NEW n \in Nat
  PROVE  \E option : IsOptions(option, words, n)
  <1> DEFINE Body(f, i) == i > 0 => (i > 1 /\ f[i - 1] => words[i - 1].text = "--no-interpolation")
             Has(k) == \E f : f = [i \in 0 .. k |-> Body(f, i)]
             S == {k \in Nat : Has(k)}
  <1>1. 0 \in S
    <2> DEFINE f == [i \in 0 .. 0 |-> TRUE]
    <2>1. \A i \in 0 .. 0 : ~(i > 0)
      OBVIOUS
    <2>2. f = [i \in 0 .. 0 |-> Body(f, i)]
      BY <2>1, Zenon
    <2> QED BY <2>2, Zenon
  <1>2. ASSUME NEW k \in Nat, k \in S PROVE k + 1 \in S
    <2>1. PICK f : f = [i \in 0 .. k |-> Body(f, i)]
      BY <1>2
    <2> DEFINE g == [i \in 0 .. k + 1 |-> IF i = k + 1 THEN Body(f, i) ELSE f[i]]
    <2>2. \A i \in 0 .. k : i \in 0 .. k + 1 /\ i # k + 1
      OBVIOUS
    <2>3. \A i \in 0 .. k : g[i] = f[i] /\ f[i] = Body(f, i)
      BY <2>1, <2>2, Zenon
    <2>4. \A i \in 0 .. k + 1 : i > 0 => i - 1 \in 0 .. k
      OBVIOUS
    <2>5. \A i \in 0 .. k + 1 : i > 0 => g[i - 1] = f[i - 1]
      BY <2>3, <2>4, Zenon
    <2>6. \A i \in 0 .. k + 1 : Body(g, i) = Body(f, i)
      <3> HIDE DEF g
      <3> QED BY <2>5, Zenon
    <2>7. \A i \in 0 .. k + 1 : i = k + 1 \/ i \in 0 .. k
      OBVIOUS
    <2>8. \A i \in 0 .. k + 1 : g[i] = Body(f, i)
      BY <2>3, <2>7, Zenon
    <2>9. g = [i \in 0 .. k + 1 |-> g[i]]
      BY Zenon
    <2> HIDE DEF g, Body
    <2>10. g = [i \in 0 .. k + 1 |-> Body(g, i)]
      BY <2>6, <2>8, <2>9, Zenon
    <2>11. Has(k + 1)
      BY <2>10, Zenon
    <2> HIDE DEF Has
    <2> QED BY <2>11
  <1> HIDE DEF S
  <1>3. n \in S
    BY <1>1, <1>2, TextFold!InductiveSet
  <1> QED BY <1>3, Zenon DEF S, IsOptions

LEMMA IsOptionIs ==
  ASSUME NEW T, NEW words \in Seq(T)
  PROVE  IsOptions(IsOption(words), words, Len(words)) /\ Len(words) \in Nat
  <1>1. Len(words) \in Nat
    BY LenProperties
  <1>2. \E option : IsOptions(option, words, Len(words))
    BY <1>1, OptionsExist
  <1>3. IsOption(words) = CHOOSE option : IsOptions(option, words, Len(words))
    BY Zenon DEF IsOption, IsOptions
  <1> QED BY <1>1, <1>2, <1>3, Zenon

\* A word more changes nothing for the ones before it.
LEMMA OptionsAgree ==
  ASSUME NEW f, NEW g, NEW p, NEW q, NEW n \in Nat,
         IsOptions(f, p, n), IsOptions(g, q, n + 1), \A i \in 1 .. n : p[i] = q[i]
  PROVE  \A i \in 0 .. n : g[i] = f[i]
  <1> DEFINE S == {k \in Nat : k <= n => g[k] = f[k]}
  <1>1. OptionRules(f, p, n)
    BY OptionsAre
  <1>2. OptionRules(g, q, n + 1)
    BY OptionsAre
  <1>3. 0 \in S
    <2>1. 0 \in 0 .. n /\ 0 \in 0 .. n + 1
      OBVIOUS
    <2>2. f[0] \in BOOLEAN /\ g[0] \in BOOLEAN /\ f[0] /\ g[0]
      BY <1>1, <1>2, <2>1, Zenon DEF OptionRules
    <2> QED BY <2>2
  <1>4. ASSUME NEW k \in Nat, k \in S PROVE k + 1 \in S
    <2> SUFFICES ASSUME k + 1 <= n PROVE g[k + 1] = f[k + 1]
      OBVIOUS
    <2>1. /\ k \in 0 .. n - 1 /\ k \in 0 .. (n + 1) - 1 /\ k + 1 \in 0 .. n /\ k + 1 \in 0 .. n + 1
          /\ g[k] = f[k] /\ (k > 0 => k \in 1 .. n)
      BY <1>4
    <2>2. k > 0 => p[k] = q[k]
      BY <2>1
    <2>a. f[k + 1] <=> (k > 0 /\ f[k] => p[k].text = "--no-interpolation")
      BY <1>1, <2>1, Zenon DEF OptionRules
    <2>b. g[k + 1] <=> (k > 0 /\ g[k] => q[k].text = "--no-interpolation")
      BY <1>2, <2>1, Zenon DEF OptionRules
    <2>3. f[k + 1] <=> g[k + 1]
      <3>1. CASE k > 0
        BY <2>a, <2>b, <2>1, <2>2, <3>1, Zenon
      <3>2. CASE ~(k > 0)
        BY <2>a, <2>b, <3>2, Zenon
      <3> QED BY <3>1, <3>2
    <2>4. f[k + 1] \in BOOLEAN /\ g[k + 1] \in BOOLEAN
      BY <1>1, <1>2, <2>1, Zenon DEF OptionRules
    <2> QED BY <2>3, <2>4
  <1> HIDE DEF S
  <1>5. Nat \subseteq S
    BY <1>3, <1>4, TextFold!InductiveSet
  <1> QED BY <1>5 DEF S

-----------------------------------------------------------------------------

Flag == "--no-interpolation"

\* The options that take a value.
Valued == Numeric \cup Paths \cup {"--provider"}

\* The last word is an option that waits for its value.
Waits(words) ==
  Len(words) > 0 /\ IsOption(words)[Len(words)] /\ words[Len(words)].text # Flag

\* The flag is among the options.
Flagged(words) == \E i \in DOMAIN words : IsOption(words)[i] /\ words[i].text = Flag

Asked(words, name) == words[Latest(Given(words, name))]

LEMMA NamesAre ==
  /\ DOMAIN CliDefaults = Valued \cup {Flag} /\ Flag \notin Valued
  /\ Valued = {"--frames", "--fps", "--width", "--height", "--upscaler-manifest",
              "--interpolator-manifest", "--provider"}
  <1>1. DOMAIN CliDefaults = Numeric \cup Paths \cup {"--provider", "--no-interpolation"}
    BY DEF CliDefaults
  <1>2. "--no-interpolation" \notin Valued
    BY DEF Valued, Numeric, Paths
  <1> QED BY <1>1, <1>2 DEF Valued, Flag, Numeric, Paths

LEMMA WordsAppend ==
  ASSUME NEW T, NEW words \in Seq(T), NEW word \in T
  PROVE  LET longer == Append(words, word) IN
         /\ Len(words) \in Nat /\ DOMAIN words = 1 .. Len(words)
         /\ longer \in Seq(T) /\ Len(longer) = Len(words) + 1 /\ DOMAIN longer = 1 .. Len(words) + 1
         /\ longer[Len(words) + 1] = word
         /\ \A i \in 1 .. Len(words) : longer[i] = words[i]
  BY AppendProperties, LenProperties

LEMMA OptionAppend ==
  ASSUME NEW T, NEW words \in Seq(T), NEW word \in T
  PROVE  LET longer == Append(words, word) IN
         /\ \A i \in 0 .. Len(words) : IsOption(longer)[i] = IsOption(words)[i]
         /\ IsOption(longer)[Len(words) + 1] <=> ~Waits(words)
         /\ \A i \in 0 .. Len(words) : IsOption(words)[i] \in BOOLEAN
  <1> DEFINE longer == Append(words, word)
             n == Len(words)
             f == IsOption(words)
             g == IsOption(longer)
  <1>1. /\ n \in Nat /\ longer \in Seq(T) /\ Len(longer) = n + 1
        /\ \A i \in 1 .. n : longer[i] = words[i]
    BY WordsAppend
  <1>2. IsOptions(f, words, n)
    BY IsOptionIs
  <1>3. IsOptions(g, longer, n + 1)
    <2> HIDE DEF longer
    <2> QED BY <1>1, IsOptionIs
  <1> HIDE DEF longer, n, f, g
  <1>4. \A i \in 0 .. n : g[i] = f[i]
    BY <1>1, <1>2, <1>3, OptionsAgree
  <1>5. OptionRules(f, words, n)
    BY <1>1, <1>2, OptionsAre
  <1>6. OptionRules(g, longer, n + 1)
    BY <1>1, <1>3, OptionsAre
  <1>7. n \in 0 .. n /\ n \in 0 .. (n + 1) - 1 /\ n + 1 \in 0 .. n + 1 /\ (n > 0 => n \in 1 .. n)
    BY <1>1
  <1>8. g[n + 1] <=> (n > 0 /\ g[n] => longer[n].text = Flag)
    BY <1>6, <1>7, Zenon DEF OptionRules, Flag
  <1>9. Waits(words) <=> n > 0 /\ f[n] /\ words[n].text # Flag
    BY Zenon DEF Waits, n, f
  <1>10. g[n + 1] <=> ~Waits(words)
    <2>1. CASE n > 0
      <3>1. g[n] = f[n] /\ longer[n] = words[n]
        BY <2>1, <1>1, <1>4, <1>7, Zenon
      <3> QED BY <3>1, <2>1, <1>8, <1>9, Zenon
    <2>2. CASE ~(n > 0)
      BY <2>2, <1>8, <1>9, Zenon
    <2> QED BY <2>1, <2>2
  <1>11. \A i \in 0 .. n : f[i] \in BOOLEAN
    BY <1>5, Zenon DEF OptionRules
  <1> QED BY <1>4, <1>10, <1>11, Zenon DEF longer, n, f, g

LEMMA WaitsAppend ==
  ASSUME NEW T, NEW words \in Seq(T), NEW word \in T
  PROVE  /\ Waits(Append(words, word)) <=> ~Waits(words) /\ word.text # Flag
         /\ Flagged(Append(words, word)) <=> Flagged(words) \/ (~Waits(words) /\ word.text = Flag)
         /\ ~Waits(<<>>) /\ ~Flagged(<<>>)
  <1> DEFINE longer == Append(words, word)
             n == Len(words)
  <1>1. /\ n \in Nat /\ DOMAIN words = 1 .. n /\ Len(longer) = n + 1 /\ DOMAIN longer = 1 .. n + 1
        /\ longer[n + 1] = word /\ \A i \in 1 .. n : longer[i] = words[i]
    BY WordsAppend
  <1>2. /\ \A i \in 0 .. n : IsOption(longer)[i] = IsOption(words)[i]
        /\ IsOption(longer)[n + 1] <=> ~Waits(words)
    BY OptionAppend
  <1>3. /\ 1 .. n + 1 = (1 .. n) \cup {n + 1} /\ (\A i \in 1 .. n : i \in 0 .. n)
        /\ n + 1 > 0
    BY <1>1
  <1> HIDE DEF longer, n
  <1>4. Waits(longer) <=> ~Waits(words) /\ word.text # Flag
    <2>1. Waits(longer) <=> n + 1 > 0 /\ IsOption(longer)[n + 1] /\ longer[n + 1].text # Flag
      BY <1>1, Zenon DEF Waits
    <2> QED BY <2>1, <1>1, <1>2, <1>3, Zenon
  <1>5. Flagged(longer) <=> Flagged(words) \/ (~Waits(words) /\ word.text = Flag)
    <2>1. \A i \in 1 .. n :
            (IsOption(longer)[i] /\ longer[i].text = Flag) <=> (IsOption(words)[i] /\ words[i].text = Flag)
      BY <1>1, <1>2, <1>3, Zenon
    <2>2. Flagged(longer) <=> \E i \in (1 .. n) \cup {n + 1} : IsOption(longer)[i] /\ longer[i].text = Flag
      BY <1>1, <1>3, Zenon DEF Flagged
    <2>3. Flagged(words) <=> \E i \in 1 .. n : IsOption(words)[i] /\ words[i].text = Flag
      BY <1>1, Zenon DEF Flagged
    <2>4. (IsOption(longer)[n + 1] /\ longer[n + 1].text = Flag) <=> (~Waits(words) /\ word.text = Flag)
      BY <1>1, <1>2, Zenon
    <2>5. Flagged(longer) <=> \/ \E i \in 1 .. n : IsOption(longer)[i] /\ longer[i].text = Flag
                              \/ IsOption(longer)[n + 1] /\ longer[n + 1].text = Flag
      BY <2>2, Zenon
    <2> QED BY <2>1, <2>3, <2>4, <2>5, Zenon
  <1>6. Len(<<>>) = 0 /\ DOMAIN <<>> = {} /\ ~(0 > 0)
    OBVIOUS
  <1>7. ~Waits(<<>>) /\ ~Flagged(<<>>)
    BY <1>6, Zenon DEF Waits, Flagged
  <1> QED BY <1>4, <1>5, <1>7, Zenon DEF longer

LEMMA GivenAppend ==
  ASSUME NEW T, NEW words \in Seq(T), NEW word \in T, NEW name \in Valued
  PROVE  LET longer == Append(words, word) IN
         /\ Given(<<>>, name) = {}
         /\ Given(words, name) \in SUBSET (1 .. Len(words))
         /\ Given(longer, name) =
               IF Waits(words) /\ words[Len(words)].text = name
               THEN Given(words, name) \cup {Len(words) + 1} ELSE Given(words, name)
  <1> DEFINE longer == Append(words, word)
             n == Len(words)
             f == IsOption(words)
             g == IsOption(longer)
  <1>1. /\ n \in Nat /\ Len(longer) = n + 1
        /\ longer[n + 1] = word /\ \A i \in 1 .. n : longer[i] = words[i]
    BY WordsAppend
  <1>2. \A i \in 0 .. n : g[i] = f[i]
    BY OptionAppend
  <1>3. Waits(words) <=> n > 0 /\ f[n] /\ words[n].text # Flag
    BY Zenon DEF Waits
  <1>4. name # Flag
    BY NamesAre
  <1>5. /\ Given(words, name) = {i \in 2 .. n : words[i - 1].text = name /\ f[i - 1]}
        /\ Given(longer, name) = {i \in 2 .. n + 1 : longer[i - 1].text = name /\ g[i - 1]}
    BY <1>1, Zenon DEF Given
  <1> HIDE DEF longer, f, g
  <1>6. Given(<<>>, name) = {}
    <2>1. Len(<<>>) = 0 /\ 2 .. 0 = {}
      OBVIOUS
    <2> QED BY <2>1, Zenon DEF Given
  <1> HIDE DEF n
  <1>7. Given(words, name) \in SUBSET (1 .. n)
    BY <1>1, <1>5
  <1>8. \A i \in 2 .. n : i - 1 \in 1 .. n /\ i - 1 \in 0 .. n
    BY <1>1
  <1>9. \A i \in 2 .. n : (longer[i - 1].text = name /\ g[i - 1]) <=> (words[i - 1].text = name /\ f[i - 1])
    BY <1>1, <1>2, <1>8, Zenon
  <1>10. n + 1 \in 2 .. n + 1 <=> n > 0
    BY <1>1
  <1>11. \A i \in 2 .. n + 1 : i \in 2 .. n \/ i = n + 1
    BY <1>1
  <1>12. (n + 1) - 1 = n /\ n \in 0 .. n /\ (n > 0 => n \in 1 .. n) /\ \A i \in 2 .. n : i \in 2 .. n + 1
    BY <1>1
  <1>13. CASE n > 0
    <2>1. (longer[(n + 1) - 1].text = name /\ g[(n + 1) - 1]) <=> (words[n].text = name /\ Waits(words))
      BY <1>1, <1>2, <1>3, <1>4, <1>12, <1>13, Zenon
    <2>2. CASE Waits(words) /\ words[n].text = name
      <3>1. Given(longer, name) = Given(words, name) \cup {n + 1}
        BY <1>5, <1>9, <1>10, <1>11, <1>12, <1>13, <2>1, <2>2, Zenon
      <3> QED BY <3>1, <1>6, <1>7, <2>2, Zenon DEF longer, n
    <2>3. CASE ~(Waits(words) /\ words[n].text = name)
      <3>1. Given(longer, name) = Given(words, name)
        BY <1>5, <1>9, <1>10, <1>11, <1>12, <1>13, <2>1, <2>3, Zenon
      <3> QED BY <3>1, <1>6, <1>7, <2>3, Zenon DEF longer, n
    <2> QED BY <2>2, <2>3
  <1>14. CASE ~(n > 0)
    <2>1. ~Waits(words)
      BY <1>3, <1>14, Zenon
    <2>2. Given(longer, name) = Given(words, name)
      BY <1>5, <1>9, <1>10, <1>11, <1>12, <1>14, Zenon
    <2> QED BY <2>1, <2>2, <1>6, <1>7, Zenon DEF longer, n
  <1> QED BY <1>13, <1>14

LEMMA LatestIs ==
  ASSUME NEW n \in Nat, NEW S \in SUBSET (1 .. n)
  PROVE  /\ Latest(S \cup {n + 1}) = n + 1
         /\ S # {} => Latest(S) \in S
  <1>1. Latest(S \cup {n + 1}) = n + 1
    <2> DEFINE Q == S \cup {n + 1}
    <2>1. n + 1 \in Q /\ \A y \in Q : y <= n + 1
      OBVIOUS
    <2>2. \A x \in Q : (\A y \in Q : y <= x) => x = n + 1
      OBVIOUS
    <2> HIDE DEF Q
    <2>3. Latest(Q) = n + 1
      BY <2>1, <2>2, Zenon DEF Latest
    <2> QED BY <2>3 DEF Q
  <1>2. ASSUME S # {} PROVE Latest(S) \in S
    <2>1. PICK m \in S : \A x \in S : m >= x
      BY <1>2, HasMax
    <2>2. \A x \in S : x <= m
      BY <2>1
    <2> QED BY <2>2, Zenon DEF Latest
  <1> QED BY <1>1, <1>2

LEMMA AskedAppend ==
  ASSUME NEW T, NEW words \in Seq(T), NEW word \in T, NEW name \in Valued
  PROVE  LET longer == Append(words, word)
             takes == Waits(words) /\ words[Len(words)].text = name
         IN  /\ takes => /\ Given(longer, name) = Given(words, name) \cup {Len(words) + 1}
                         /\ Len(words) + 1 \notin Given(words, name)
                         /\ Given(longer, name) # {} /\ Asked(longer, name) = word
             /\ ~takes => /\ Given(longer, name) = Given(words, name)
                          /\ Given(words, name) # {} => Asked(longer, name) = Asked(words, name)
  <1> DEFINE longer == Append(words, word)
             n == Len(words)
             takes == Waits(words) /\ words[n].text = name
             S == Given(words, name)
  <1>1. n \in Nat /\ longer[n + 1] = word /\ \A i \in 1 .. n : longer[i] = words[i]
    BY WordsAppend
  <1>2. /\ S \in SUBSET (1 .. n)
        /\ Given(longer, name) = IF takes THEN S \cup {n + 1} ELSE S
    BY GivenAppend
  <1> HIDE DEF longer, n, takes, S
  <1>3. Latest(S \cup {n + 1}) = n + 1 /\ (S # {} => Latest(S) \in S)
    BY <1>1, <1>2, LatestIs
  <1>4. n + 1 \notin S
    BY <1>1, <1>2
  <1>5. CASE takes
    <2>1. Given(longer, name) = S \cup {n + 1}
      BY <1>2, <1>5, Zenon
    <2>2. Asked(longer, name) = word
      BY <2>1, <1>1, <1>3, Zenon DEF Asked
    <2> QED BY <2>1, <2>2, <1>4, <1>5, Zenon DEF longer, n, takes, S
  <1>6. CASE ~takes
    <2>1. Given(longer, name) = S
      BY <1>2, <1>6, Zenon
    <2>2. S # {} => longer[Latest(S)] = words[Latest(S)]
      BY <1>1, <1>2, <1>3
    <2>3. S # {} => Asked(longer, name) = Asked(words, name)
      BY <2>1, <2>2, Zenon DEF Asked, S
    <2> QED BY <2>1, <2>3, <1>6, Zenon DEF longer, n, takes, S
  <1> QED BY <1>5, <1>6

LEMMA AskedIn ==
  ASSUME NEW T, NEW words \in Seq(T), NEW name \in Valued, Given(words, name) # {}
  PROVE  /\ Latest(Given(words, name)) \in Given(words, name)
         /\ Latest(Given(words, name)) \in DOMAIN words /\ Asked(words, name) \in T
  <1>1. Given(words, name) \in SUBSET (1 .. Len(words)) /\ Len(words) \in Nat /\ DOMAIN words = 1 .. Len(words)
    BY LenProperties DEF Given
  <1>2. Latest(Given(words, name)) \in Given(words, name)
    BY <1>1, LatestIs
  <1>3. Latest(Given(words, name)) \in DOMAIN words
    BY <1>1, <1>2, Zenon
  <1>4. \A i \in 1 .. Len(words) : words[i] \in T
    BY ElementOfSeq
  <1> QED BY <1>1, <1>2, <1>3, <1>4, Zenon DEF Asked

-----------------------------------------------------------------------------
\* swave_cli, word by word.

Value(name, word) == IF name \in Numeric THEN Unsigned(word) ELSE word.text

CliSoFar(words, p) ==
  /\ p = Progress(p.arguments, p.pending, p.ok) /\ p.ok \in BOOLEAN
  /\ p.ok =>
       /\ p.pending = IF Waits(words) THEN <<words[Len(words)].text>> ELSE <<>>
       /\ DOMAIN p.arguments = DOMAIN CliDefaults
       /\ p.arguments[Flag] \in BOOLEAN /\ (p.arguments[Flag] <=> Flagged(words))
       /\ \A name \in Valued :
            /\ Given(words, name) = {} => p.arguments[name] = CliDefaults[name]
            /\ Given(words, name) # {} =>
                 /\ p.arguments[name] = Value(name, Asked(words, name))
                 /\ Accepts(name, Asked(words, name))

LEMMA ProgressIs ==
  ASSUME NEW a, NEW w, NEW b
  PROVE  LET p == Progress(a, w, b) IN p.arguments = a /\ p.pending = w /\ p.ok = b
  BY DEF Progress

LEMMA AcceptsBoolean ==
  ASSUME NEW option, NEW word, IsWord(word)
  PROVE  Accepts(option, word) \in BOOLEAN
  BY Zenon DEF Accepts

\* What one option takes.
LEMMA AssignedIs ==
  ASSUME NEW arguments, DOMAIN arguments = DOMAIN CliDefaults, NEW option, option # Flag, NEW word
  PROVE  LET new == Assigned(arguments, option, word) IN
         /\ DOMAIN new = DOMAIN CliDefaults /\ new[Flag] = arguments[Flag]
         /\ option \in Valued => new[option] = Value(option, word)
         /\ \A name \in Valued : name # option => new[name] = arguments[name]
  <1>1. Flag \in DOMAIN arguments /\ Valued \subseteq DOMAIN arguments
    BY NamesAre
  <1>2. CASE option \in Numeric
    <2>1. Assigned(arguments, option, word) = [arguments EXCEPT ![option] = Unsigned(word)]
      BY <1>2, Zenon DEF Assigned
    <2> QED BY <2>1, <1>1, <1>2, Zenon DEF Value
  <1>3. CASE option \notin Numeric /\ option \in Paths \cup {"--provider"}
    <2>1. Assigned(arguments, option, word) = [arguments EXCEPT ![option] = word.text]
      BY <1>3, Zenon DEF Assigned
    <2> QED BY <2>1, <1>1, <1>3, Zenon DEF Value
  <1>4. CASE option \notin Numeric /\ option \notin Paths \cup {"--provider"}
    <2>1. Assigned(arguments, option, word) = arguments
      BY <1>4, Zenon DEF Assigned
    <2>2. option \notin Valued
      BY <1>4, Zenon DEF Valued
    <2> QED BY <2>1, <2>2, Zenon
  <1> QED BY <1>2, <1>3, <1>4

LEMMA CliStep ==
  ASSUME NEW T, NEW words \in Seq(T), NEW word \in T, IsWord(word), NEW p, CliSoFar(words, p)
  PROVE  CliSoFar(Append(words, word), ReadWord(p, word))
  <1> DEFINE longer == Append(words, word)
             n == Len(words)
             a == p.arguments
             option == words[n].text
  <1>0. /\ p = Progress(p.arguments, p.pending, p.ok) /\ p.ok \in BOOLEAN
        /\ p.ok =>
             /\ p.pending = IF Waits(words) THEN <<option>> ELSE <<>>
             /\ DOMAIN a = DOMAIN CliDefaults
             /\ a[Flag] \in BOOLEAN /\ (a[Flag] <=> Flagged(words))
             /\ \A name \in Valued :
                  /\ Given(words, name) = {} => a[name] = CliDefaults[name]
                  /\ Given(words, name) # {} =>
                       /\ a[name] = Value(name, Asked(words, name))
                       /\ Accepts(name, Asked(words, name))
    BY Zenon DEF CliSoFar
  <1>1. /\ Waits(longer) <=> ~Waits(words) /\ word.text # Flag
        /\ Flagged(longer) <=> Flagged(words) \/ (~Waits(words) /\ word.text = Flag)
    BY WaitsAppend
  <1>2. /\ \A name \in Valued : Waits(words) /\ option = name =>
             /\ Given(longer, name) # {} /\ Asked(longer, name) = word
        /\ \A name \in Valued : ~(Waits(words) /\ option = name) =>
             /\ Given(longer, name) = Given(words, name)
             /\ Given(words, name) # {} => Asked(longer, name) = Asked(words, name)
    BY AskedAppend
  <1>3. Len(longer) = n + 1 /\ longer[n + 1] = word
    BY WordsAppend
  <1>4. Waits(words) => option # Flag
    BY Zenon DEF Waits
  <1>5. <<option>> # <<>> /\ <<option>>[1] = option /\ <<word.text>> # <<>>
    OBVIOUS
  <1>6. Flag \in DOMAIN CliDefaults /\ Flag \notin Valued /\ Valued \subseteq DOMAIN CliDefaults
    BY NamesAre
  <1> HIDE DEF longer, n, option
  <1>7. CASE ~p.ok
    <2>1. ReadWord(p, word) = p
      BY <1>7, Zenon DEF ReadWord
    <2> QED BY <2>1, <1>0, <1>7, Zenon DEF CliSoFar, a
  <1>8. CASE p.ok /\ Waits(words)
    <2> DEFINE new == Assigned(a, option, word)
               ok == Accepts(option, word)
    <2>1. ReadWord(p, word) = Progress(new, <<>>, ok)
      BY <1>0, <1>5, <1>8, Zenon DEF ReadWord, TakesValue
    <2>2. /\ DOMAIN new = DOMAIN CliDefaults /\ new[Flag] = a[Flag]
          /\ option \in Valued => new[option] = Value(option, word)
          /\ \A name \in Valued : name # option => new[name] = a[name]
      BY <1>0, <1>4, <1>8, AssignedIs
    <2>3. ok \in BOOLEAN
      BY AcceptsBoolean
    <2> DEFINE q == Progress(new, <<>>, ok)
    <2>4. q.arguments = new /\ q.pending = <<>> /\ q.ok = ok
      BY DEF Progress
    <2>5. q = Progress(q.arguments, q.pending, q.ok)
      <3> HIDE DEF new, ok
      <3> QED BY <2>4, Zenon
    <2> HIDE DEF q, new
    <2>6. ASSUME ok, NEW name \in Valued
          PROVE  /\ Given(longer, name) = {} => new[name] = CliDefaults[name]
                 /\ Given(longer, name) # {} =>
                      /\ new[name] = Value(name, Asked(longer, name))
                      /\ Accepts(name, Asked(longer, name))
      <3>1. CASE name = option
        BY <3>1, <2>2, <2>6, <1>2, <1>8, Zenon
      <3>2. CASE name # option
        <4>1. new[name] = a[name] /\ Given(longer, name) = Given(words, name)
          BY <3>2, <2>2, <1>2, Zenon
        <4>2. Given(words, name) # {} => Asked(longer, name) = Asked(words, name)
          BY <3>2, <1>2, Zenon
        <4> QED BY <4>1, <4>2, <1>0, <1>8, Zenon
      <3> QED BY <3>1, <3>2
    <2>7. new[Flag] \in BOOLEAN /\ (new[Flag] <=> Flagged(longer))
      BY <2>2, <1>0, <1>1, <1>8, Zenon
    <2>8. ~Waits(longer)
      BY <1>1, <1>8, Zenon
    <2> HIDE DEF ok
    <2>9. CliSoFar(longer, q)
      BY <2>2, <2>3, <2>4, <2>5, <2>6, <2>7, <2>8, Zenon DEF CliSoFar
    <2> QED BY <2>1, <2>9, Zenon DEF longer, q
  <1>9. ASSUME p.ok, ~Waits(words), NEW name \in Valued
        PROVE  /\ Given(longer, name) = {} => a[name] = CliDefaults[name]
               /\ Given(longer, name) # {} =>
                    /\ a[name] = Value(name, Asked(longer, name))
                    /\ Accepts(name, Asked(longer, name))
    <2>1. Given(longer, name) = Given(words, name)
      BY <1>2, <1>9, Zenon
    <2>2. Given(words, name) # {} => Asked(longer, name) = Asked(words, name)
      BY <1>2, <1>9, Zenon
    <2> QED BY <2>1, <2>2, <1>0, <1>9, Zenon
  <1>10. CASE p.ok /\ ~Waits(words) /\ word.text = Flag
    <2> DEFINE new == [a EXCEPT ![Flag] = TRUE]
               q == Progress(new, <<>>, TRUE)
    <2>1. ReadWord(p, word) = q
      BY <1>0, <1>10, Zenon DEF ReadWord, NoInterpolation, Flag
    <2>2. DOMAIN new = DOMAIN CliDefaults /\ new[Flag] = TRUE /\ \A name \in Valued : new[name] = a[name]
      <3>1. DOMAIN a = DOMAIN CliDefaults
        BY <1>0, <1>10
      <3> HIDE DEF a
      <3> QED BY <1>6, <3>1
    <2>3. q.arguments = new /\ q.pending = <<>> /\ q.ok = TRUE
      BY DEF Progress
    <2> HIDE DEF new
    <2>4. q = Progress(q.arguments, q.pending, q.ok)
      BY <2>3, Zenon
    <2> HIDE DEF q
    <2>5. ~Waits(longer) /\ Flagged(longer)
      BY <1>1, <1>10, Zenon
    <2>6. new[Flag] \in BOOLEAN /\ (new[Flag] <=> Flagged(longer))
      BY <2>2, <2>5
    <2>7. CliSoFar(longer, q)
      <3>1. q.ok \in BOOLEAN
        BY <2>3
      <3>2. \A name \in Valued :
               /\ Given(longer, name) = {} => new[name] = CliDefaults[name]
               /\ Given(longer, name) # {} =>
                    /\ new[name] = Value(name, Asked(longer, name))
                    /\ Accepts(name, Asked(longer, name))
        BY <1>9, <1>10, <2>2, Zenon
      <3> QED BY <2>2, <2>3, <2>4, <2>5, <2>6, <3>1, <3>2, Zenon DEF CliSoFar
    <2> QED BY <2>1, <2>7, Zenon DEF longer
  <1>11. CASE p.ok /\ ~Waits(words) /\ word.text # Flag
    <2> DEFINE q == Progress(a, <<word.text>>, TRUE)
    <2>1. ReadWord(p, word) = q
      BY <1>0, <1>11, Zenon DEF ReadWord, Flag
    <2>3. q.arguments = a /\ q.pending = <<word.text>> /\ q.ok = TRUE
      BY DEF Progress
    <2> HIDE DEF a
    <2>4. q = Progress(q.arguments, q.pending, q.ok)
      BY <2>3, Zenon
    <2> HIDE DEF q
    <2>5. Waits(longer) /\ (Flagged(longer) <=> Flagged(words))
      BY <1>1, <1>11, Zenon
    <2>6. a[Flag] \in BOOLEAN /\ (a[Flag] <=> Flagged(longer)) /\ DOMAIN a = DOMAIN CliDefaults
      BY <1>0, <1>11, <2>5, Zenon
    <2>7. CliSoFar(longer, q)
      <3>1. q.ok \in BOOLEAN
        BY <2>3
      <3>2. \A name \in Valued :
               /\ Given(longer, name) = {} => a[name] = CliDefaults[name]
               /\ Given(longer, name) # {} =>
                    /\ a[name] = Value(name, Asked(longer, name))
                    /\ Accepts(name, Asked(longer, name))
        BY <1>9, <1>11, Zenon
      <3>3. q.pending = IF Waits(longer) THEN <<longer[Len(longer)].text>> ELSE <<>>
        BY <2>3, <2>5, <1>3, Zenon
      <3> QED BY <2>3, <2>4, <2>5, <2>6, <3>1, <3>2, <3>3, Zenon DEF CliSoFar
    <2> QED BY <2>1, <2>7, Zenon DEF longer
  <1> QED BY <1>0, <1>7, <1>8, <1>10, <1>11

LEMMA CliIs ==
  ASSUME NEW T, \A word \in T : IsWord(word)
  PROVE  \A words \in Seq(T) : CliSoFar(words, CliRead(words))
  <1> DEFINE S == {words \in Seq(T) : CliSoFar(words, CliRead(words))}
  <1>1. <<>> \in S
    <2> DEFINE q == Progress(CliDefaults, <<>>, TRUE)
    <2>1. q.arguments = CliDefaults /\ q.pending = <<>> /\ q.ok = TRUE
      BY DEF Progress
    <2>2. q = Progress(q.arguments, q.pending, q.ok)
      BY <2>1, Zenon
    <2> HIDE DEF q
    <2>3. ~Waits(<<>>) /\ ~Flagged(<<>>)
      <3>1. Len(<<>>) = 0 /\ DOMAIN <<>> = {} /\ ~(0 > 0)
        OBVIOUS
      <3> QED BY <3>1, Zenon DEF Waits, Flagged
    <2>4. \A name : Given(<<>>, name) = {}
      <3>1. Len(<<>>) = 0 /\ 2 .. 0 = {}
        OBVIOUS
      <3> QED BY <3>1, Zenon DEF Given
    <2>5. CliDefaults[Flag] = FALSE
      BY DEF CliDefaults, Flag, Numeric, Paths
    <2>6. q.ok \in BOOLEAN /\ q.arguments[Flag] \in BOOLEAN /\ (q.arguments[Flag] <=> Flagged(<<>>))
      BY <2>1, <2>3, <2>5
    <2>7. CliSoFar(<<>>, q)
      BY <2>1, <2>2, <2>3, <2>4, <2>6, Zenon DEF CliSoFar
    <2>8. CliRead(<<>>) = q
      BY CliReadIs DEF q
    <2>9. <<>> \in Seq(T)
      OBVIOUS
    <2> QED BY <2>7, <2>8, <2>9, Zenon
  <1>2. \A words \in Seq(T) : \A word \in T : words \in S => Append(words, word) \in S
    <2> SUFFICES ASSUME NEW words \in Seq(T), NEW word \in T, CliSoFar(words, CliRead(words))
                 PROVE  Append(words, word) \in S
      OBVIOUS
    <2>1. Append(words, word) \in Seq(T) /\ CliRead(Append(words, word)) = ReadWord(CliRead(words), word)
      BY CliReadIs, AppendProperties
    <2>2. CliSoFar(Append(words, word), ReadWord(CliRead(words), word))
      BY CliStep
    <2> QED BY <2>1, <2>2, Zenon
  <1> HIDE DEF S
  <1>3. Seq(T) \subseteq S
    BY <1>1, <1>2, TextFold!InductiveSequences
  <1> QED BY <1>3 DEF S

-----------------------------------------------------------------------------
\* strtoul() and the conversion to unsigned.

LEMMA StrtoulIs ==
  ASSUME NEW number \in Int
  PROVE  /\ Strtoul(number) \in Int /\ Strtoul(number) >= 0 /\ Strtoul(number) < LongRange
         /\ Strtoul(number) % UnsignedRange \in Int
  BY RangeAssumption DEF Strtoul

LEMMA RangesDivide ==
  \E k \in Int : k >= 1 /\ LongRange = UnsignedRange * k + 0
  <1>1. LongRange = UnsignedRange * (LongRange \div UnsignedRange) + (LongRange % UnsignedRange)
        /\ LongRange \div UnsignedRange \in Int
    BY RangeAssumption, DivMod
  <1> DEFINE k == LongRange \div UnsignedRange
  <1>2. k \in Int /\ LongRange = UnsignedRange * k + 0
    BY <1>1, RangeAssumption
  <1> HIDE DEF k
  <1>3. k >= 1
    <2>1. CASE k <= 0
      <3>1. UnsignedRange * k <= UnsignedRange * 0
        BY <1>2, <2>1, RangeAssumption, TimesOrder
      <3> QED BY <3>1, <1>2, RangeAssumption
    <2> QED BY <2>1, <1>2
  <1> QED BY <1>2, <1>3

\* What fits unsigned is kept.
LEMMA SmallKept ==
  ASSUME NEW number \in 1 .. UnsignedRange - 1
  PROVE  Strtoul(number) % UnsignedRange = number
  <1>1. UnsignedRange <= LongRange
    <2>1. PICK k \in Int : k >= 1 /\ LongRange = UnsignedRange * k + 0
      BY RangesDivide
    <2>2. UnsignedRange * 1 <= UnsignedRange * k
      BY <2>1, RangeAssumption, TimesOrder
    <2> QED BY <2>1, <2>2, RangeAssumption
  <1>2. number \in Int /\ number > 0 /\ number < UnsignedRange /\ number < LongRange
    BY <1>1, RangeAssumption
  <1>3. number % LongRange = number
    <2>1. number = LongRange * 0 + number
      BY <1>2, RangeAssumption
    <2> QED BY <2>1, <1>2, RangeAssumption, DivUnique
  <1>4. Strtoul(number) = number
    BY <1>2, <1>3, RangeAssumption DEF Strtoul
  <1>5. number % UnsignedRange = number
    <2>1. number = UnsignedRange * 0 + number
      BY <1>2, RangeAssumption
    <2> QED BY <2>1, <1>2, RangeAssumption, DivUnique
  <1> QED BY <1>4, <1>5

\* What is accepted becomes zero only as a multiple of a smaller range.
LEMMA ZeroWraps ==
  ASSUME NEW number \in Int, Strtoul(number) # 0, Strtoul(number) % UnsignedRange = 0
  PROVE  LongRange > UnsignedRange /\ number % UnsignedRange = 0 /\ number # 0
  <1> DEFINE U == UnsignedRange
             L == LongRange
             v == Strtoul(number)
  <1>1. PICK k \in Int : k >= 1 /\ L = U * k + 0
    BY RangesDivide
  <1>2. U \in Int /\ U > 1 /\ L \in Int /\ L > 0
    BY RangeAssumption
  <1>3. v \in Int /\ v >= 0 /\ v < L
    BY StrtoulIs
  <1>6. v = IF number >= L \/ number <= -L THEN L - 1 ELSE number % L
    BY DEF Strtoul
  <1>v. v % U = 0 /\ v # 0
    OBVIOUS
  <1> HIDE DEF U, L, v
  <1> DEFINE s == v \div U
  <1>4. s \in Int /\ v = U * s + (v % U)
    BY <1>2, <1>3, DivMod
  <1> HIDE DEF s
  <1>5. v = U * s
    BY <1>v, <1>2, <1>4
  <1>7. ~(number >= L \/ number <= -L)
    <2> SUFFICES ASSUME v = L - 1 PROVE FALSE
      BY <1>6
    <2>1. U * (k - s) = 1
      BY <1>1, <1>2, <1>4, <1>5, SMT
    <2>2. CASE k - s <= 0
      <3>1. U * (k - s) <= U * 0
        BY <2>2, <1>1, <1>2, <1>4, TimesOrder
      <3> QED BY <2>1, <3>1, <1>2
    <2>3. CASE k - s >= 1
      <3>1. U * 1 <= U * (k - s)
        BY <2>3, <1>1, <1>2, <1>4, TimesOrder
      <3> QED BY <2>1, <3>1, <1>2
    <2> QED BY <2>2, <2>3, <1>1, <1>4
  <1>8. v = number % L
    BY <1>6, <1>7
  <1> DEFINE q == number \div L
  <1>9. q \in Int /\ number = L * q + v
    BY <1>2, <1>8, DivMod
  <1> HIDE DEF q
  <1>10. number % U = 0
    <2>1. number = U * (k * q + s) + 0 /\ k * q + s \in Int
      <3>1. k * q \in Int
        BY <1>1, <1>9, SMT
      <3>2. (U * k) * q = U * (k * q)
        BY <1>1, <1>2, <1>9, SMT
      <3>3. number = (U * k) * q + U * s
        BY <1>1, <1>2, <1>5, <1>9
      <3>4. U * (k * q + s) = U * (k * q) + U * s
        BY <1>1, <1>2, <1>4, <1>9, <3>1, SMT
      <3> QED BY <3>1, <3>2, <3>3, <3>4, <1>2, <1>4, <1>9
    <2> DEFINE m == k * q + s
    <2> HIDE DEF m
    <2>2. number = U * m + 0 /\ m \in Int
      BY <2>1 DEF m
    <2> QED BY <2>2, <1>2, DivUnique
  <1>11. number # 0
    <2> SUFFICES ASSUME number = 0 PROVE FALSE
      OBVIOUS
    <2>1. number = L * 0 + 0
      BY <1>2
    <2>2. number % L = 0
      BY <2>1, <1>2, DivUnique
    <2> QED BY <2>2, <1>8, <1>v
  <1>12. L > U
    <2> SUFFICES ASSUME L <= U PROVE FALSE
      BY <1>2
    <2>1. s < 1
      <3> SUFFICES ASSUME s >= 1 PROVE FALSE
        BY <1>4
      <3>1. U * 1 <= U * s
        BY <1>2, <1>4, TimesOrder
      <3> QED BY <3>1, <1>2, <1>3, <1>5
    <2>2. s >= 0
      <3> SUFFICES ASSUME s <= -1 PROVE FALSE
        BY <1>4
      <3>1. U * s <= U * (-1)
        BY <1>2, <1>4, TimesOrder
      <3> QED BY <3>1, <1>2, <1>3, <1>5
    <2>3. s = 0
      BY <1>4, <2>1, <2>2
    <2> QED BY <2>3, <1>2, <1>5, <1>v
  <1> QED BY <1>10, <1>11, <1>12 DEF L, U

-----------------------------------------------------------------------------

LEMMA ParsedIs ==
  ASSUME NEW T, \A word \in T : IsWord(word), NEW words \in Seq(T)
  PROVE  LET parsed == ParseArguments(words) IN
         /\ parsed.arguments = CliRead(words).arguments
         /\ parsed.ok <=> /\ CliRead(words).ok /\ CliRead(words).pending = <<>>
                          /\ \A option \in Sizes : CliRead(words).arguments[option] # 0
         /\ parsed.ok \in BOOLEAN
  <1> DEFINE p == CliRead(words)
             all == /\ p.ok /\ p.pending = <<>>
                    /\ \A option \in Sizes : p.arguments[option] # 0
  <1>1. p = Progress(p.arguments, p.pending, p.ok) /\ p.ok \in BOOLEAN
    BY CliIs, Zenon DEF CliSoFar
  <1>2. ParseArguments(words) = [p EXCEPT !.ok = all]
    BY Zenon DEF ParseArguments, CliRead
  <1> HIDE DEF p, all
  <1>3. DOMAIN p = {"arguments", "pending", "ok"}
    BY <1>1 DEF Progress
  <1>4. [p EXCEPT !.ok = all].arguments = p.arguments /\ [p EXCEPT !.ok = all].ok = all
    BY <1>3
  <1>5. all \in BOOLEAN
    BY DEF all
  <1> QED BY <1>2, <1>4, <1>5, Zenon DEF p, all

\* swave_cli takes its arguments as they are meant.
THEOREM CliUnderstands ==
  ASSUME NEW T, \A word \in T : IsWord(word), NEW words \in Seq(T)
  PROVE  RunsAsAsked(words)
  <1> DEFINE p == CliRead(words)
             a == p.arguments
             asked(name) == words[Latest(Given(words, name))]
  <1>1. CliSoFar(words, p)
    BY CliIs
  <1> HIDE DEF p
  <1> SUFFICES ASSUME ParseArguments(words).ok
      PROVE  /\ \A name \in Numeric : Given(words, name) # {} =>
                  /\ asked(name).whole
                  /\ asked(name).number \in 1 .. UnsignedRange - 1 => a[name] = asked(name).number
                  /\ a[name] = 0 =>
                        /\ name = "--fps" /\ LongRange > UnsignedRange
                        /\ asked(name).number % UnsignedRange = 0 /\ asked(name).number # 0
             /\ \A name \in Numeric \cup Paths \cup {"--provider"} :
                  Given(words, name) = {} => a[name] = CliDefaults[name]
             /\ \A name \in Paths \cup {"--provider"} :
                  Given(words, name) # {} => a[name] = asked(name).text
             /\ a["--no-interpolation"] =
                  \E i \in DOMAIN words : IsOption(words)[i] /\ words[i].text = "--no-interpolation"
    <2>1. ParseArguments(words).arguments = a
      BY ParsedIs DEF p
    <2> HIDE DEF a
    <2> QED BY <2>1, Zenon DEF RunsAsAsked
  <1>2. p.ok /\ \A option \in Sizes : a[option] # 0
    BY ParsedIs, Zenon DEF p
  <1>3. /\ a[Flag] \in BOOLEAN /\ (a[Flag] <=> Flagged(words))
        /\ \A name \in Valued :
             /\ Given(words, name) = {} => a[name] = CliDefaults[name]
             /\ Given(words, name) # {} =>
                  /\ a[name] = Value(name, asked(name))
                  /\ Accepts(name, asked(name)) /\ asked(name) \in T
    BY <1>1, <1>2, AskedIn, Zenon DEF CliSoFar, Asked
  <1> HIDE DEF a, asked
  <1>4. ASSUME NEW name \in Numeric, Given(words, name) # {}
        PROVE  /\ asked(name).whole
               /\ asked(name).number \in 1 .. UnsignedRange - 1 => a[name] = asked(name).number
               /\ a[name] = 0 =>
                    /\ name = "--fps" /\ LongRange > UnsignedRange
                    /\ asked(name).number % UnsignedRange = 0 /\ asked(name).number # 0
    <2> DEFINE number == asked(name).number
    <2>1. name \in Valued
      BY DEF Valued
    <2>2. /\ a[name] = Value(name, asked(name)) /\ Accepts(name, asked(name))
          /\ IsWord(asked(name))
      BY <1>3, <1>4, <2>1, Zenon
    <2>3. asked(name).whole /\ Strtoul(number) # 0
      BY <2>2, Zenon DEF Accepts, Parses
    <2>4. a[name] = Strtoul(number) % UnsignedRange
      BY <2>2, Zenon DEF Value, Unsigned
    <2>5. number \in Int
      BY <2>2, Zenon DEF IsWord
    <2> HIDE DEF number
    <2>6. number \in 1 .. UnsignedRange - 1 => a[name] = number
      BY <2>4, SmallKept, Zenon
    <2>7. ASSUME a[name] = 0
          PROVE  /\ name = "--fps" /\ LongRange > UnsignedRange
                 /\ number % UnsignedRange = 0 /\ number # 0
      <3>1. name \notin Sizes
        BY <2>7, <1>2, Zenon
      <3>2. name = "--fps"
        BY <3>1 DEF Numeric, Sizes
      <3>3. Strtoul(number) % UnsignedRange = 0
        BY <2>4, <2>7, Zenon
      <3> QED BY <3>2, <3>3, <2>3, <2>5, ZeroWraps
    <2> QED BY <2>3, <2>6, <2>7, Zenon DEF number
  <1>5. ASSUME NEW name \in Paths \cup {"--provider"}, Given(words, name) # {}
        PROVE  a[name] = asked(name).text
    <2>1. name \in Valued /\ name \notin Numeric
      BY DEF Valued, Numeric, Paths
    <2> QED BY <2>1, <1>3, <1>5, Zenon DEF Value
  <1>6. a["--no-interpolation"] =
          \E i \in DOMAIN words : IsOption(words)[i] /\ words[i].text = "--no-interpolation"
    <2>1. Flagged(words) <=>
            \E i \in DOMAIN words : IsOption(words)[i] /\ words[i].text = "--no-interpolation"
      BY Zenon DEF Flagged, Flag
    <2>2. a["--no-interpolation"] \in BOOLEAN /\ (a["--no-interpolation"] <=> Flagged(words))
      BY <1>3, Zenon DEF Flag
    <2> QED BY <2>1, <2>2
  <1>7. \A name \in Numeric \cup Paths \cup {"--provider"} :
          Given(words, name) = {} => a[name] = CliDefaults[name]
    BY <1>3, Zenon DEF Valued
  <1> QED BY <1>4, <1>5, <1>6, <1>7, Zenon

-----------------------------------------------------------------------------
\* swave_app, word by word.

\* The value swave_cli has for an option, of words it has not refused.
CliValue(words, name) ==
  IF Given(words, name) = {} THEN CliDefaults[name] ELSE Value(name, Asked(words, name))

\* What is said about a command line that both programs read in the same way.
Comparable(words) ==
  /\ CliRead(words).ok
  /\ \A i \in DOMAIN words : IsOption(words)[i] => words[i].text \in DOMAIN CliDefaults
  /\ \A name \in Paths : \A i \in Given(words, name) : words[i].text # ""
  /\ \A i, j \in Given(words, "--provider") : i = j

OneOrNone(text) == IF text = "" THEN <<>> ELSE <<text>>

AppOptions(provider, upscaler, interpolator) ==
  [provider |-> provider, upscaler |-> upscaler, interpolator |-> interpolator]

SameOptions(words, options) ==
  options = AppOptions(CliValue(words, "--provider"),
                       OneOrNone(CliValue(words, "--upscaler-manifest")),
                       OneOrNone(CliValue(words, "--interpolator-manifest")))

\* swave_app refuses nothing.
Taken(options, pending) == Progress(options, pending, TRUE)

AppPending(words) ==
  IF Waits(words) /\ words[Len(words)].text \in AppOptionNames
  THEN <<words[Len(words)].text>> ELSE <<>>

AppSoFar(words, a) ==
  Comparable(words) =>
    \E options : SameOptions(words, options) /\ a = Taken(options, AppPending(words))

LEMMA AppNames ==
  /\ AppOptionNames = {"--provider", "--upscaler-manifest", "--interpolator-manifest"}
  /\ AppOptionNames \subseteq Valued /\ Flag \notin AppOptionNames
  /\ \A name \in Valued : name \notin AppOptionNames => name \in Numeric
  /\ \A name \in AppOptionNames : name \notin Numeric
  /\ AppOptionNames \subseteq DOMAIN CliDefaults
  <1>1. AppOptionNames = {"--provider", "--upscaler-manifest", "--interpolator-manifest"}
    BY DEF AppOptionNames, Paths
  <1>2. DOMAIN CliDefaults = Valued \cup {Flag}
    BY NamesAre
  <1> QED BY <1>1, <1>2 DEF Valued, Flag, Numeric, Paths

LEMMA TakenIs ==
  ASSUME NEW options, NEW pending
  PROVE  Taken(options, pending).arguments = options /\ Taken(options, pending).pending = pending
  BY DEF Taken, Progress

LEMMA CliValueAppend ==
  ASSUME NEW T, NEW words \in Seq(T), NEW word \in T, NEW name \in Valued
  PROVE  CliValue(Append(words, word), name) =
            IF Waits(words) /\ words[Len(words)].text = name THEN Value(name, word)
            ELSE CliValue(words, name)
  <1> DEFINE longer == Append(words, word)
             takes == Waits(words) /\ words[Len(words)].text = name
  <1>1. /\ takes => Given(longer, name) # {} /\ Asked(longer, name) = word
        /\ ~takes => /\ Given(longer, name) = Given(words, name)
                     /\ Given(words, name) # {} => Asked(longer, name) = Asked(words, name)
    BY AskedAppend
  <1> HIDE DEF longer, takes
  <1>2. CASE takes
    BY <1>1, <1>2, Zenon DEF CliValue, longer, takes
  <1>3. CASE ~takes
    <2>1. CliValue(longer, name) = CliValue(words, name)
      BY <1>1, <1>3, Zenon DEF CliValue
    <2> QED BY <2>1, <1>3, Zenon DEF longer, takes
  <1> QED BY <1>2, <1>3

LEMMA ComparableBefore ==
  ASSUME NEW T, \A word \in T : IsWord(word), NEW words \in Seq(T), NEW word \in T,
         Comparable(Append(words, word))
  PROVE  /\ Comparable(words)
         /\ Waits(words) =>
              LET option == words[Len(words)].text IN
              /\ option \in Valued /\ Accepts(option, word)
              /\ option \in Paths => word.text # ""
              /\ option = "--provider" => Given(words, option) = {}
  <1> DEFINE longer == Append(words, word)
             n == Len(words)
             option == words[n].text
             p == CliRead(words)
  <1>1. /\ n \in Nat /\ DOMAIN words = 1 .. n /\ DOMAIN longer = 1 .. n + 1 /\ longer \in Seq(T)
        /\ longer[n + 1] = word /\ \A i \in 1 .. n : longer[i] = words[i]
    BY WordsAppend
  <1>2. \A i \in 0 .. n : IsOption(longer)[i] = IsOption(words)[i]
    BY OptionAppend
  <1>3. /\ \A i \in 1 .. n : i \in 0 .. n /\ i \in 1 .. n + 1
        /\ n > 0 => n \in 1 .. n
    BY <1>1
  <1>4. \A name \in Valued : Given(words, name) \in SUBSET (1 .. n)
    BY GivenAppend
  <1>5. \A name \in Valued :
          /\ Given(words, name) \subseteq Given(longer, name)
          /\ Waits(words) /\ option = name => /\ n + 1 \in Given(longer, name)
                                              /\ n + 1 \notin Given(words, name)
                                              /\ Given(longer, name) # {}
                                              /\ Asked(longer, name) = word
    <2> SUFFICES ASSUME NEW name \in Valued
        PROVE  /\ Given(words, name) \subseteq Given(longer, name)
               /\ Waits(words) /\ option = name => /\ n + 1 \in Given(longer, name)
                                                   /\ n + 1 \notin Given(words, name)
                                                   /\ Given(longer, name) # {}
                                                   /\ Asked(longer, name) = word
      OBVIOUS
    <2> DEFINE takes == Waits(words) /\ option = name
    <2>1. /\ takes => /\ Given(longer, name) = Given(words, name) \cup {n + 1}
                      /\ n + 1 \notin Given(words, name)
                      /\ Given(longer, name) # {} /\ Asked(longer, name) = word
          /\ ~takes => Given(longer, name) = Given(words, name)
      BY AskedAppend
    <2> HIDE DEF longer, n, takes
    <2>2. CASE takes
      BY <2>1, <2>2, Zenon DEF takes
    <2>3. CASE ~takes
      BY <2>1, <2>3, Zenon DEF takes
    <2> QED BY <2>2, <2>3
  <1>6. /\ CliRead(longer).ok
        /\ \A i \in DOMAIN longer : IsOption(longer)[i] => longer[i].text \in DOMAIN CliDefaults
        /\ \A name \in Paths : \A i \in Given(longer, name) : longer[i].text # ""
        /\ \A i, j \in Given(longer, "--provider") : i = j
    BY Zenon DEF Comparable
  <1>7. p.ok
    <2>1. CliRead(longer) = ReadWord(p, word)
      BY CliReadIs
    <2>2. CASE ~p.ok
      <3>1. ReadWord(p, word) = p
        BY <2>2, Zenon DEF ReadWord
      <3> QED BY <2>1, <2>2, <3>1, <1>6, Zenon
    <2> QED BY <2>2
  <1>8. CliSoFar(longer, CliRead(longer))
    BY <1>1, CliIs
  <1> HIDE DEF longer, n, option, p
  <1>9. \A i \in DOMAIN words : IsOption(words)[i] => words[i].text \in DOMAIN CliDefaults
    BY <1>1, <1>2, <1>3, <1>6, Zenon
  <1>10. Paths \subseteq Valued /\ "--provider" \in Valued
    BY DEF Valued
  <1>11. \A name \in Paths : \A i \in Given(words, name) : words[i].text # ""
    BY <1>1, <1>4, <1>5, <1>6, <1>10
  <1>12. \A i, j \in Given(words, "--provider") : i = j
    BY <1>5, <1>6, <1>10, Zenon
  <1>13. Comparable(words)
    BY <1>7, <1>9, <1>11, <1>12, Zenon DEF Comparable, p
  <1>14. ASSUME Waits(words)
         PROVE  /\ option \in Valued /\ Accepts(option, word)
                /\ option \in Paths => word.text # ""
                /\ option = "--provider" => Given(words, option) = {}
    <2>1. n > 0 /\ IsOption(words)[n] /\ option # Flag
      BY <1>14, Zenon DEF Waits, n, option
    <2>2. option \in DOMAIN CliDefaults
      BY <2>1, <1>1, <1>3, <1>9, Zenon DEF option
    <2>3. option \in Valued
      BY <2>1, <2>2, NamesAre, Zenon
    <2>4. Given(longer, option) # {} /\ Asked(longer, option) = word /\ n + 1 \in Given(longer, option)
          /\ n + 1 \notin Given(words, option)
      BY <2>3, <1>5, <1>14, Zenon
    <2>5. Accepts(option, word)
      BY <2>3, <2>4, <1>6, <1>8, Zenon DEF CliSoFar
    <2>6. option \in Paths => word.text # ""
      BY <2>4, <1>1, <1>6, Zenon
    <2>7. ASSUME option = "--provider" PROVE Given(words, option) = {}
      <3>1. \A i \in Given(words, option) : i = n + 1
        BY <2>3, <2>4, <2>7, <1>5, <1>6, Zenon
      <3> QED BY <3>1, <2>4, Zenon
    <2> QED BY <2>3, <2>5, <2>6, <2>7
  <1> QED BY <1>13, <1>14, Zenon DEF n, option

\* What one option of swave_app takes.
LEMMA AppAssignedIs ==
  ASSUME NEW p, NEW u, NEW i, NEW word
  PROVE  /\ AppAssigned(AppOptions(p, u, i), "--provider", word) =
              AppOptions(IF word.text \in {"tensorrt", "cuda"} THEN word.text ELSE p, u, i)
         /\ AppAssigned(AppOptions(p, u, i), "--upscaler-manifest", word) =
              AppOptions(p, <<word.text>>, i)
         /\ AppAssigned(AppOptions(p, u, i), "--interpolator-manifest", word) =
              AppOptions(p, u, <<word.text>>)
  <1> DEFINE options == AppOptions(p, u, i)
  <1>1. /\ \A v : [options EXCEPT !.provider = v] = AppOptions(v, u, i)
        /\ \A v : [options EXCEPT !.upscaler = v] = AppOptions(p, v, i)
        /\ \A v : [options EXCEPT !.interpolator = v] = AppOptions(p, u, v)
    BY DEF AppOptions
  <1>3. /\ "--provider" # "--upscaler-manifest" /\ "--provider" # "--interpolator-manifest"
        /\ "--upscaler-manifest" # "--interpolator-manifest"
    OBVIOUS
  <1>4. AppAssigned(options, "--upscaler-manifest", word) = [options EXCEPT !.upscaler = <<word.text>>]
    BY <1>3, Zenon DEF AppAssigned
  <1>5. AppAssigned(options, "--interpolator-manifest", word) = [options EXCEPT !.interpolator = <<word.text>>]
    BY <1>3, Zenon DEF AppAssigned
  <1>6. CASE word.text \in {"tensorrt", "cuda"}
    <2>1. AppAssigned(options, "--provider", word) = [options EXCEPT !.provider = word.text]
      BY <1>3, <1>6, Zenon DEF AppAssigned
    <2> QED BY <2>1, <1>1, <1>4, <1>5, <1>6, Zenon
  <1>7. CASE word.text \notin {"tensorrt", "cuda"}
    <2>1. AppAssigned(options, "--provider", word) = options
      BY <1>3, <1>7, Zenon DEF AppAssigned
    <2> QED BY <2>1, <1>1, <1>4, <1>5, <1>7, Zenon
  <1> QED BY <1>6, <1>7

LEMMA AppAssignedTo ==
  ASSUME NEW options, NEW p, NEW u, NEW i, NEW word, options = AppOptions(p, u, i)
  PROVE  /\ AppAssigned(options, "--provider", word) =
              AppOptions(IF word.text \in {"tensorrt", "cuda"} THEN word.text ELSE p, u, i)
         /\ AppAssigned(options, "--upscaler-manifest", word) =
              AppOptions(p, <<word.text>>, i)
         /\ AppAssigned(options, "--interpolator-manifest", word) =
              AppOptions(p, u, <<word.text>>)
  <1>1. \A o : o = AppOptions(p, u, i) =>
          /\ AppAssigned(o, "--provider", word) = AppAssigned(AppOptions(p, u, i), "--provider", word)
          /\ AppAssigned(o, "--upscaler-manifest", word) =
               AppAssigned(AppOptions(p, u, i), "--upscaler-manifest", word)
          /\ AppAssigned(o, "--interpolator-manifest", word) =
               AppAssigned(AppOptions(p, u, i), "--interpolator-manifest", word)
    <2> TAKE o
    <2> HAVE o = AppOptions(p, u, i)
    <2> QED OBVIOUS
  <1> QED BY <1>1, AppAssignedIs

LEMMA TakenOf ==
  ASSUME NEW arguments, NEW options, NEW pending, arguments = Taken(options, pending)
  PROVE  arguments.arguments = options /\ arguments.pending = pending
  BY DEF Taken, Progress

LEMMA AppStep ==
  ASSUME NEW T, \A word \in T : IsWord(word), NEW words \in Seq(T), NEW word \in T,
         NEW a, AppSoFar(words, a)
  PROVE  AppSoFar(Append(words, word), AppReadWord(a, word))
  <1> DEFINE longer == Append(words, word)
             n == Len(words)
             option == words[n].text
  <1> SUFFICES ASSUME Comparable(longer)
      PROVE  \E options : SameOptions(longer, options)
                          /\ AppReadWord(a, word) = Taken(options, AppPending(longer))
    BY Zenon DEF AppSoFar
  <1>1. /\ Comparable(words)
        /\ Waits(words) => /\ option \in Valued /\ Accepts(option, word)
                           /\ option \in Paths => word.text # ""
                           /\ option = "--provider" => Given(words, option) = {}
    BY ComparableBefore
  <1>2. PICK options : SameOptions(words, options) /\ a = Taken(options, AppPending(words))
    BY <1>1, Zenon DEF AppSoFar
  <1>3. a.arguments = options /\ a.pending = AppPending(words)
    BY <1>2, TakenIs, Zenon
  <1>4. \A name \in Valued :
          CliValue(longer, name) = IF Waits(words) /\ option = name THEN Value(name, word)
                                   ELSE CliValue(words, name)
    BY CliValueAppend
  <1>5. Waits(longer) <=> ~Waits(words) /\ word.text # Flag
    BY WaitsAppend
  <1>6. Len(longer) = n + 1 /\ longer[n + 1] = word
    BY WordsAppend
  <1>7. "--provider" \in Valued /\ "--upscaler-manifest" \in Valued /\ "--interpolator-manifest" \in Valued
    BY NamesAre
  <1>8. \A text : <<text>> # <<>> /\ <<text>>[1] = text
    OBVIOUS
  <1>9. IsWord(word)
    OBVIOUS
  <1> HIDE DEF longer, n, option
  <1>10. AppPending(longer) = IF ~Waits(words) /\ word.text \in AppOptionNames THEN <<word.text>> ELSE <<>>
    <2>1. word.text \in AppOptionNames => word.text # Flag
      BY AppNames, Zenon
    <2>2. AppPending(longer) = IF Waits(longer) /\ word.text \in AppOptionNames THEN <<word.text>> ELSE <<>>
      BY <1>6, Zenon DEF AppPending
    <2> QED BY <2>1, <2>2, <1>5, Zenon
  <1>11. ASSUME ~(Waits(words) /\ option \in AppOptionNames)
         PROVE  SameOptions(longer, options)
    <2>1. \A name \in AppOptionNames : CliValue(longer, name) = CliValue(words, name)
      BY <1>4, <1>11, AppNames, Zenon
    <2>2. /\ CliValue(longer, "--provider") = CliValue(words, "--provider")
          /\ CliValue(longer, "--upscaler-manifest") = CliValue(words, "--upscaler-manifest")
          /\ CliValue(longer, "--interpolator-manifest") = CliValue(words, "--interpolator-manifest")
      <3>1. /\ "--provider" \in AppOptionNames /\ "--upscaler-manifest" \in AppOptionNames
            /\ "--interpolator-manifest" \in AppOptionNames
        BY AppNames
      <3> QED BY <2>1, <3>1, Zenon
    <2> QED BY <2>2, <1>2, Zenon DEF SameOptions
  <1>12. CASE ~Waits(words)
    <2>1. a.pending = <<>>
      BY <1>3, <1>12, Zenon DEF AppPending
    <2>2. AppReadWord(a, word) =
            Taken(options, IF word.text \in AppOptionNames THEN <<word.text>> ELSE <<>>)
      BY <2>1, <1>3, Zenon DEF AppReadWord, Taken
    <2>3. AppReadWord(a, word) = Taken(options, AppPending(longer))
      BY <2>2, <1>10, <1>12, Zenon
    <2> QED BY <2>3, <1>11, <1>12, Zenon
  <1>13. CASE Waits(words) /\ option \notin AppOptionNames
    <2>1. a.pending = <<>>
      BY <1>3, <1>13, Zenon DEF AppPending, n, option
    <2>2. option \in Numeric
      BY <1>1, <1>13, AppNames, Zenon
    <2>3. word.text \notin AppOptionNames
      <3>1. word.whole
        BY <2>2, <1>1, <1>13, Zenon DEF Accepts, Parses
      <3>2. word.text \notin DOMAIN CliDefaults
        BY <3>1, <1>9, Zenon DEF IsWord
      <3> QED BY <3>2, AppNames, Zenon
    <2>4. AppReadWord(a, word) = Taken(options, <<>>)
      BY <2>1, <2>3, <1>3, Zenon DEF AppReadWord, Taken
    <2>5. AppReadWord(a, word) = Taken(options, AppPending(longer))
      BY <2>4, <1>10, <1>13, Zenon
    <2> QED BY <2>5, <1>11, <1>13, Zenon
  <1>14. CASE Waits(words) /\ option \in AppOptionNames
    <2> DEFINE new == AppAssigned(options, option, word)
    <2>1. a.pending = <<option>>
      BY <1>3, <1>14, Zenon DEF AppPending, n, option
    <2>2. AppReadWord(a, word) = Taken(new, <<>>)
      BY <2>1, <1>3, <1>8, Zenon DEF AppReadWord, Taken
    <2>3. AppPending(longer) = <<>>
      BY <1>10, <1>14, Zenon
    <2>4. Value(option, word) = word.text
      BY <1>14, AppNames, Zenon DEF Value
    <2> DEFINE provider == CliValue(words, "--provider")
               upscaler == OneOrNone(CliValue(words, "--upscaler-manifest"))
               interpolator == OneOrNone(CliValue(words, "--interpolator-manifest"))
    <2>5. options = AppOptions(provider, upscaler, interpolator)
      BY <1>2, Zenon DEF SameOptions
    <2>6. SameOptions(longer, new)
      <3>0. /\ "--provider" # "--upscaler-manifest" /\ "--provider" # "--interpolator-manifest"
            /\ "--upscaler-manifest" # "--interpolator-manifest"
        OBVIOUS
      <3>a. /\ AppAssigned(options, "--provider", word) =
                 AppOptions(IF word.text \in {"tensorrt", "cuda"} THEN word.text ELSE provider, upscaler, interpolator)
            /\ AppAssigned(options, "--upscaler-manifest", word) =
                 AppOptions(provider, <<word.text>>, interpolator)
            /\ AppAssigned(options, "--interpolator-manifest", word) =
                 AppOptions(provider, upscaler, <<word.text>>)
        <4> HIDE DEF provider, upscaler, interpolator
        <4> QED BY ONLY <2>5, AppAssignedTo
      <3>1. CASE option = "--provider"
        <4>1. Given(words, "--provider") = {}
          BY <3>1, <1>1, <1>14, Zenon
        <4>2. provider = "fake"
          <5>1. CliDefaults["--provider"] = "fake"
            BY DEF CliDefaults, Numeric, Paths
          <5> QED BY <4>1, <5>1, Zenon DEF CliValue
        <4>3. word.text \in {"fake", "tensorrt", "cuda"}
          BY <3>1, <1>1, <1>14, Zenon DEF Accepts
        <4>4. (IF word.text \in {"tensorrt", "cuda"} THEN word.text ELSE provider) = word.text
          <5> HIDE DEF provider
          <5> QED BY <4>2, <4>3, Zenon
        <4>5. /\ CliValue(longer, "--provider") = word.text
              /\ CliValue(longer, "--upscaler-manifest") = CliValue(words, "--upscaler-manifest")
              /\ CliValue(longer, "--interpolator-manifest") = CliValue(words, "--interpolator-manifest")
          BY <3>0, <3>1, <2>4, <1>4, <1>7, <1>14, Zenon
        <4> HIDE DEF provider, upscaler, interpolator
        <4>6. new = AppOptions(word.text, upscaler, interpolator)
          BY <3>1, <3>a, <4>4, Zenon
        <4> HIDE DEF new
        <4> QED BY <4>5, <4>6, Zenon DEF SameOptions, upscaler, interpolator
      <3>2. CASE option = "--upscaler-manifest"
        <4>1. word.text # ""
          BY <3>2, <1>1, <1>14, Zenon DEF Paths
        <4>2. OneOrNone(word.text) = <<word.text>>
          BY <4>1, Zenon DEF OneOrNone
        <4>5. /\ CliValue(longer, "--provider") = CliValue(words, "--provider")
              /\ CliValue(longer, "--upscaler-manifest") = word.text
              /\ CliValue(longer, "--interpolator-manifest") = CliValue(words, "--interpolator-manifest")
          BY <3>0, <3>2, <2>4, <1>4, <1>7, <1>14, Zenon
        <4> HIDE DEF provider, upscaler, interpolator
        <4>6. new = AppOptions(provider, <<word.text>>, interpolator)
          BY <3>2, <3>a, Zenon
        <4> HIDE DEF new
        <4> QED BY <4>2, <4>5, <4>6, Zenon DEF SameOptions, provider, interpolator
      <3>3. CASE option = "--interpolator-manifest"
        <4>1. word.text # ""
          BY <3>3, <1>1, <1>14, Zenon DEF Paths
        <4>2. OneOrNone(word.text) = <<word.text>>
          BY <4>1, Zenon DEF OneOrNone
        <4>5. /\ CliValue(longer, "--provider") = CliValue(words, "--provider")
              /\ CliValue(longer, "--upscaler-manifest") = CliValue(words, "--upscaler-manifest")
              /\ CliValue(longer, "--interpolator-manifest") = word.text
          BY <3>0, <3>3, <2>4, <1>4, <1>7, <1>14, Zenon
        <4> HIDE DEF provider, upscaler, interpolator
        <4>6. new = AppOptions(provider, upscaler, <<word.text>>)
          BY <3>3, <3>a, Zenon
        <4> HIDE DEF new
        <4> QED BY <4>2, <4>5, <4>6, Zenon DEF SameOptions, provider, upscaler
      <3> QED BY <3>1, <3>2, <3>3, <1>14, AppNames
    <2> QED BY <2>2, <2>3, <2>6, Zenon
  <1> QED BY <1>12, <1>13, <1>14

LEMMA AppIs ==
  ASSUME NEW T, \A word \in T : IsWord(word)
  PROVE  \A words \in Seq(T) : AppSoFar(words, AppRead(words))
  <1> DEFINE S == {words \in Seq(T) : AppSoFar(words, AppRead(words))}
  <1>1. <<>> \in S
    <2>1. AppRead(<<>>) = Taken(AppDefaults, <<>>)
      BY AppReadIs, Zenon DEF Taken
    <2>2. AppPending(<<>>) = <<>>
      <3>1. Len(<<>>) = 0 /\ ~(0 > 0)
        OBVIOUS
      <3> QED BY <3>1, Zenon DEF AppPending, Waits
    <2>3. \A name \in Valued : CliValue(<<>>, name) = CliDefaults[name]
      <3>1. Len(<<>>) = 0 /\ 2 .. 0 = {}
        OBVIOUS
      <3> QED BY <3>1, Zenon DEF CliValue, Given
    <2>4. /\ CliDefaults["--provider"] = "fake" /\ CliDefaults["--upscaler-manifest"] = ""
          /\ CliDefaults["--interpolator-manifest"] = ""
      BY DEF CliDefaults, Numeric, Paths
    <2>5. "--provider" \in Valued /\ "--upscaler-manifest" \in Valued /\ "--interpolator-manifest" \in Valued
      BY NamesAre
    <2>6. SameOptions(<<>>, AppDefaults)
      BY <2>3, <2>4, <2>5, Zenon DEF SameOptions, OneOrNone, AppOptions, AppDefaults
    <2>7. <<>> \in Seq(T)
      OBVIOUS
    <2>8. AppSoFar(<<>>, AppRead(<<>>))
      BY <2>1, <2>2, <2>6, Zenon DEF AppSoFar
    <2> QED BY <2>7, <2>8, Zenon
  <1>2. \A words \in Seq(T) : \A word \in T : words \in S => Append(words, word) \in S
    <2> SUFFICES ASSUME NEW words \in Seq(T), NEW word \in T, AppSoFar(words, AppRead(words))
                 PROVE  Append(words, word) \in S
      OBVIOUS
    <2>1. Append(words, word) \in Seq(T) /\ AppRead(Append(words, word)) = AppReadWord(AppRead(words), word)
      BY AppReadIs, AppendProperties
    <2>2. AppSoFar(Append(words, word), AppReadWord(AppRead(words), word))
      BY AppStep
    <2> QED BY <2>1, <2>2, Zenon
  <1> HIDE DEF S
  <1>3. Seq(T) \subseteq S
    BY <1>1, <1>2, TextFold!InductiveSequences
  <1> QED BY <1>3 DEF S

\* swave_app understands a command line as swave_cli does.
THEOREM AppUnderstandsAsCli ==
  ASSUME NEW T, \A word \in T : IsWord(word), NEW words \in Seq(T)
  PROVE  ProgramsAgree(words)
  <1> DEFINE parsed == ParseArguments(words)
             app == ParseOptions(words)
             optional(name) == IF parsed.arguments[name] = "" THEN <<>> ELSE <<parsed.arguments[name]>>
  <1> SUFFICES ASSUME parsed.ok,
                      \A i \in DOMAIN words : IsOption(words)[i] => words[i].text \in DOMAIN CliDefaults,
                      \A name \in Paths : \A i \in Given(words, name) : words[i].text # "",
                      \A i, j \in Given(words, "--provider") : i = j
      PROVE  /\ app.provider = parsed.arguments["--provider"]
             /\ app.upscaler = optional("--upscaler-manifest")
             /\ app.interpolator = optional("--interpolator-manifest")
    BY Zenon DEF ProgramsAgree
  <1>1. CliRead(words).ok /\ parsed.arguments = CliRead(words).arguments
    BY ParsedIs, Zenon
  <1>2. Comparable(words)
    BY <1>1, Zenon DEF Comparable
  <1>3. PICK options : SameOptions(words, options)
                       /\ AppRead(words) = Taken(options, AppPending(words))
    BY <1>2, AppIs, Zenon DEF AppSoFar
  <1>4. app = options
    <2>1. app = AppRead(words).arguments
      BY Zenon DEF ParseOptions, AppRead
    <2>2. AppRead(words).arguments = options
      <3>1. AppRead(words) = Taken(options, AppPending(words))
        BY <1>3
      <3> QED BY ONLY <3>1, TakenOf
    <2> QED BY <2>1, <2>2, Zenon
  <1>5. \A name \in Valued : parsed.arguments[name] = CliValue(words, name)
    <2>1. CliSoFar(words, CliRead(words))
      BY CliIs
    <2> HIDE DEF parsed
    <2> QED BY <2>1, <1>1, Zenon DEF CliSoFar, CliValue
  <1>6. "--provider" \in Valued /\ "--upscaler-manifest" \in Valued /\ "--interpolator-manifest" \in Valued
    BY NamesAre
  <1>7. /\ options.provider = CliValue(words, "--provider")
        /\ options.upscaler = OneOrNone(CliValue(words, "--upscaler-manifest"))
        /\ options.interpolator = OneOrNone(CliValue(words, "--interpolator-manifest"))
    BY <1>3 DEF SameOptions, AppOptions
  <1> HIDE DEF parsed, app
  <1> QED BY <1>4, <1>5, <1>6, <1>7, Zenon DEF OneOrNone

\* The manifests that are built in are valid.
LEMMA BuiltInValid ==
  ASSUME NEW kind \in {"upscaler", "interpolator"}
  PROVE  Validate(BuiltIn(kind)) = "none"
  <1> DEFINE m == BuiltIn(kind)
             name == IF kind = "upscaler" THEN "srvgv-test" ELSE "rife-test"
             scale(n, k) == Tenths(IF kind = "upscaler" THEN n ELSE k)
  <1>1. /\ m.id = name /\ m.model_path = Path("", name)
        /\ m.kind = kind /\ m.arbitrary_timestep = (kind = "interpolator")
        /\ m.native_scale = scale(40, 10) /\ m.min_scale = scale(11, 10) /\ m.max_scale = scale(50, 10)
    BY DEF BuiltIn, Default
  <1> HIDE DEF m
  <1>2. m.id # ""
    BY <1>1
  <1>3. m.model_path # NoPath
    <2>1. ASSUME NEW text, text # "" PROVE Path("", text) # NoPath
      <3>1. Path("", text).name = text /\ NoPath.name = ""
        BY DEF Path, NoPath
      <3> QED BY <2>1, <3>1, Zenon
    <2>2. name # ""
      OBVIOUS
    <2> HIDE DEF name
    <2> QED BY <1>1, <2>1, <2>2, Zenon
  <1>4. InRange(m)
    <2>1. \A n : Tenths(n).finite /\ Tenths(n).tenths = n
      BY DEF Tenths
    <2>2. CASE kind = "upscaler"
      <3>1. m.native_scale = Tenths(40) /\ m.min_scale = Tenths(11) /\ m.max_scale = Tenths(50)
        BY <1>1, <2>2, Zenon
      <3> QED BY <2>1, <3>1 DEF InRange
    <2>3. CASE kind # "upscaler"
      <3>1. m.native_scale = Tenths(10) /\ m.min_scale = Tenths(10) /\ m.max_scale = Tenths(10)
        BY <1>1, <2>3, Zenon
      <3> QED BY <2>1, <3>1 DEF InRange
    <2> QED BY <2>2, <2>3
  <1>5. ~(m.kind = "interpolator" /\ ~m.arbitrary_timestep /\ m.native_scale.tenths # 10)
    BY <1>1
  <1>6. Validate(m) = "none"
    BY <1>2, <1>3, <1>4, <1>5, Zenon DEF Validate
  <1> QED BY <1>6 DEF m

Among(T, path) == \E word \in T : word.text = path

\* An option that names a file has its name from the command line.
LEMMA PathFrom ==
  ASSUME NEW T, \A word \in T : IsWord(word), NEW words \in Seq(T),
         ParseArguments(words).ok, NEW option \in Paths
  PROVE  LET path == ParseArguments(words).arguments[option] IN
         path # "" => /\ Among(T, path)
                      /\ \E i \in DOMAIN words : words[i].text = option
  <1> DEFINE parsed == ParseArguments(words)
             path == parsed.arguments[option]
  <1>1. option \in Valued /\ option \notin Numeric
    BY DEF Valued, Paths, Numeric
  <1>2. CliRead(words).ok /\ parsed.arguments = CliRead(words).arguments
    BY ParsedIs, Zenon
  <1>3. /\ Given(words, option) = {} => path = CliDefaults[option]
        /\ Given(words, option) # {} => path = Value(option, Asked(words, option))
    <2>1. CliSoFar(words, CliRead(words))
      BY CliIs
    <2> HIDE DEF parsed
    <2> QED BY <2>1, <1>1, <1>2, Zenon DEF CliSoFar
  <1>4. CliDefaults[option] = ""
    BY DEF CliDefaults, Numeric, Paths
  <1> HIDE DEF path, parsed
  <1>5. ASSUME path # ""
        PROVE  /\ Among(T, path)
               /\ \E i \in DOMAIN words : words[i].text = option
    <2>1. Given(words, option) # {}
      BY <1>3, <1>4, <1>5
    <2>2. Asked(words, option) \in T
      BY <1>1, <2>1, AskedIn
    <2>3. path = Asked(words, option).text
      BY <1>1, <1>3, <2>1, Zenon DEF Value
    <2>4. PICK i \in Given(words, option) : TRUE
      BY <2>1
    <2>5. i \in 2 .. Len(words) /\ words[i - 1].text = option
      BY <2>4 DEF Given
    <2>6. i - 1 \in DOMAIN words
      BY <2>5, LenProperties
    <2>7. Among(T, path)
      BY <2>2, <2>3, Zenon DEF Among
    <2> QED BY <2>5, <2>6, <2>7, Zenon
  <1> QED BY <1>5 DEF path, parsed

\* What swave_app may have read after some words of T.
NamedBy(T) == {<<>>} \cup {<<word.text>> : word \in T}

Pendings == {<<>>} \cup {<<option>> : option \in AppOptionNames}

AppReadSome(T, progress) ==
  \E p \in {"fake", "tensorrt", "cuda"}, u \in NamedBy(T), i \in NamedBy(T),
     pending \in Pendings : progress = Progress(AppOptions(p, u, i), pending, TRUE)

\* A program that goes on has two manifests that load.
LEMMA GoesOnValid ==
  ASSUME NEW up, NEW inter,
         ~Failed(up) => Validate(up.manifest) = "none",
         ~Failed(inter) => Validate(inter.manifest) = "none"
  PROVE  LET went == GoesOn([upscaler |-> up, interpolator |-> inter]) IN
         /\ "exit" \in DOMAIN went \/ \A role \in DOMAIN went : Validate(went[role]) = "none"
         /\ ~Failed(up) /\ ~Failed(inter) => "exit" \notin DOMAIN went
  <1> DEFINE chosen == [upscaler |-> up, interpolator |-> inter]
             went == GoesOn(chosen)
             fails == \E role \in DOMAIN chosen : Failed(chosen[role])
  <1>1. /\ DOMAIN chosen = {"upscaler", "interpolator"}
        /\ chosen["upscaler"] = up /\ chosen["interpolator"] = inter
    OBVIOUS
  <1>2. /\ fails => went = [exit |-> 1]
        /\ ~fails => went = [role \in DOMAIN chosen |-> chosen[role].manifest]
    BY Zenon DEF GoesOn
  <1> HIDE DEF chosen, went
  <1>3. fails <=> Failed(up) \/ Failed(inter)
    BY <1>1
  <1>4. CASE fails
    <2>1. DOMAIN went = {"exit"}
      BY <1>2, <1>4
    <2> QED BY <2>1, <1>3, <1>4 DEF chosen, went
  <1>5. CASE ~fails
    <2>1. /\ DOMAIN went = {"upscaler", "interpolator"}
          /\ went["upscaler"] = up.manifest /\ went["interpolator"] = inter.manifest
      BY <1>1, <1>2, <1>5
    <2>2. \A role \in DOMAIN went : Validate(went[role]) = "none"
      BY <2>1, <1>3, <1>5
    <2>3. "exit" \notin DOMAIN went
      BY <2>1
    <2> QED BY <2>2, <2>3 DEF chosen, went
  <1> QED BY <1>4, <1>5

\* What swave_app has read so far names no file that is not on the command line.
LEMMA AppReadsPaths ==
  ASSUME NEW T
  PROVE  \A words \in Seq(T) : AppReadSome(T, AppRead(words))
  <1>1. AppReadSome(T, AppRead(<<>>))
    <2>1. AppDefaults = AppOptions("fake", <<>>, <<>>)
      BY DEF AppDefaults, AppOptions
    <2>2. <<>> \in NamedBy(T) /\ "fake" \in {"fake", "tensorrt", "cuda"}
          /\ <<>> \in Pendings
      BY DEF NamedBy, Pendings
    <2> QED BY <2>1, <2>2, AppReadIs, Zenon DEF AppReadSome
  <1>2. ASSUME NEW progress, AppReadSome(T, progress), NEW word \in T
        PROVE  AppReadSome(T, AppReadWord(progress, word))
    <2>1. PICK p \in {"fake", "tensorrt", "cuda"}, u \in NamedBy(T), i \in NamedBy(T),
               pending \in Pendings :
                  progress = Progress(AppOptions(p, u, i), pending, TRUE)
      BY <1>2, Zenon DEF AppReadSome
    <2>2. progress.arguments = AppOptions(p, u, i) /\ progress.pending = pending
      BY <2>1 DEF Progress
    <2>3. CASE pending = <<>>
      <3>1. AppReadWord(progress, word) =
              Progress(AppOptions(p, u, i),
                       IF word.text \in AppOptionNames THEN <<word.text>> ELSE <<>>, TRUE)
        BY <2>2, <2>3, Zenon DEF AppReadWord
      <3>2. (IF word.text \in AppOptionNames THEN <<word.text>> ELSE <<>>)
              \in Pendings
        BY DEF Pendings
      <3> QED BY <3>1, <3>2, Zenon DEF AppReadSome
    <2>4. CASE pending # <<>>
      <3>1. PICK option \in AppOptionNames : pending = <<option>>
        BY <2>1, <2>4 DEF Pendings
      <3>2. pending[1] = option
        BY <3>1
      <3>3. AppReadWord(progress, word) =
              Progress(AppAssigned(progress.arguments, option, word), <<>>, TRUE)
        BY <2>2, <2>4, <3>2, Zenon DEF AppReadWord
      <3>4. <<word.text>> \in NamedBy(T)
        BY DEF NamedBy
      <3>a. <<>> \in Pendings
        BY DEF Pendings
      <3>5. PICK a \in {"fake", "tensorrt", "cuda"}, b \in NamedBy(T), c \in NamedBy(T) :
               AppAssigned(progress.arguments, option, word) = AppOptions(a, b, c)
        <4>1. option \in {"--provider", "--upscaler-manifest", "--interpolator-manifest"}
          BY AppNames
        <4>2. (IF word.text \in {"tensorrt", "cuda"} THEN word.text ELSE p)
                \in {"fake", "tensorrt", "cuda"}
          OBVIOUS
        <4> DEFINE options == progress.arguments
        <4>a. options = AppOptions(p, u, i)
          BY <2>2
        <4> HIDE DEF options
        <4>3. /\ AppAssigned(options, "--provider", word) =
                   AppOptions(IF word.text \in {"tensorrt", "cuda"} THEN word.text ELSE p, u, i)
              /\ AppAssigned(options, "--upscaler-manifest", word) =
                   AppOptions(p, <<word.text>>, i)
              /\ AppAssigned(options, "--interpolator-manifest", word) =
                   AppOptions(p, u, <<word.text>>)
          BY <4>a, AppAssignedTo
        <4> QED BY <3>4, <4>1, <4>2, <4>3, Zenon DEF options
      <3> QED BY <3>a, <3>3, <3>5, Zenon DEF AppReadSome
    <2> QED BY <2>3, <2>4
  <1> DEFINE S == {words \in Seq(T) : AppReadSome(T, AppRead(words))}
  <1>3. <<>> \in S
    BY <1>1
  <1>4. \A words \in Seq(T) : \A word \in T : words \in S => Append(words, word) \in S
    BY <1>2, AppReadIs, AppendProperties
  <1> HIDE DEF S
  <1>5. Seq(T) \subseteq S
    BY <1>3, <1>4, TextFold!InductiveSequences
  <1> QED BY <1>5 DEF S

\* load_or_default() returns only what is valid, named or not, and does not fail unless
\* a file is named.
LEMMA LoadOrDefaultValid ==
  ASSUME NEW T, NEW path \in NamedBy(T), NEW kind \in {"upscaler", "interpolator"}, NEW disk,
         \A word \in T : disk[word.text].opens => IsText(disk[word.text].text)
  PROVE  LET read == LoadOrDefault(path, kind, disk) IN
         /\ ~Failed(read) => Validate(read.manifest) = "none"
         /\ path = <<>> => ~Failed(read)
  <1>1. CASE path = <<>>
    <2>1. Validate(BuiltIn(kind)) = "none"
      BY BuiltInValid
    <2>2. LoadOrDefault(path, kind, disk) = Reading(BuiltIn(kind), "none")
      BY <1>1, <2>1, Zenon DEF LoadOrDefault
    <2>3. /\ Reading(BuiltIn(kind), "none").manifest = BuiltIn(kind)
          /\ ~Failed(Reading(BuiltIn(kind), "none"))
      BY ReadingParts DEF Failed
    <2> QED BY <2>1, <2>2, <2>3, Zenon
  <1>2. CASE path # <<>>
    <2>1. PICK word \in T : path = <<word.text>>
      BY <1>2 DEF NamedBy
    <2>2. path[1] = word.text
      BY <2>1
    <2> DEFINE file == disk[word.text]
    <2>3. file.opens => IsText(file.text)
      OBVIOUS
    <2>4. LoadOrDefault(path, kind, disk) = LoadFile(file, "")
      BY <1>2, <2>2, Zenon DEF LoadOrDefault
    <2> HIDE DEF file
    <2>5. ~Failed(LoadFile(file, "")) => Validate(LoadFile(file, "").manifest) = "none"
      BY <2>3, LoadedIs, Zenon
    <2> QED BY <1>2, <2>4, <2>5, Zenon
  <1> QED BY <1>1, <1>2

\* No program goes on with a manifest that is not valid.
THEOREM ManifestsAreValid ==
  ASSUME NEW T, \A word \in T : IsWord(word), NEW words \in Seq(T), NEW disk,
         \A word \in T : disk[word.text].opens => IsText(disk[word.text].text)
  PROVE  OnlyValidManifests(words, disk)
  <1> DEFINE parsed == ParseArguments(words)
             from(option, kind) ==
                IF parsed.arguments[option] = "" THEN Reading(BuiltIn(kind), "none")
                ELSE LoadFile(disk[parsed.arguments[option]], "")
             up == from("--upscaler-manifest", "upscaler")
             inter == from("--interpolator-manifest", "interpolator")
             cli == CliManifests(words, disk)
             options == ParseOptions(words)
             app == AppManifests(words, disk)
             ok == parsed.ok
  <1>1. ok \in BOOLEAN
    BY ParsedIs, Zenon
  <1>2. \A m : Reading(m, "none").manifest = m /\ ~Failed(Reading(m, "none"))
    BY DEF Reading, Failed
  <1>3. ASSUME ok, NEW option \in Paths, NEW kind \in {"upscaler", "interpolator"},
               ~Failed(from(option, kind))
        PROVE  Validate(from(option, kind).manifest) = "none"
    <2>1. CASE parsed.arguments[option] = ""
      BY <2>1, <1>2, BuiltInValid, Zenon
    <2>2. CASE parsed.arguments[option] # ""
      <3> DEFINE file == disk[parsed.arguments[option]]
      <3>1. Among(T, parsed.arguments[option])
        <4>1. ParseArguments(words).ok
          BY <1>3
        <4>2. option \in Paths
          BY <1>3
        <4> HIDE DEF from
        <4> QED BY ONLY <4>1, <4>2, <2>2, \A word \in T : IsWord(word), words \in Seq(T), PathFrom, Zenon
      <3>2. file.opens => IsText(file.text)
        <4> HIDE DEF parsed
        <4> QED BY <3>1, Zenon DEF Among
      <3>3. from(option, kind) = LoadFile(file, "")
        BY <2>2, Zenon
      <3> HIDE DEF file
      <3>4. ~Failed(LoadFile(file, ""))
        BY <1>3, <3>3, Zenon
      <3>5. Validate(LoadFile(file, "").manifest) = "none"
        BY <3>2, <3>4, LoadedIs, Zenon
      <3> QED BY <3>3, <3>5, Zenon
    <2> QED BY <2>1, <2>2
  <1>4. "--upscaler-manifest" \in Paths /\ "--interpolator-manifest" \in Paths
    BY DEF Paths
  <1>5. /\ ok /\ ~Failed(up) => Validate(up.manifest) = "none"
        /\ ok /\ ~Failed(inter) => Validate(inter.manifest) = "none"
    BY <1>3, <1>4, Zenon
  <1>6. /\ ~ok => cli = [exit |-> 2]
        /\ ok => cli = GoesOn([upscaler |-> up, interpolator |-> inter])
    BY Zenon DEF CliManifests
  <1>7. ASSUME ok, Paths \cap {w.text : w \in ToSet(words)} = {}
        PROVE  ~Failed(up) /\ ~Failed(inter)
    <2>1. ASSUME NEW option \in Paths PROVE parsed.arguments[option] = ""
      <3> SUFFICES ASSUME parsed.arguments[option] # "" PROVE FALSE
        OBVIOUS
      <3>1. PICK i \in DOMAIN words : words[i].text = option
        <4>1. ParseArguments(words).ok
          BY <1>7
        <4> QED BY <4>1, PathFrom, Zenon
      <3>2. words[i] \in ToSet(words)
        BY <3>1, Zenon DEF ToSet
      <3>3. option \in {w.text : w \in ToSet(words)}
        BY <3>1, <3>2, Zenon
      <3> QED BY <3>3, <1>7, Zenon
    <2> QED BY <2>1, <1>2, <1>4, Zenon
  <1> HIDE DEF parsed, from, up, inter, ok
  <1>8. ok => /\ "exit" \in DOMAIN cli \/ \A role \in DOMAIN cli : Validate(cli[role]) = "none"
              /\ ~Failed(up) /\ ~Failed(inter) => "exit" \notin DOMAIN cli
    <2> HAVE ok
    <2>1. cli = GoesOn([upscaler |-> up, interpolator |-> inter])
      BY <1>6
    <2> HIDE DEF cli
    <2> QED BY <1>5, <2>1, GoesOnValid
  <1>9. ~ok => "exit" \in DOMAIN cli
    <2>1. "exit" \in DOMAIN [exit |-> 2]
      OBVIOUS
    <2> QED BY <1>6, <2>1, Zenon
  <1>10. /\ options.upscaler \in NamedBy(T) /\ options.interpolator \in NamedBy(T)
    <2>1. PICK p \in {"fake", "tensorrt", "cuda"}, u \in NamedBy(T), i \in NamedBy(T),
               pending \in Pendings :
             AppRead(words) = Progress(AppOptions(p, u, i), pending, TRUE)
      BY AppReadsPaths, Zenon DEF AppReadSome
    <2>2. options = AppRead(words).arguments
      BY Zenon DEF ParseOptions, AppRead
    <2>3. options = AppOptions(p, u, i)
      BY <2>1, <2>2 DEF Progress
    <2> HIDE DEF options
    <2> QED BY <2>3 DEF AppOptions
  <1> DEFINE first == LoadOrDefault(options.upscaler, "upscaler", disk)
             second == LoadOrDefault(options.interpolator, "interpolator", disk)
  <1>11. /\ ~Failed(first) => Validate(first.manifest) = "none"
         /\ ~Failed(second) => Validate(second.manifest) = "none"
         /\ options.upscaler = <<>> => ~Failed(first)
         /\ options.interpolator = <<>> => ~Failed(second)
    <2> HIDE DEF options
    <2> QED BY <1>10, LoadOrDefaultValid, Zenon
  <1>12. app = GoesOn([upscaler |-> first, interpolator |-> second])
    BY Zenon DEF AppManifests
  <1> DEFINE no == Paths \cap {w.text : w \in ToSet(words)} = {}
  <1> HIDE DEF options, first, second, app, cli, no
  <1>13. /\ "exit" \in DOMAIN app \/ \A role \in DOMAIN app : Validate(app[role]) = "none"
         /\ options.upscaler = <<>> /\ options.interpolator = <<>> => "exit" \notin DOMAIN app
    BY <1>11, <1>12, GoesOnValid
  <1>14. /\ "exit" \in DOMAIN cli \/ \A role \in DOMAIN cli : Validate(cli[role]) = "none"
         /\ ok /\ no => "exit" \notin DOMAIN cli
    <2>1. ok /\ no => ~Failed(up) /\ ~Failed(inter)
      BY <1>7 DEF no
    <2> QED BY <2>1, <1>8, <1>9
  <1> QED BY <1>13, <1>14, Zenon DEF OnlyValidManifests, ok, parsed, no, options, app, cli

-----------------------------------------------------------------------------
(***************************************************************************)
(* Pictures.                                                               *)
(***************************************************************************)

LEMMA MaxOfTwo ==
  ASSUME NEW a \in Int, NEW b \in Int
  PROVE  /\ Max({a, b}) = IF a >= b THEN a ELSE b
         /\ Min({a, b}) = IF a <= b THEN a ELSE b
  <1>1. \A m : (m \in {a, b} /\ \A y \in {a, b} : m >= y) <=> m = (IF a >= b THEN a ELSE b)
    OBVIOUS
  <1>2. \A m : (m \in {a, b} /\ \A y \in {a, b} : m <= y) <=> m = (IF a <= b THEN a ELSE b)
    OBVIOUS
  <1>3. Max({a, b}) = CHOOSE x \in {a, b} : \A y \in {a, b} : x >= y
    BY DEF Max
  <1>4. Min({a, b}) = CHOOSE x \in {a, b} : \A y \in {a, b} : x <= y
    BY DEF Min
  <1> DEFINE large == IF a >= b THEN a ELSE b
             small == IF a <= b THEN a ELSE b
             P(x) == x \in {a, b} /\ \A y \in {a, b} : x >= y
             Q(x) == x \in {a, b} /\ \A y \in {a, b} : x <= y
  <1>5. Max({a, b}) = CHOOSE x : P(x)
    BY <1>3
  <1>6. Min({a, b}) = CHOOSE x : Q(x)
    BY <1>4
  <1> QED BY <1>1, <1>2, <1>5, <1>6

\* Rounding finds the nearest number.
LEMMA RoundedIs ==
  ASSUME NEW n \in Nat, NEW d \in Nat \ {0}
  PROVE  /\ Rounded(n, d) \in Nat
         /\ 2 * (d * Rounded(n, d)) <= 2 * n + d
         /\ 2 * n + d < 2 * (d * Rounded(n, d)) + 2 * d
  <1> DEFINE a == 2 * n + d
             b == 2 * d
             r == a \div b
  <1>1. a \in Nat /\ b \in Nat /\ b > 0
    OBVIOUS
  <1>2. r \in Int /\ a = b * r + (a % b) /\ a % b \in Int /\ a % b >= 0 /\ a % b < b
    <2> HIDE DEF a, b
    <2> QED BY <1>1, DivMod
  <1>3. Rounded(n, d) = r
    BY DEF Rounded
  <1> HIDE DEF r
  <1>4. r \in Nat
    <2> SUFFICES ASSUME r < 0 PROVE FALSE
      BY <1>2
    <2>1. b * r + b <= b * 0
      <3> HIDE DEF b, a
      <3> QED BY <1>1, <1>2, TimesOrder
    <2> HIDE DEF a, b
    <2> QED BY <2>1, <1>1, <1>2
  <1>5. b * r = 2 * (d * r)
    BY <1>4 DEF b
  <1> DEFINE p == d * r
  <1>6. p \in Int
    BY <1>4
  <1>7. b * r = 2 * p
    BY <1>5
  <1>8. 2 * p <= 2 * n + d /\ 2 * n + d < 2 * p + 2 * d
    <2> HIDE DEF p
    <2> DEFINE q == b * r
               s == a % b
    <2>1. a = q + s /\ s \in Int /\ s >= 0 /\ s < b /\ q = 2 * p
      BY <1>2, <1>7
    <2> HIDE DEF q, s
    <2> QED BY <2>1, <1>6 DEF a, b
  <1> QED BY <1>3, <1>4, <1>8

\* A smaller fraction is rounded to a smaller number.
\* The numbers nearest to a fraction are those whose neighbouring halves enclose it; it
\* is rounded to the largest.
LEMMA NearestIs ==
  ASSUME NEW n \in Nat, NEW d \in Nat \ {0}
  PROVE  /\ \A s : s \in Nearest(n, d) <=>
                     /\ s \in Nat
                     /\ d * (2 * s - 1) <= 2 * n /\ 2 * n <= d * (2 * s + 1)
         /\ Rounded(n, d) \in Nearest(n, d)
         /\ \A s \in Nearest(n, d) : s <= Rounded(n, d)
  <1> DEFINE r == Rounded(n, d)
  <1>1. r \in Nat /\ 2 * (d * r) <= 2 * n + d /\ 2 * n + d < 2 * (d * r) + 2 * d
    BY RoundedIs
  <1>2. Nearest(n, d) = {s \in {r - 1, r} : 2 * (n - d * s) <= d}
    BY DEF Nearest
  <1> HIDE DEF r
  <1>3. ASSUME NEW s \in Int
        PROVE  /\ d * (2 * s - 1) = 2 * (d * s) - d /\ d * (2 * s + 1) = 2 * (d * s) + d
               /\ 2 * (n - d * s) = 2 * n - 2 * (d * s) /\ d * s \in Int
    OBVIOUS
  <1>4. d * (r - 1) = d * r - d
    BY <1>1
  <1>5. ASSUME NEW s \in {r - 1, r}, 2 * (n - d * s) <= d
        PROVE  s \in Int /\ d * (2 * s - 1) <= 2 * n /\ 2 * n <= d * (2 * s + 1)
    <2> DEFINE p == d * s
               q == d * r
    <2>1. s \in Int /\ p \in Int /\ q \in Int /\ (p = q \/ p = q - d)
      BY <1>1, <1>3, <1>4
    <2>2. 2 * n - 2 * p <= d /\ 2 * q <= 2 * n + d
      BY <1>1, <1>3, <1>5, <2>1
    <2>3. d * (2 * s - 1) = 2 * p - d /\ d * (2 * s + 1) = 2 * p + d
      BY <1>3, <2>1
    <2> HIDE DEF p, q
    <2> QED BY <2>1, <2>2, <2>3
  <1>6. ASSUME NEW s \in Int, d * (2 * s - 1) <= 2 * n, 2 * n <= d * (2 * s + 1)
        PROVE  s \in {r - 1, r} /\ 2 * (n - d * s) <= d /\ s \in Nat
    <2> DEFINE p == d * s
               q == d * r
    <2>1. p \in Int /\ q \in Int /\ 2 * p - d <= 2 * n /\ 2 * n <= 2 * p + d
      BY <1>1, <1>3, <1>6
    <2>2. 2 * q <= 2 * n + d /\ 2 * n + d < 2 * q + 2 * d
      BY <1>1
    <2>3. s < r - 1 => p + d <= q - d
      BY <1>1, <1>4, TimesOrder
    <2>4. r < s => q + d <= p
      BY <1>1, TimesOrder
    <2>5. s < 0 => p + d <= 0
      <3>1. s < 0 => d * s + d <= d * 0
        BY TimesOrder
      <3> QED BY <3>1
    <2>6. 2 * (n - d * s) = 2 * n - 2 * p
      BY <1>3
    <2> HIDE DEF p, q
    <2>7. ~(s < r - 1) /\ ~(r < s) /\ ~(s < 0)
      BY <2>1, <2>2, <2>3, <2>4, <2>5
    <2> QED BY <1>1, <2>1, <2>6, <2>7
  <1>7. \A s : s \in Nearest(n, d) => s \in Int
    BY <1>1, <1>2
  <1>8. r \in Nearest(n, d)
    <2>1. 2 * (n - d * r) <= d
      <3> DEFINE q == d * r
      <3>1. q \in Int /\ 2 * n + d < 2 * q + 2 * d /\ 2 * (n - d * r) = 2 * n - 2 * q
        BY <1>1, <1>3
      <3> HIDE DEF q
      <3> QED BY <3>1
    <2> QED BY <1>2, <2>1
  <1>9. \A s \in Nearest(n, d) : s <= r
    BY <1>1, <1>2
  <1> QED BY <1>2, <1>5, <1>6, <1>7, <1>8, <1>9 DEF r

\* Comparing fractions multiplied out.
LEMMA Cancel ==
  ASSUME NEW k \in Nat \ {0}, NEW a \in Int, NEW b \in Int
  PROVE  /\ k * a <= k * b => a <= b
         /\ k * a = k * b => a = b
  <1>1. ASSUME b < a PROVE ~(k * a <= k * b) /\ k * a # k * b
    <2>1. k * b < k * a
      BY <1>1, TimesOrder
    <2> DEFINE p == k * a
               q == k * b
    <2>2. p \in Int /\ q \in Int /\ q < p
      BY <2>1
    <2> HIDE DEF p, q
    <2>3. ~(p <= q) /\ p # q
      BY <2>2
    <2> QED BY <2>3 DEF p, q
  <1>2. ASSUME a < b PROVE k * a # k * b
    <2>1. k * a < k * b
      BY <1>2, TimesOrder
    <2> DEFINE p == k * a
               q == k * b
    <2>2. p \in Int /\ q \in Int /\ p < q
      BY <2>1
    <2> HIDE DEF p, q
    <2>3. p # q
      BY <2>2
    <2> QED BY <2>3 DEF p, q
  <1> QED BY <1>1, <1>2

\* What is nearest to a smaller fraction is smaller; to one not larger, larger by one
\* at most; and what is nearest to the same fraction is the same.
LEMMA NearestOrder ==
  ASSUME NEW a \in Nat, NEW b \in Nat \ {0}, NEW c \in Nat, NEW d \in Nat \ {0}
  PROVE  /\ \A s \in Nearest(a, b), t \in Nearest(c, d) :
              /\ a * d <= c * b => s <= t + 1
              /\ a * d < c * b => s <= t
         /\ a * d = c * b => Nearest(a, b) = Nearest(c, d)
  <1> DEFINE x == a * d
             y == c * b
  <1>1. x \in Int /\ y \in Int
    OBVIOUS
  <1>2. ASSUME NEW s \in Nearest(a, b), NEW t \in Nearest(c, d)
        PROVE  (x <= y => s <= t + 1) /\ (x < y => s <= t)
    <2> DEFINE u == 2 * s - 1
               v == 2 * t + 1
    <2>1. s \in Nat /\ t \in Nat /\ b * u <= 2 * a /\ 2 * c <= d * v
      BY NearestIs
    <2>2. u \in Int /\ v \in Int
      BY <2>1
    <2> HIDE DEF u, v
    <2>3. d * (b * u) <= d * (2 * a) /\ b * (2 * c) <= b * (d * v)
      <3>1. b * u \in Int /\ d * v \in Int
        BY <2>2
      <3> DEFINE p == b * u
                 q == d * v
      <3> HIDE DEF p, q
      <3>2. d * p <= d * (2 * a) /\ b * (2 * c) <= b * q
        BY <2>1, <3>1, TimesOrder DEF p, q
      <3> QED BY <3>2 DEF p, q
    <2> DEFINE k == b * d
    <2>4. /\ d * (b * u) = k * u /\ b * (d * v) = k * v
          /\ d * (2 * a) = 2 * x /\ b * (2 * c) = 2 * y /\ k \in Nat \ {0}
      <3>1. b * d \in Nat /\ b * d # 0
        OBVIOUS
      <3> QED BY <2>2, <3>1
    <2> HIDE DEF k, x, y
    <2> DEFINE p == k * u
               q == k * v
    <2>5. p \in Int /\ q \in Int /\ p <= 2 * x /\ 2 * y <= q
      BY <2>2, <2>3, <2>4
    <2>6. v < u => q < p
      BY <2>2, <2>4, TimesOrder
    <2>7. v <= u => q <= p
      BY <2>2, <2>4, TimesOrder
    <2> HIDE DEF p, q
    <2>8. (x <= y => ~(v < u)) /\ (x < y => ~(v <= u))
      BY <1>1, <2>5, <2>6, <2>7
    <2> QED BY <2>1, <2>8 DEF u, v
  <1>3. ASSUME x = y PROVE Nearest(a, b) = Nearest(c, d)
    <2>1. ASSUME NEW u \in Int
          PROVE  /\ b * u <= 2 * a <=> d * u <= 2 * c
                 /\ 2 * a <= b * u <=> 2 * c <= d * u
      <3> DEFINE p == b * u
                 q == d * u
      <3>1. p \in Int /\ q \in Int /\ d * p = b * q
        OBVIOUS
      <3>2. d * (2 * a) = b * (2 * c)
        <4>1. d * (2 * a) = 2 * x /\ b * (2 * c) = 2 * y
          OBVIOUS
        <4> QED BY <1>3, <4>1, Zenon
      <3> HIDE DEF p, q
      <3>3. /\ p <= 2 * a => d * p <= d * (2 * a)
            /\ d * p <= d * (2 * a) => p <= 2 * a
            /\ 2 * a <= p => d * (2 * a) <= d * p
            /\ d * (2 * a) <= d * p => 2 * a <= p
        BY <3>1, TimesOrder, Cancel
      <3>4. /\ q <= 2 * c => b * q <= b * (2 * c)
            /\ b * q <= b * (2 * c) => q <= 2 * c
            /\ 2 * c <= q => b * (2 * c) <= b * q
            /\ b * (2 * c) <= b * q => 2 * c <= q
        BY <3>1, TimesOrder, Cancel
      <3>5. (p <= 2 * a <=> q <= 2 * c) /\ (2 * a <= p <=> 2 * c <= q)
        BY <3>1, <3>2, <3>3, <3>4, Zenon
      <3> QED BY <3>5 DEF p, q
    <2>2. \A s : s \in Nearest(a, b) <=> s \in Nearest(c, d)
      <3> TAKE s
      <3>1. s \in Nearest(a, b) <=>
               s \in Nat /\ b * (2 * s - 1) <= 2 * a /\ 2 * a <= b * (2 * s + 1)
        BY NearestIs, Zenon
      <3>2. s \in Nearest(c, d) <=>
               s \in Nat /\ d * (2 * s - 1) <= 2 * c /\ 2 * c <= d * (2 * s + 1)
        BY NearestIs, Zenon
      <3>3. s \in Nat => 2 * s - 1 \in Int /\ 2 * s + 1 \in Int
        OBVIOUS
      <3> QED BY <2>1, <3>1, <3>2, <3>3, Zenon
    <2> QED BY <2>2, Zenon
  <1> QED BY <1>2, <1>3

LEMMA RoundedSame ==
  ASSUME NEW a \in Nat, NEW b \in Nat \ {0}, NEW c \in Nat, NEW d \in Nat \ {0},
         a * d = c * b
  PROVE  Rounded(a, b) = Rounded(c, d)
  <1> DEFINE r == Rounded(a, b)
             s == Rounded(c, d)
  <1>1. r \in Nearest(c, d) /\ s \in Nearest(a, b)
    <2>1. Nearest(a, b) = Nearest(c, d)
      BY NearestOrder
    <2>2. r \in Nearest(a, b) /\ s \in Nearest(c, d)
      BY NearestIs
    <2> HIDE DEF r, s
    <2> QED BY <2>1, <2>2, Zenon
  <1>2. r <= s /\ s <= r /\ r \in Nat /\ s \in Nat
    BY <1>1, NearestIs
  <1> HIDE DEF r, s
  <1>3. r = s
    BY <1>2
  <1> QED BY <1>3 DEF r, s

\* Of a whole number only itself is nearest, and it is what it is rounded to.
LEMMA RoundedExact ==
  ASSUME NEW m \in Nat, NEW d \in Nat \ {0}
  PROVE  Nearest(m * d, d) = {m} /\ Rounded(m * d, d) = m
  <1>1. m * d \in Nat /\ 2 * (m * d) = d * (2 * m)
    OBVIOUS
  <1>2. ASSUME NEW s \in Nearest(m * d, d) PROVE s = m
    <2>1. s \in Nat /\ d * (2 * s - 1) <= d * (2 * m) /\ d * (2 * m) <= d * (2 * s + 1)
      BY <1>1, NearestIs
    <2> DEFINE u == 2 * s - 1
               v == 2 * s + 1
               x == 2 * m
    <2>2. u \in Int /\ v \in Int /\ x \in Int /\ d * u <= d * x /\ d * x <= d * v
      BY <2>1
    <2> HIDE DEF u, v, x
    <2>3. u <= x /\ x <= v
      BY <2>2, Cancel
    <2> QED BY <2>1, <2>3 DEF u, v, x
  <1>3. Rounded(m * d, d) \in Nearest(m * d, d)
    BY <1>1, NearestIs
  <1> HIDE DEF Nearest, Rounded
  <1> QED BY <1>2, <1>3

-----------------------------------------------------------------------------

IsSize(resolution) == resolution.width \in Nat /\ resolution.height \in Nat

\* Both sides of a comparison of fractions, multiplied out.
Enlarged(n, length, factor) == n * (length * factor)
Room(d, most) == d * (most * 10)
Share(factor, n, e) == (factor * n) * e

\* The shrink n / d is the largest that fits the monitor.
Fits(n, d, source, factor, monitor) ==
    /\ n \in Nat \ {0} /\ d \in Nat \ {0} /\ n <= d
    /\ IsValid(monitor) => /\ Enlarged(n, source.width, factor) <= Room(d, monitor.width)
                           /\ Enlarged(n, source.height, factor) <= Room(d, monitor.height)
    /\ \/ n = d
       \/ IsValid(monitor) /\ Enlarged(n, source.width, factor) = Room(d, monitor.width)
       \/ IsValid(monitor) /\ Enlarged(n, source.height, factor) = Room(d, monitor.height)

\* A fraction smaller than another that is below one is below one.
LEMMA FractionOrder ==
  ASSUME NEW a \in Nat, NEW b \in Nat \ {0}, NEW c \in Nat, NEW d \in Nat,
         a * d <= c * b, b <= a
  PROVE  d <= c
  <1>1. d * b <= d * a
    <2>1. CASE d = 0
      BY <2>1
    <2>2. CASE d # 0
      BY <2>2, TimesOrder
    <2> QED BY <2>1, <2>2
  <1>2. d * a = a * d /\ d * b = b * d /\ c * b = b * c
    OBVIOUS
  <1> DEFINE p == b * d
             q == a * d
             r == b * c
  <1>3. p \in Int /\ q \in Int /\ r \in Int /\ p <= q /\ q <= r
    BY <1>1, <1>2
  <1> HIDE DEF p, q, r
  <1>4. p <= r
    BY <1>3
  <1> QED BY <1>4, Cancel DEF p, r

LEMMA ShrinkFits ==
  ASSUME NEW source, IsSize(source), IsValid(source), NEW factor \in Nat \ {0},
         NEW monitor, IsSize(monitor)
  PROVE  Fits(Shrink(source, factor, monitor)[1], Shrink(source, factor, monitor)[2],
              source, factor, monitor)
  <1> DEFINE a == monitor.width * 10
             b == source.width * factor
             c == monitor.height * 10
             d == source.height * factor
             shrink == Shrink(source, factor, monitor)
  <1>1. /\ a \in Nat /\ b \in Nat \ {0} /\ c \in Nat /\ d \in Nat \ {0}
        /\ IsValid(monitor) => a # 0 /\ c # 0
    BY DEF IsSize, IsValid
  <1>2. shrink = IF IsValid(monitor) /\ (IF a * d <= c * b THEN a < b ELSE c < d)
                 THEN IF a * d <= c * b THEN <<a, b>> ELSE <<c, d>>
                 ELSE <<1, 1>>
    <2> DEFINE wide == <<a, b>>
               high == <<c, d>>
               least == IF a * d <= c * b THEN wide ELSE high
    <2>1. wide[1] = a /\ wide[2] = b /\ high[1] = c /\ high[2] = d
      OBVIOUS
    <2>2. shrink = IF IsValid(monitor) /\ least[1] < least[2] THEN least ELSE <<1, 1>>
      BY <2>1 DEF Shrink
    <2> HIDE DEF a, b, c, d, shrink
    <2> QED BY <2>1, <2>2
  <1> HIDE DEF a, b, c, d, shrink
  <1> DEFINE n == shrink[1]
             m == shrink[2]
  <1> SUFFICES /\ n \in Nat \ {0} /\ m \in Nat \ {0} /\ n <= m
               /\ IsValid(monitor) => n * b <= m * a /\ n * d <= m * c
               /\ \/ n = m
                  \/ IsValid(monitor) /\ n * b = m * a
                  \/ IsValid(monitor) /\ n * d = m * c
    BY DEF Fits, Enlarged, Room, a, b, c, d, shrink
  <1>3. CASE ~IsValid(monitor)
    <2>1. n = 1 /\ m = 1
      BY <1>2, <1>3
    <2> QED BY <1>3, <2>1
  <1>4. CASE IsValid(monitor) /\ a * d <= c * b
    <2>1. CASE a < b
      <3>1. n = a /\ m = b
        BY <1>2, <1>4, <2>1
      <3>2. a * b = b * a /\ c * b = b * c
        BY <1>1
      <3>3. a * b <= b * a
        BY <1>1, <3>2
      <3> QED BY <3>1, <3>2, <3>3, <1>1, <1>4, <2>1
    <2>2. CASE b <= a
      <3>1. n = 1 /\ m = 1
        BY <1>1, <1>2, <1>4, <2>2
      <3>2. d <= c
        BY <1>1, <1>4, <2>2, FractionOrder
      <3> QED BY <3>1, <3>2, <1>1, <2>2
    <2> QED BY <2>1, <2>2, <1>1
  <1>5. CASE IsValid(monitor) /\ ~(a * d <= c * b)
    <2>0. c * b <= a * d /\ a * d = d * a
      <3>1. a * d \in Int /\ c * b \in Int
        BY <1>1
      <3> QED BY <3>1, <1>5, <1>1
    <2>1. CASE c < d
      <3>1. n = c /\ m = d
        BY <1>2, <1>5, <2>1
      <3>2. c * d = d * c
        BY <1>1
      <3>3. c * d <= d * c
        BY <1>1, <3>2
      <3> QED BY <2>0, <3>1, <3>2, <3>3, <1>1, <1>5, <2>1
    <2>2. CASE d <= c
      <3>1. n = 1 /\ m = 1
        BY <1>1, <1>2, <1>5, <2>2
      <3>2. b <= a
        BY <2>0, <1>1, <2>2, FractionOrder
      <3> QED BY <3>1, <3>2, <1>1, <2>2
    <2> QED BY <2>1, <2>2, <1>1
  <1> QED BY <1>3, <1>4, <1>5

\* It is 1 / 1 only where there is nothing to shrink.
LEMMA ShrinkWhole ==
  ASSUME NEW source, IsSize(source), IsValid(source), NEW factor \in Nat \ {0},
         NEW monitor, IsSize(monitor)
  PROVE  LET shrink == Shrink(source, factor, monitor) IN
         shrink = <<1, 1>> <=> shrink[1] = shrink[2]
  <1> DEFINE wide == <<monitor.width * 10, source.width * factor>>
             high == <<monitor.height * 10, source.height * factor>>
             least == IF wide[1] * high[2] <= high[1] * wide[2] THEN wide ELSE high
             shrink == Shrink(source, factor, monitor)
  <1>1. shrink = IF IsValid(monitor) /\ least[1] < least[2] THEN least ELSE <<1, 1>>
    BY DEF Shrink
  <1>2. least[1] \in Int /\ least[2] \in Int
    <2>1. /\ monitor.width * 10 \in Int /\ source.width * factor \in Int
          /\ monitor.height * 10 \in Int /\ source.height * factor \in Int
      BY DEF IsSize
    <2> QED BY <2>1
  <1> HIDE DEF least
  <1>3. CASE IsValid(monitor) /\ least[1] < least[2]
    <2>1. shrink[1] = least[1] /\ shrink[2] = least[2] /\ least[1] # least[2]
      BY <1>1, <1>2, <1>3
    <2>2. shrink = <<1, 1>> => shrink[1] = 1 /\ shrink[2] = 1
      <3> HIDE DEF shrink
      <3> QED OBVIOUS
    <2> QED BY <2>1, <2>2
  <1>4. CASE ~(IsValid(monitor) /\ least[1] < least[2])
    <2>1. shrink = <<1, 1>>
      BY <1>1, <1>4
    <2> QED BY <2>1
  <1> QED BY <1>3, <1>4

\* What a side of the output may come to, before it is kept from vanishing: what is
\* nearest to the exact one, or of those what it is rounded to.
Near(length, factor, n, d) == Nearest(length * factor * n, 10 * d)

Picked(length, factor, n, d) ==
    IF n = d /\ factor % 5 = 0 THEN {Rounded(length * factor * n, 10 * d)}
    ELSE Near(length, factor, n, d)

Visible(side) == IF side > 1 THEN side ELSE 1

LEMMA NearIs ==
  ASSUME NEW length \in Nat \ {0}, NEW factor \in Nat \ {0}, NEW n \in Nat \ {0},
         NEW d \in Nat \ {0}
  PROVE  /\ length * factor * n \in Nat /\ 10 * d \in Nat \ {0}
         /\ Picked(length, factor, n, d) \subseteq Near(length, factor, n, d)
         /\ Picked(length, factor, n, d) # {}
         /\ \A s \in Near(length, factor, n, d) :
               /\ s \in Nat
               /\ (10 * d) * (2 * s - 1) <= 2 * (length * factor * n)
               /\ 2 * (length * factor * n) <= (10 * d) * (2 * s + 1)
  <1> DEFINE a == length * factor * n
             k == 10 * d
  <1>1. a \in Nat /\ k \in Nat \ {0}
    <2>1. length * factor \in Nat
      OBVIOUS
    <2> QED BY <2>1
  <1>2. /\ Near(length, factor, n, d) = Nearest(a, k)
        /\ Picked(length, factor, n, d) =
              IF n = d /\ factor % 5 = 0 THEN {Rounded(a, k)} ELSE Nearest(a, k)
    BY DEF Near, Picked
  <1> HIDE DEF a, k
  <1>3. /\ \A s \in Nearest(a, k) : s \in Nat /\ k * (2 * s - 1) <= 2 * a /\ 2 * a <= k * (2 * s + 1)
        /\ Rounded(a, k) \in Nearest(a, k)
    BY <1>1, NearestIs, Zenon
  <1>4. Picked(length, factor, n, d) \subseteq Nearest(a, k) /\ Picked(length, factor, n, d) # {}
    BY <1>2, <1>3, Zenon
  <1> QED BY <1>1, <1>2, <1>3, <1>4, Zenon DEF a, k

\* The outputs are what may be made of the two sides by the largest shrink that fits.
LEMMA OutputsAre ==
  ASSUME NEW source, IsSize(source), IsValid(source), NEW factor \in Nat \ {0},
         NEW monitor, IsSize(monitor)
  PROVE  \E n, d :
            /\ Fits(n, d, source, factor, monitor)
            /\ \A output :
                 output \in OutputResolutions(source, factor, monitor) <=>
                    \E s \in Picked(source.width, factor, n, d),
                       t \in Picked(source.height, factor, n, d) :
                          output = Resolution(Visible(s), Visible(t))
  <1> DEFINE shrink == Shrink(source, factor, monitor)
             n == shrink[1]
             d == shrink[2]
  <1>1. Fits(n, d, source, factor, monitor)
    BY ShrinkFits
  <1>2. shrink = <<1, 1>> <=> n = d
    BY ShrinkWhole
  <1>3. n \in Nat \ {0} /\ d \in Nat \ {0} /\ source.width \in Nat \ {0} /\ source.height \in Nat \ {0}
    BY <1>1 DEF Fits, IsSize, IsValid
  <1>4. \A output :
          output \in OutputResolutions(source, factor, monitor) <=>
             \E width \in Sides(source.width, factor, shrink),
                height \in Sides(source.height, factor, shrink) :
                   output = Resolution(width, height)
    <2>1. IsValid(source) /\ factor # 0
      OBVIOUS
    <2>2. OutputResolutions(source, factor, monitor) =
            {Resolution(width, height) : width \in Sides(source.width, factor, shrink),
                                         height \in Sides(source.height, factor, shrink)}
      BY <2>1 DEF OutputResolutions
    <2> HIDE DEF shrink
    <2> QED BY <2>2
  <1> HIDE DEF shrink
  <1>5. ASSUME NEW length \in Nat \ {0}
        PROVE  Sides(length, factor, shrink) = {Visible(s) : s \in Picked(length, factor, n, d)}
    <2>1. Sides(length, factor, shrink) = {Max({1, s}) : s \in Picked(length, factor, n, d)}
      BY <1>2, Zenon DEF Sides, Picked, Near
    <2>2. \A s \in Picked(length, factor, n, d) : s \in Nat
      BY <1>3, NearIs, Zenon
    <2>3. \A s \in Nat : Max({1, s}) = Visible(s)
      <3> TAKE s \in Nat
      <3>1. Max({1, s}) = IF 1 >= s THEN 1 ELSE s
        BY MaxOfTwo
      <3> QED BY <3>1 DEF Visible
    <2> QED BY <2>1, <2>2, <2>3, Zenon
  <1>6. \A output :
          output \in OutputResolutions(source, factor, monitor) <=>
             \E s \in Picked(source.width, factor, n, d),
                t \in Picked(source.height, factor, n, d) :
                   output = Resolution(Visible(s), Visible(t))
    <2> DEFINE S == Picked(source.width, factor, n, d)
               T == Picked(source.height, factor, n, d)
    <2>1. /\ Sides(source.width, factor, shrink) = {Visible(s) : s \in S}
          /\ Sides(source.height, factor, shrink) = {Visible(t) : t \in T}
      BY <1>3, <1>5
    <2> HIDE DEF S, T
    <2>2. \A output :
            output \in OutputResolutions(source, factor, monitor) <=>
               \E s \in S, t \in T : output = Resolution(Visible(s), Visible(t))
      <3>1. \A W, H : W = {Visible(s) : s \in S} /\ H = {Visible(t) : t \in T} =>
               \A output : (\E width \in W, height \in H : output = Resolution(width, height))
                             <=> \E s \in S, t \in T : output = Resolution(Visible(s), Visible(t))
        OBVIOUS
      <3> QED BY <1>4, <2>1, <3>1
    <2> QED BY <2>2 DEF S, T
  <1> QED BY <1>1, <1>6 DEF shrink

\* A side that does not exceed a length before it is rounded does not after.
LEMMA SideAtMost ==
  ASSUME NEW length \in Nat \ {0}, NEW factor \in Nat \ {0}, NEW n \in Nat \ {0},
         NEW d \in Nat \ {0}, NEW most \in Nat
  PROVE  /\ Enlarged(n, length, factor) <= Room(d, most) =>
               \A s \in Near(length, factor, n, d) : s <= most
         /\ Enlarged(n, length, factor) = Room(d, most) =>
               Near(length, factor, n, d) = {most}
  <1> DEFINE a == length * factor * n
             k == 10 * d
  <1>1. a \in Nat /\ k \in Nat \ {0}
    BY NearIs
  <1>2. Enlarged(n, length, factor) = a /\ Room(d, most) = most * k
    BY DEF Enlarged, Room
  <1>3. Near(length, factor, n, d) = Nearest(a, k)
    BY DEF Near
  <1> HIDE DEF a, k
  <1>4. ASSUME a <= most * k, NEW s \in Nearest(a, k) PROVE s <= most
    <2>1. s \in Nat /\ k * (2 * s - 1) <= 2 * a
      BY <1>1, NearestIs
    <2> DEFINE u == 2 * s - 1
               v == 2 * most
    <2>2. k * v = 2 * (most * k) /\ u \in Int /\ v \in Int
      BY <1>1, <2>1
    <2>3. k * u <= k * v
      <3> DEFINE b == most * k
                 p == k * u
      <3>1. b \in Int /\ p \in Int /\ p <= 2 * a /\ a <= b /\ k * v = 2 * b
        BY <1>1, <1>4, <2>1, <2>2
      <3> HIDE DEF b, p, v
      <3>2. p <= k * v
        BY <1>1, <3>1
      <3> QED BY <3>2 DEF p
    <2> HIDE DEF u, v
    <2>4. u <= v
      BY <1>1, <2>2, <2>3, Cancel
    <2> QED BY <2>1, <2>4 DEF u, v
  <1>5. ASSUME a = most * k PROVE Nearest(a, k) = {most}
    BY <1>1, <1>5, RoundedExact
  <1> HIDE DEF Near, Nearest
  <1> QED BY <1>2, <1>3, <1>4, <1>5

LEMMA ShareIs ==
  ASSUME NEW length \in Nat \ {0}, NEW f \in Nat \ {0}, NEW n \in Nat \ {0},
         NEW d \in Nat \ {0}, NEW g \in Nat \ {0}, NEW m \in Nat \ {0}, NEW e \in Nat \ {0}
  PROVE  LET a == (length * f * n) * (10 * e)
             b == (length * g * m) * (10 * d)
         IN  /\ Share(f, n, e) <= Share(g, m, d) => a <= b
             /\ Share(f, n, e) < Share(g, m, d) => a < b
             /\ Share(f, n, e) = Share(g, m, d) => a = b
  <1> DEFINE k == 10 * length
             x == Share(f, n, e)
             y == Share(g, m, d)
  <1>1. k \in Nat \ {0} /\ k > 0 /\ x \in Int /\ y \in Int
    BY DEF Share
  <1>2. (length * f * n) * (10 * e) = k * x /\ (length * g * m) * (10 * d) = k * y
    BY DEF Share
  <1> HIDE DEF k, x, y
  <1>3. (x <= y => k * x <= k * y) /\ (x < y => k * x < k * y) /\ (x = y => k * x = k * y)
    BY <1>1, TimesOrder
  <1> QED BY <1>2, <1>3, Zenon DEF x, y

\* Of two enlargements of a side the one by less gives less, but perhaps for a tie.
LEMMA SideOrder ==
  ASSUME NEW length \in Nat \ {0}, NEW f \in Nat \ {0}, NEW n \in Nat \ {0},
         NEW d \in Nat \ {0}, NEW g \in Nat \ {0}, NEW m \in Nat \ {0}, NEW e \in Nat \ {0},
         NEW s \in Near(length, f, n, d), NEW t \in Near(length, g, m, e)
  PROVE  /\ Share(f, n, e) <= Share(g, m, d) => s <= t + 1
         /\ Share(f, n, e) < Share(g, m, d) => s <= t
  <1> DEFINE a == length * f * n
             b == 10 * d
             c == length * g * m
             h == 10 * e
  <1>1. a \in Nat /\ b \in Nat \ {0} /\ c \in Nat /\ h \in Nat \ {0}
    BY NearIs
  <1>2. s \in Nearest(a, b) /\ t \in Nearest(c, h)
    BY DEF Near
  <1>3. /\ Share(f, n, e) <= Share(g, m, d) => a * h <= c * b
        /\ Share(f, n, e) < Share(g, m, d) => a * h < c * b
    BY ShareIs
  <1> HIDE DEF a, b, c, h
  <1>4. /\ a * h <= c * b => s <= t + 1
        /\ a * h < c * b => s <= t
    BY <1>1, <1>2, NearestOrder
  <1> QED BY <1>3, <1>4, Zenon

LEMMA SideSame ==
  ASSUME NEW length, NEW f, NEW n, NEW d, NEW g, NEW m, NEW e,
         {length, f, n, d, g, m, e} \subseteq Nat \ {0},
         Share(f, n, e) = Share(g, m, d)
  PROVE  Near(length, f, n, d) = Near(length, g, m, e)
  <1> DEFINE a == length * f * n
             b == 10 * d
             c == length * g * m
             h == 10 * e
  <1>0. /\ length \in Nat \ {0} /\ f \in Nat \ {0} /\ n \in Nat \ {0} /\ d \in Nat \ {0}
        /\ g \in Nat \ {0} /\ m \in Nat \ {0} /\ e \in Nat \ {0}
    OBVIOUS
  <1>1. a \in Nat /\ b \in Nat \ {0} /\ c \in Nat /\ h \in Nat \ {0}
    BY <1>0, NearIs
  <1>2. Near(length, f, n, d) = Nearest(a, b) /\ Near(length, g, m, e) = Nearest(c, h)
    BY DEF Near
  <1>3. a * h = c * b
    BY <1>0, ShareIs
  <1> HIDE DEF a, b, c, h
  <1>4. Nearest(a, b) = Nearest(c, h)
    BY ONLY <1>1, <1>3, NearestOrder
  <1> QED BY <1>2, <1>4, Zenon

\* A side is within half a pixel of the exact one; k is the denominator.
LEMMA SideNear ==
  ASSUME NEW length \in Nat \ {0}, NEW factor \in Nat \ {0}, NEW n \in Nat \ {0},
         NEW d \in Nat \ {0}, NEW other \in Nat \ {0}, NEW s \in Near(length, factor, n, d)
  PROVE  LET off == 2 * ((10 * d) * (s * other)) - 2 * ((length * other) * (factor * n))
         IN  off <= (10 * d) * other /\ -((10 * d) * other) <= off
  <1> DEFINE k == 10 * d
             a == length * factor * n
             off == 2 * (k * s) - 2 * a
  <1>1. /\ k \in Nat \ {0} /\ s \in Nat /\ a \in Nat
        /\ k * (2 * s - 1) <= 2 * a /\ 2 * a <= k * (2 * s + 1)
    BY NearIs
  <1>2. off \in Int /\ off <= k /\ -k <= off
    <2> DEFINE p == k * s
    <2>1. p \in Int /\ k * (2 * s - 1) = 2 * p - k /\ k * (2 * s + 1) = 2 * p + k
      BY <1>1
    <2> HIDE DEF p, k, a
    <2>2. 2 * p - 2 * a \in Int /\ 2 * p - 2 * a <= k /\ -k <= 2 * p - 2 * a
      BY <2>1, <1>1
    <2> QED BY <2>2 DEF p
  <1>3. other * off = 2 * ((10 * d) * (s * other)) - 2 * ((length * other) * (factor * n))
    BY <1>1
  <1>4. other * k = (10 * d) * other /\ other * (-k) = -((10 * d) * other)
    OBVIOUS
  <1>5. other * off <= other * k /\ other * (-k) <= other * off
    <2> HIDE DEF off, k
    <2>1. -k \in Int
      BY <1>1
    <2> QED BY <2>1, <1>1, <1>2, TimesOrder
  <1> HIDE DEF off, k
  <1> QED BY <1>3, <1>4, <1>5

\* Two sides that did not vanish keep the proportions.
LEMMA SidesProportional ==
  ASSUME NEW width \in Nat \ {0}, NEW height \in Nat \ {0}, NEW factor \in Nat \ {0},
         NEW n \in Nat \ {0}, NEW d \in Nat \ {0},
         NEW w \in Near(width, factor, n, d), NEW h \in Near(height, factor, n, d)
  PROVE  Proportional(Resolution(w, h), Resolution(width, height))
  <1> DEFINE k == 10 * d
             skew == w * height - h * width
  <1>1. k \in Nat \ {0} /\ w \in Nat /\ h \in Nat
    BY NearIs
  <1>2. skew \in Int
    BY <1>1
  <1>3. Max({skew, -skew}) = IF skew >= 0 THEN skew ELSE -skew
    <2> HIDE DEF skew
    <2> QED BY <1>2, MaxOfTwo
  <1> DEFINE a == 2 * (k * (w * height)) - 2 * ((width * height) * (factor * n))
             b == 2 * (k * (h * width)) - 2 * ((height * width) * (factor * n))
  <1>4. /\ a <= k * height /\ -(k * height) <= a
        /\ b <= k * width /\ -(k * width) <= b
    BY SideNear
  <1>5. k * (2 * skew) = a - b /\ a \in Int /\ b \in Int
    BY <1>1
  <1>6. /\ k * (2 * skew) <= k * (width + height)
        /\ k * (-(2 * skew)) <= k * (width + height)
    <2> DEFINE x == k * height
               y == k * width
    <2>1. x \in Int /\ y \in Int /\ k * (width + height) = x + y
      BY <1>1
    <2>2. k * (-(2 * skew)) = -(k * (2 * skew))
      BY <1>1, <1>2
    <2>3. k * (-(2 * skew)) = b - a
      <3> HIDE DEF a, b, skew, k
      <3> QED BY <1>5, <2>2
    <2>4. a <= x /\ -x <= a /\ b <= y /\ -y <= b
      BY <1>4
    <2> HIDE DEF a, b, skew, k, x, y
    <2>5. a - b <= x + y /\ b - a <= x + y
      BY <2>1, <2>4, <1>5
    <2> QED BY <1>5, <2>1, <2>3, <2>5
  <1>7. 2 * skew <= width + height /\ -(2 * skew) <= width + height
    <2> HIDE DEF k, skew
    <2> DEFINE p == 2 * skew
               q == -(2 * skew)
               r == width + height
    <2>1. p \in Int /\ q \in Int /\ r \in Int /\ k * p <= k * r /\ k * q <= k * r
      BY <1>2, <1>6
    <2> HIDE DEF p, q, r
    <2>2. p <= r /\ q <= r
      BY <1>1, <2>1, Cancel
    <2> QED BY <2>2 DEF p, q, r
  <1>8. 2 * Max({skew, -skew}) <= width + height
    <2> HIDE DEF skew
    <2> QED BY <1>2, <1>3, <1>7
  <1> QED BY <1>8 DEF Proportional, Resolution

\* What the sides may come to for two factors, as their shares compare.
LEMMA PickedOrder ==
  ASSUME NEW length \in Nat \ {0}, NEW f \in Nat \ {0}, NEW n \in Nat \ {0},
         NEW d \in Nat \ {0}, NEW g \in Nat \ {0}, NEW m \in Nat \ {0}, NEW e \in Nat \ {0},
         NEW s \in Picked(length, f, n, d), NEW t \in Picked(length, g, m, e)
  PROVE  /\ Visible(s) \in Nat \ {0} /\ Visible(t) \in Nat \ {0}
         /\ Share(f, n, e) <= Share(g, m, d) => Visible(s) <= Visible(t) + 1
         /\ Share(f, n, e) < Share(g, m, d) => Visible(s) <= Visible(t)
  <1>1. s \in Near(length, f, n, d) /\ t \in Near(length, g, m, e) /\ s \in Nat /\ t \in Nat
    BY NearIs, Zenon
  <1>2. /\ Share(f, n, e) <= Share(g, m, d) => s <= t + 1
        /\ Share(f, n, e) < Share(g, m, d) => s <= t
    BY <1>1, SideOrder
  <1> QED BY <1>1, <1>2 DEF Visible

\* Unshrunk, a side is enlarged by the factor alone.
LEMMA PickedWhole ==
  ASSUME NEW length \in Nat \ {0}, NEW factor \in Nat \ {0}, NEW n \in Nat \ {0},
         NEW m \in Nat \ {0}
  PROVE  Picked(length, factor, n, n) = Picked(length, factor, m, m)
  <1> DEFINE a == length * factor * n
             b == 10 * n
             c == length * factor * m
             h == 10 * m
  <1>1. a \in Nat /\ b \in Nat \ {0} /\ c \in Nat /\ h \in Nat \ {0}
    BY NearIs
  <1>2. a * h = c * b
    OBVIOUS
  <1>3. /\ Picked(length, factor, n, n) =
              IF factor % 5 = 0 THEN {Rounded(a, b)} ELSE Nearest(a, b)
        /\ Picked(length, factor, m, m) =
              IF factor % 5 = 0 THEN {Rounded(c, h)} ELSE Nearest(c, h)
    BY DEF Picked, Near
  <1> HIDE DEF a, b, c, h
  <1>4. Nearest(a, b) = Nearest(c, h)
    <2> HIDE DEF Nearest
    <2> QED BY ONLY <1>1, <1>2, NearestOrder
  <1>5. Rounded(a, b) = Rounded(c, h)
    BY <1>1, <1>2, RoundedSame
  <1> QED BY <1>3, <1>4, <1>5, Zenon

\* The resolution fits the monitor and the source (output_resolution).
THEOREM OutputFitsMonitor ==
  ASSUME NEW source, IsSize(source), NEW factor \in Nat, NEW monitor, IsSize(monitor)
  PROVE  FitsMonitor(source, factor, monitor)
  <1> DEFINE outputs == OutputResolutions(source, factor, monitor)
             wanted == OutputResolutions(source, factor, Resolution(0, 0))
             w == source.width
             h == source.height
  <1> SUFFICES
        ASSUME IsValid(source), factor # 0, NEW output \in outputs
        PROVE  /\ output.width >= 1 /\ output.height >= 1
               /\ IsValid(monitor) =>
                     output.width <= monitor.width /\ output.height <= monitor.height
               /\ \/ output \in wanted
                  \/ /\ IsValid(monitor)
                     /\ output.width = monitor.width \/ output.height = monitor.height
                     /\ \A full \in wanted :
                           output.width <= full.width /\ output.height <= full.height
               /\ output.width > 1 /\ output.height > 1 => Proportional(output, source)
    BY Zenon DEF FitsMonitor
  <1>0. w \in Nat \ {0} /\ h \in Nat \ {0} /\ factor \in Nat \ {0}
    BY DEF IsSize, IsValid
  <1>1. PICK n, d :
          /\ Fits(n, d, source, factor, monitor)
          /\ \A o : o \in outputs <=>
                \E s \in Picked(w, factor, n, d), t \in Picked(h, factor, n, d) :
                   o = Resolution(Visible(s), Visible(t))
    BY <1>0, OutputsAre
  <1>2. PICK m, e :
          /\ Fits(m, e, source, factor, Resolution(0, 0))
          /\ \A o : o \in wanted <=>
                \E s \in Picked(w, factor, m, e), t \in Picked(h, factor, m, e) :
                   o = Resolution(Visible(s), Visible(t))
    <2>1. IsSize(Resolution(0, 0))
      BY DEF IsSize, Resolution
    <2> QED BY <1>0, <2>1, OutputsAre
  <1>3. n \in Nat \ {0} /\ d \in Nat \ {0} /\ n <= d
    BY <1>1 DEF Fits
  <1>4. m \in Nat \ {0} /\ e = m
    <2>1. ~IsValid(Resolution(0, 0))
      BY DEF IsValid, Resolution
    <2> QED BY <1>2, <2>1 DEF Fits
  <1>5. PICK s \in Picked(w, factor, n, d), t \in Picked(h, factor, n, d) :
          output = Resolution(Visible(s), Visible(t))
    BY <1>1
  <1> HIDE DEF outputs, wanted
  <1>6. /\ s \in Near(w, factor, n, d) /\ s \in Nat
        /\ t \in Near(h, factor, n, d) /\ t \in Nat
    BY <1>0, <1>3, NearIs, Zenon
  <1>7. output.width = Visible(s) /\ output.height = Visible(t)
    BY <1>5 DEF Resolution
  <1>8. ASSUME IsValid(monitor)
        PROVE  output.width <= monitor.width /\ output.height <= monitor.height
    <2>1. monitor.width \in Nat \ {0} /\ monitor.height \in Nat \ {0}
      BY <1>8 DEF IsSize, IsValid
    <2>2. /\ Enlarged(n, w, factor) <= Room(d, monitor.width)
          /\ Enlarged(n, h, factor) <= Room(d, monitor.height)
      BY <1>1, <1>8 DEF Fits
    <2>3. s <= monitor.width /\ t <= monitor.height
      BY <1>0, <1>3, <1>6, <2>1, <2>2, SideAtMost
    <2> QED BY <1>6, <1>7, <2>1, <2>3 DEF Visible
  <1>9. ASSUME n = d PROVE output \in wanted
    <2>1. \A length \in Nat \ {0} : Picked(length, factor, n, n) = Picked(length, factor, m, m)
      BY <1>0, <1>3, <1>4, PickedWhole
    <2>2. /\ s \in Picked(w, factor, m, e) /\ t \in Picked(h, factor, m, e)
      BY <1>0, <1>4, <1>5, <1>9, <2>1, Zenon
    <2> QED BY <1>2, <1>5, <2>2, Zenon
  <1>10. ASSUME n # d
         PROVE  /\ IsValid(monitor)
                /\ output.width = monitor.width \/ output.height = monitor.height
                /\ \A full \in wanted :
                      output.width <= full.width /\ output.height <= full.height
    <2>1. IsValid(monitor) /\ \/ Enlarged(n, w, factor) = Room(d, monitor.width)
                              \/ Enlarged(n, h, factor) = Room(d, monitor.height)
      BY <1>1, <1>10 DEF Fits
    <2>2. monitor.width \in Nat \ {0} /\ monitor.height \in Nat \ {0}
      BY <2>1 DEF IsSize, IsValid
    <2>3. /\ Enlarged(n, w, factor) = Room(d, monitor.width) => s = monitor.width
          /\ Enlarged(n, h, factor) = Room(d, monitor.height) => t = monitor.height
      <3>1. monitor.width \in Nat /\ monitor.height \in Nat
        BY <2>2
      <3>2. Enlarged(n, w, factor) = Room(d, monitor.width) =>
               Near(w, factor, n, d) = {monitor.width}
        BY <1>0, <1>3, <3>1, SideAtMost
      <3>3. Enlarged(n, h, factor) = Room(d, monitor.height) =>
               Near(h, factor, n, d) = {monitor.height}
        BY <1>0, <1>3, <3>1, SideAtMost
      <3> QED BY <1>6, <3>2, <3>3, Zenon
    <2>4. output.width = monitor.width \/ output.height = monitor.height
      BY <1>6, <1>7, <2>1, <2>2, <2>3 DEF Visible
    <2>5. Share(factor, n, e) < Share(factor, m, d)
      <3>1. Share(factor, n, e) = (factor * m) * n /\ Share(factor, m, d) = (factor * m) * d
        BY <1>0, <1>3, <1>4 DEF Share
      <3>2. factor * m \in Nat /\ factor * m > 0
        BY <1>0, <1>4
      <3> DEFINE k == factor * m
      <3> HIDE DEF k
      <3>3. k * n < k * d
        BY <3>2, <1>3, <1>10, TimesOrder DEF k
      <3> QED BY <3>1, <3>3 DEF k
    <2>6. ASSUME NEW full \in wanted
          PROVE  output.width <= full.width /\ output.height <= full.height
      <3>1. PICK u \in Picked(w, factor, m, e), v \in Picked(h, factor, m, e) :
              full = Resolution(Visible(u), Visible(v))
        BY <1>2
      <3>2. Visible(s) <= Visible(u) /\ Visible(t) <= Visible(v)
        BY <1>0, <1>3, <1>4, <2>5, PickedOrder
      <3> QED BY <1>7, <3>1, <3>2 DEF Resolution
    <2> QED BY <2>1, <2>4, <2>6
  <1>11. ASSUME output.width > 1, output.height > 1 PROVE Proportional(output, source)
    <2>1. Proportional(Resolution(s, t), Resolution(w, h))
      BY <1>0, <1>3, <1>6, SidesProportional
    <2>2. Visible(s) = s /\ Visible(t) = t
      BY <1>6, <1>7, <1>11 DEF Visible
    <2> QED BY <1>5, <2>1, <2>2 DEF Proportional, Resolution
  <1>12. output.width >= 1 /\ output.height >= 1
    BY <1>6, <1>7 DEF Visible
  <1> QED BY <1>8, <1>9, <1>10, <1>11, <1>12, Zenon

\* Of two shrinks the one for the larger factor leaves no less of it.
LEMMA FitsOrder ==
  ASSUME NEW source, IsSize(source), IsValid(source), NEW monitor, IsSize(monitor),
         NEW f \in Nat \ {0}, NEW g \in Nat \ {0}, f <= g,
         NEW n, NEW d, Fits(n, d, source, f, monitor),
         NEW m, NEW e, Fits(m, e, source, g, monitor)
  PROVE  Share(f, n, e) <= Share(g, m, d)
  <1> SUFFICES (f * n) * e <= (g * m) * d
    BY DEF Share
  <1>1. /\ n \in Nat \ {0} /\ d \in Nat \ {0} /\ n <= d
        /\ m \in Nat \ {0} /\ e \in Nat \ {0} /\ m <= e
    BY DEF Fits
  <1>2. source.width \in Nat \ {0} /\ source.height \in Nat \ {0}
        /\ monitor.width \in Nat /\ monitor.height \in Nat
    BY DEF IsSize, IsValid
  <1>3. CASE m = e
    <2>1. f * n <= g * d
      <3>1. f * n <= f * d
        BY <1>1, TimesOrder
      <3>2. d * f <= d * g
        BY <1>1, TimesOrder
      <3>3. d * f = f * d /\ d * g = g * d
        BY <1>1
      <3> DEFINE x == f * n
                 y == f * d
                 z == g * d
      <3>4. x \in Int /\ y \in Int /\ z \in Int /\ x <= y /\ y <= z
        BY <3>1, <3>2, <3>3, <1>1
      <3> HIDE DEF x, y, z
      <3>5. x <= z
        BY <3>4
      <3> QED BY <3>5 DEF x, z
    <2> DEFINE x == f * n
               y == g * d
    <2>2. x \in Int /\ y \in Int /\ x <= y
      BY <2>1, <1>1
    <2>3. (f * n) * e = e * x /\ (g * m) * d = e * y
      BY <1>1, <1>3
    <2> HIDE DEF x, y
    <2>4. e * x <= e * y
      BY <2>2, <1>1, TimesOrder
    <2> QED BY <2>3, <2>4
  <1>4. ASSUME NEW k \in Nat \ {0}, NEW most \in Nat,
               n * (k * f) <= d * (most * 10), m * (k * g) = e * (most * 10)
        PROVE  (f * n) * e <= (g * m) * d
    <2> DEFINE x == n * (k * f)
               y == d * (most * 10)
    <2>1. x \in Int /\ y \in Int /\ x <= y
      BY <1>1, <1>4
    <2>2. e * x <= e * y
      <3> HIDE DEF x, y
      <3> QED BY <2>1, <1>1, TimesOrder
    <2>3. e * y = d * (e * (most * 10))
      BY <1>1, <1>4
    <2>4. d * (e * (most * 10)) = d * (m * (k * g))
      BY <1>4
    <2>5. e * x = k * ((f * n) * e) /\ d * (m * (k * g)) = k * ((g * m) * d)
      BY <1>1, <1>4
    <2> DEFINE u == (f * n) * e
               v == (g * m) * d
    <2>6. u \in Int /\ v \in Int
      BY <1>1
    <2>7. k * u <= k * v
      <3> DEFINE a == e * x
                 b == e * y
                 c == d * (e * (most * 10))
                 z == d * (m * (k * g))
      <3>1. a <= b /\ b = c /\ c = z /\ a = k * u /\ z = k * v
        BY <2>2, <2>3, <2>4, <2>5
      <3> HIDE DEF a, b, c, z, u, v
      <3> QED BY <3>1
    <2> HIDE DEF u, v
    <2>8. u <= v
      BY <2>6, <2>7, Cancel
    <2> QED BY <2>8 DEF u, v
  <1>5. CASE IsValid(monitor) /\ m * (source.width * g) = e * (monitor.width * 10)
    <2>1. n * (source.width * f) <= d * (monitor.width * 10)
      BY <1>5 DEF Fits, Enlarged, Room
    <2> QED BY <2>1, <1>2, <1>4, <1>5
  <1>6. CASE IsValid(monitor) /\ m * (source.height * g) = e * (monitor.height * 10)
    <2>1. n * (source.height * f) <= d * (monitor.height * 10)
      BY <1>6 DEF Fits, Enlarged, Room
    <2> QED BY <2>1, <1>2, <1>4, <1>6
  <1> QED BY <1>3, <1>5, <1>6 DEF Fits, Enlarged, Room

\* Once a side fills the monitor, any factor leaves it there.
LEMMA FullSide ==
  ASSUME NEW n \in Nat \ {0}, NEW d \in Nat \ {0}, NEW g \in Nat, g >= 10,
         NEW full \in Nat \ {0}, NEW side \in Nat \ {0}, NEW most \in Nat \ {0}, side <= most,
         Enlarged(n, full, g) <= Room(d, full),
         \/ n = d
         \/ Enlarged(n, full, g) = Room(d, full)
         \/ Enlarged(n, side, g) = Room(d, most)
  PROVE  g * n = 10 * d
  <1> DEFINE a == g * n
             b == 10 * d
  <1>1. a \in Int /\ b \in Int
    OBVIOUS
  <1>2. /\ Enlarged(n, full, g) = full * a /\ Room(d, full) = full * b
        /\ Enlarged(n, side, g) = side * a /\ Room(d, most) = most * b
    BY DEF Enlarged, Room
  <1>3. full * a <= full * b
    BY <1>2
  <1>4. a <= b
    <2> HIDE DEF a, b
    <2> QED BY <1>1, <1>3, Cancel
  <1>5. CASE n = d
    <2>1. d * 10 <= d * g
      BY TimesOrder
    <2>2. d * 10 = b /\ d * g = a
      BY <1>5
    <2> HIDE DEF a, b
    <2>3. b <= a
      BY <2>1, <2>2
    <2>4. a = b
      BY <2>3, <1>1, <1>4
    <2> QED BY <2>4 DEF a, b
  <1>6. CASE Enlarged(n, full, g) = Room(d, full)
    <2> HIDE DEF a, b
    <2>1. full * a = full * b
      BY <1>2, <1>6
    <2>2. a = b
      BY <1>1, <2>1, Cancel
    <2> QED BY <2>2 DEF a, b
  <1>7. CASE Enlarged(n, side, g) = Room(d, most)
    <2>1. b \in Nat \ {0}
      OBVIOUS
    <2> HIDE DEF a, b
    <2>2. side * a = most * b
      BY <1>2, <1>7
    <2>3. b * side <= b * most
      BY <2>1, TimesOrder
    <2>4. b * side = side * b /\ b * most = most * b
      BY <2>1
    <2>5. side * b <= side * a
      BY <2>2, <2>3, <2>4
    <2>6. b <= a
      BY <1>1, <2>5, Cancel
    <2>7. a = b
      BY <2>6, <1>1, <1>4
    <2> QED BY <2>7 DEF a, b
  <1> QED BY <1>5, <1>6, <1>7

\* What fills the monitor at a small factor is as large at a greater one.
LEMMA FullShare ==
  ASSUME NEW n \in Nat \ {0}, NEW d \in Nat \ {0}, NEW g \in Nat \ {0},
         NEW m \in Nat \ {0}, NEW e \in Nat \ {0},
         NEW length \in Nat \ {0}, NEW most \in Nat,
         Enlarged(n, length, 10) = Room(d, most),
         Enlarged(m, length, g) <= Room(e, most)
  PROVE  Share(g, m, d) <= Share(10, n, e)
  <1> DEFINE x == (g * m) * d
             y == (10 * n) * e
             a == m * (length * g)
             b == e * (most * 10)
  <1>1. x \in Int /\ y \in Int /\ a \in Int /\ b \in Int /\ a <= b
    BY DEF Enlarged, Room
  <1>2. d * a <= d * b
    <2> HIDE DEF a, b
    <2> QED BY <1>1, TimesOrder
  <1>3. d * a = length * x
    OBVIOUS
  <1>4. d * b = length * y
    <2>1. n * (length * 10) = d * (most * 10)
      BY DEF Enlarged, Room
    <2>2. d * b = e * (d * (most * 10)) /\ length * y = e * (n * (length * 10))
      OBVIOUS
    <2> QED BY <2>1, <2>2, Zenon
  <1>5. length * x <= length * y
    <2> HIDE DEF a, b, x, y
    <2> QED BY <1>2, <1>3, <1>4
  <1>6. x <= y
    <2> HIDE DEF x, y
    <2> QED BY <1>1, <1>5, Cancel
  <1> QED BY <1>6 DEF Share

LEMMA PresetsAre ==
  ASSUME NEW source, NEW monitor, NEW factor \in PresetFactors
  PROVE  PresetResolutions(source, monitor, factor) = OutputResolutions(source, factor, monitor)
  <1>1. Max({10, factor}) = factor
    BY MaxOfTwo DEF PresetFactors
  <1> QED BY <1>1, Zenon DEF PresetResolutions

LEMMA SameOutput ==
  ASSUME NEW a, NEW b, a.width = b.width, a.height = b.height, NEW factor, NEW monitor
  PROVE  OutputResolutions(a, factor, monitor) = OutputResolutions(b, factor, monitor)
  <1>1. IsValid(a) = IsValid(b)
    BY DEF IsValid
  <1>2. Shrink(a, factor, monitor) = Shrink(b, factor, monitor)
    BY DEF Shrink
  <1> QED BY <1>1, <1>2 DEF OutputResolutions

\* A side that is shrunk by as much as it is enlarged is what it was.
LEMMA SideKept ==
  ASSUME NEW length \in Nat \ {0}, NEW factor \in Nat \ {0}, NEW n \in Nat \ {0},
         NEW d \in Nat \ {0}, factor * n = 10 * d
  PROVE  Picked(length, factor, n, d) = {length} /\ Visible(length) = length
  <1>1. length * factor * n = length * (10 * d)
    <2>1. length * factor * n = length * (factor * n)
      OBVIOUS
    <2> QED BY <2>1, Zenon
  <1>2. 10 * d \in Nat \ {0}
    OBVIOUS
  <1>3. Nearest(length * (10 * d), 10 * d) = {length} /\ Rounded(length * (10 * d), 10 * d) = length
    BY <1>2, RoundedExact
  <1>4. Picked(length, factor, n, d) = {length}
    BY <1>1, <1>3, Zenon DEF Picked, Near
  <1> QED BY <1>4 DEF Visible

LEMMA OutputIsSize ==
  ASSUME NEW source, IsSize(source), IsValid(source), NEW factor \in Nat \ {0},
         NEW monitor, IsSize(monitor), NEW output \in OutputResolutions(source, factor, monitor)
  PROVE  IsSize(output) /\ IsValid(output)
  <1>1. PICK n, d :
            /\ Fits(n, d, source, factor, monitor)
            /\ \A o : o \in OutputResolutions(source, factor, monitor) <=>
                  \E s \in Picked(source.width, factor, n, d),
                     t \in Picked(source.height, factor, n, d) :
                        o = Resolution(Visible(s), Visible(t))
    BY OutputsAre
  <1>2. source.width \in Nat \ {0} /\ source.height \in Nat \ {0}
    BY DEF IsSize, IsValid
  <1>3. n \in Nat \ {0} /\ d \in Nat \ {0}
    BY <1>1 DEF Fits
  <1>4. PICK s \in Picked(source.width, factor, n, d), t \in Picked(source.height, factor, n, d) :
          output = Resolution(Visible(s), Visible(t))
    BY <1>1
  <1>5. s \in Nat /\ t \in Nat
    BY <1>2, <1>3, NearIs, Zenon
  <1> QED BY <1>4, <1>5 DEF IsSize, IsValid, Resolution, Visible

\* Enlarging what already fits the monitor may give what enlarging the source gives.
LEMMA BaseEnough ==
  ASSUME NEW source, IsSize(source), IsValid(source), NEW monitor, IsSize(monitor),
         NEW g \in Nat, g >= 10,
         NEW base \in OutputResolutions(source, 10, monitor),
         NEW output \in OutputResolutions(base, g, monitor)
  PROVE  output \in OutputResolutions(source, g, monitor)
  <1> DEFINE w == source.width
             h == source.height
             mw == monitor.width
             mh == monitor.height
  <1>1. w \in Nat \ {0} /\ h \in Nat \ {0} /\ mw \in Nat /\ mh \in Nat
    BY DEF IsSize, IsValid
  <1>2. g \in Nat \ {0} /\ 10 \in Nat \ {0}
    OBVIOUS
  <1>3. PICK n, d :
          /\ Fits(n, d, source, 10, monitor)
          /\ \A o : o \in OutputResolutions(source, 10, monitor) <=>
                \E s \in Picked(w, 10, n, d), t \in Picked(h, 10, n, d) :
                   o = Resolution(Visible(s), Visible(t))
    BY <1>2, OutputsAre
  <1>4. n \in Nat \ {0} /\ d \in Nat \ {0} /\ n <= d
    BY <1>3 DEF Fits
  <1>5. PICK s \in Picked(w, 10, n, d), t \in Picked(h, 10, n, d) :
          base = Resolution(Visible(s), Visible(t))
    BY <1>3
  <1>6. /\ s \in Near(w, 10, n, d) /\ s \in Nat
        /\ t \in Near(h, 10, n, d) /\ t \in Nat
    BY <1>1, <1>2, <1>4, NearIs, Zenon
  <1>7. base.width = Visible(s) /\ base.height = Visible(t)
    BY <1>5 DEF Resolution
  <1>8. CASE n = d
    <2>1. 10 * n = 10 * d
      BY <1>8
    <2>2. s = w /\ t = h /\ Visible(w) = w /\ Visible(h) = h
      <3>1. \A length \in Nat \ {0} : Picked(length, 10, n, d) = {length} /\ Visible(length) = length
        BY <2>1, <1>2, <1>4, SideKept
      <3> QED BY <3>1, <1>1, <1>5
    <2>3. source.width = base.width /\ source.height = base.height
      BY <2>2, <1>7
    <2>4. OutputResolutions(base, g, monitor) = OutputResolutions(source, g, monitor)
      BY <2>3, SameOutput
    <2> QED BY <2>4, Zenon
  <1>9. CASE n # d
    <2>1. /\ mw \in Nat \ {0} /\ mh \in Nat \ {0} /\ IsValid(monitor)
      BY <1>1, <1>3, <1>9 DEF Fits, IsValid
    <2>2. /\ Enlarged(n, w, 10) <= Room(d, mw) /\ Enlarged(n, h, 10) <= Room(d, mh)
          /\ Enlarged(n, w, 10) = Room(d, mw) \/ Enlarged(n, h, 10) = Room(d, mh)
      BY <1>3, <1>9, <2>1 DEF Fits
    <2>3. IsSize(base) /\ IsValid(base)
      BY <1>2, OutputIsSize
    <2>4. base.width \in Nat \ {0} /\ base.height \in Nat \ {0}
      BY <2>3 DEF IsSize, IsValid
    <2>5. PICK m, e :
            /\ Fits(m, e, base, g, monitor)
            /\ \A o : o \in OutputResolutions(base, g, monitor) <=>
                  \E u \in Picked(base.width, g, m, e), v \in Picked(base.height, g, m, e) :
                     o = Resolution(Visible(u), Visible(v))
      BY ONLY <1>2, <2>3, IsSize(monitor), OutputsAre
    <2>6. PICK p, q :
            /\ Fits(p, q, source, g, monitor)
            /\ \A o : o \in OutputResolutions(source, g, monitor) <=>
                  \E u \in Picked(w, g, p, q), v \in Picked(h, g, p, q) :
                     o = Resolution(Visible(u), Visible(v))
      BY <1>2, OutputsAre
    <2>7. /\ m \in Nat \ {0} /\ e \in Nat \ {0} /\ p \in Nat \ {0} /\ q \in Nat \ {0}
      BY <2>5, <2>6 DEF Fits
    <2>8. /\ Enlarged(m, base.width, g) <= Room(e, mw)
          /\ Enlarged(m, base.height, g) <= Room(e, mh)
          /\ \/ m = e
             \/ Enlarged(m, base.width, g) = Room(e, mw)
             \/ Enlarged(m, base.height, g) = Room(e, mh)
          /\ Enlarged(p, w, g) <= Room(q, mw)
          /\ Enlarged(p, h, g) <= Room(q, mh)
      BY <2>1, <2>5, <2>6 DEF Fits
    <2>9. /\ \A x \in Near(w, 10, n, d) : x <= mw
          /\ \A x \in Near(h, 10, n, d) : x <= mh
          /\ Enlarged(n, w, 10) = Room(d, mw) => Near(w, 10, n, d) = {mw}
          /\ Enlarged(n, h, 10) = Room(d, mh) => Near(h, 10, n, d) = {mh}
      <3>1. w \in Nat \ {0} /\ h \in Nat \ {0} /\ mw \in Nat /\ mh \in Nat
        BY <1>1
      <3> HIDE DEF w, h, mw, mh
      <3>2. /\ \A x \in Near(w, 10, n, d) : x <= mw
            /\ Enlarged(n, w, 10) = Room(d, mw) => Near(w, 10, n, d) = {mw}
        BY ONLY <3>1, <1>2, <1>4, <2>2, SideAtMost
      <3>3. /\ \A x \in Near(h, 10, n, d) : x <= mh
            /\ Enlarged(n, h, 10) = Room(d, mh) => Near(h, 10, n, d) = {mh}
        BY ONLY <3>1, <1>2, <1>4, <2>2, SideAtMost
      <3> QED BY <3>2, <3>3
    <2>10. base.width <= mw /\ base.height <= mh
      BY <1>6, <1>7, <2>1, <2>9 DEF Visible
    <2>11. g * m = 10 * e
      <3>1. CASE Enlarged(n, w, 10) = Room(d, mw)
        <4>1. base.width = mw
          BY <3>1, <1>6, <1>7, <2>1, <2>9 DEF Visible
        <4> HIDE DEF w, h, mw, mh
        <4> QED BY <4>1, <2>1, <2>4, <2>7, <2>8, <2>10, FullSide
      <3>2. CASE Enlarged(n, h, 10) = Room(d, mh)
        <4>1. base.height = mh
          BY <3>2, <1>6, <1>7, <2>1, <2>9 DEF Visible
        <4> HIDE DEF w, h, mw, mh
        <4> QED BY <4>1, <2>1, <2>4, <2>7, <2>8, <2>10, FullSide
      <3> QED BY <3>1, <3>2, <2>2
    <2>12. output = base
      <3>1. /\ Picked(base.width, g, m, e) = {base.width} /\ Visible(base.width) = base.width
            /\ Picked(base.height, g, m, e) = {base.height} /\ Visible(base.height) = base.height
        <4>1. \A length \in Nat \ {0} : Picked(length, g, m, e) = {length} /\ Visible(length) = length
          BY <2>11, <2>7, <1>2, SideKept
        <4> QED BY <4>1, <2>4
      <3>2. output = Resolution(base.width, base.height)
        BY <2>5, <3>1
      <3>3. base = Resolution(base.width, base.height)
        BY <1>5, <1>7, Zenon
      <3> QED BY <3>2, <3>3, Zenon
    <2>13. Share(10, n, q) = Share(g, p, d)
      <3>1. Share(10, n, q) <= Share(g, p, d)
        BY <1>2, <1>3, <2>6, FitsOrder
      <3>2. Share(g, p, d) <= Share(10, n, q)
        <4>1. CASE Enlarged(n, w, 10) = Room(d, mw)
          <5> HIDE DEF w, h, mw, mh
          <5> QED BY <4>1, <1>1, <1>2, <1>4, <2>7, <2>8, FullShare
        <4>2. CASE Enlarged(n, h, 10) = Room(d, mh)
          <5> HIDE DEF w, h, mw, mh
          <5> QED BY <4>2, <1>1, <1>2, <1>4, <2>7, <2>8, FullShare
        <4> QED BY <4>1, <4>2, <2>2
      <3>3. Share(10, n, q) \in Int /\ Share(g, p, d) \in Int
        BY <1>2, <1>4, <2>7 DEF Share
      <3> QED BY <3>1, <3>2, <3>3
    <2>14. /\ Near(w, 10, n, d) = Near(w, g, p, q)
           /\ Near(h, 10, n, d) = Near(h, g, p, q)
      <3>1. \A length \in Nat \ {0} : Near(length, 10, n, d) = Near(length, g, p, q)
        <4> TAKE length \in Nat \ {0}
        <4>1. /\ length \in Nat \ {0} /\ 10 \in Nat \ {0} /\ g \in Nat \ {0}
              /\ n \in Nat \ {0} /\ d \in Nat \ {0} /\ p \in Nat \ {0} /\ q \in Nat \ {0}
          BY <1>2, <1>4, <2>7
        <4> QED BY ONLY <4>1, <2>13, SideSame
      <3> QED BY <3>1, <1>1
    <2>15. p # q
      <3> SUFFICES ASSUME p = q PROVE FALSE
        OBVIOUS
      <3>1. q * (10 * n) = q * (g * d)
        <4>1. q * (10 * n) = Share(10, n, q) /\ q * (g * d) = Share(g, q, d)
          BY <1>2, <1>4, <2>7 DEF Share
        <4> QED BY <2>13, <4>1
      <3>2. 10 * n \in Int /\ g * d \in Int
        BY <1>2, <1>4
      <3>3. 10 * n = g * d
        <4> DEFINE x == 10 * n
                   y == g * d
        <4>1. x \in Int /\ y \in Int /\ q * x = q * y
          BY <3>1, <3>2
        <4> HIDE DEF x, y
        <4>2. x = y
          BY <4>1, <2>7, Cancel
        <4> QED BY <4>2 DEF x, y
      <3>4. d * 10 <= d * g
        BY <1>4, TimesOrder
      <3> DEFINE y == d * g
      <3>5. y \in Int /\ 10 * n = y /\ 10 * d <= y
        BY <1>4, <3>3, <3>4
      <3> HIDE DEF y
      <3> QED BY <3>5, <1>4, <1>9
    <2>16. s \in Picked(w, g, p, q) /\ t \in Picked(h, g, p, q)
      BY <1>6, <2>14, <2>15, Zenon DEF Picked
    <2> QED BY <1>5, <2>6, <2>12, <2>16, Zenon
  <1> QED BY <1>8, <1>9

\* Of two presets the weaker is not larger but by a pixel of one side: either it has a
\* smaller share, or both fill the same side of the monitor, or they are the same.
LEMMA StrongerPreset ==
  ASSUME NEW source, IsSize(source), IsValid(source), NEW monitor, IsSize(monitor),
         NEW f \in Nat \ {0}, NEW g \in Nat \ {0}, f <= g, f % 5 = 0,
         NEW output \in OutputResolutions(source, f, monitor),
         NEW more \in OutputResolutions(source, g, monitor)
  PROVE  NearlyWithin(output, more)
  <1> DEFINE w == source.width
             h == source.height
             mw == monitor.width
             mh == monitor.height
  <1>1. w \in Nat \ {0} /\ h \in Nat \ {0} /\ mw \in Nat /\ mh \in Nat
    BY DEF IsSize, IsValid
  <1>2. PICK n, d :
          /\ Fits(n, d, source, f, monitor)
          /\ \A o : o \in OutputResolutions(source, f, monitor) <=>
                \E s \in Picked(w, f, n, d), t \in Picked(h, f, n, d) :
                   o = Resolution(Visible(s), Visible(t))
    BY OutputsAre
  <1>3. PICK m, e :
          /\ Fits(m, e, source, g, monitor)
          /\ \A o : o \in OutputResolutions(source, g, monitor) <=>
                \E s \in Picked(w, g, m, e), t \in Picked(h, g, m, e) :
                   o = Resolution(Visible(s), Visible(t))
    <2>1. g \in Nat \ {0}
      OBVIOUS
    <2> QED BY ONLY <2>1, IsSize(source), IsValid(source), IsSize(monitor), OutputsAre
  <1>4. /\ n \in Nat \ {0} /\ d \in Nat \ {0} /\ n <= d
        /\ m \in Nat \ {0} /\ e \in Nat \ {0} /\ m <= e
    BY <1>2, <1>3 DEF Fits
  <1>5. PICK s \in Picked(w, f, n, d), t \in Picked(h, f, n, d) :
          output = Resolution(Visible(s), Visible(t))
    BY <1>2
  <1>6. PICK u \in Picked(w, g, m, e), v \in Picked(h, g, m, e) :
          more = Resolution(Visible(u), Visible(v))
    BY <1>3
  <1>7. /\ output.width = Visible(s) /\ output.height = Visible(t)
        /\ more.width = Visible(u) /\ more.height = Visible(v)
    BY <1>5, <1>6 DEF Resolution
  <1> DEFINE x == Share(f, n, e)
             y == Share(g, m, d)
  <1>8. x \in Int /\ y \in Int /\ x <= y
    <2>1. x \in Int /\ y \in Int
      BY <1>4 DEF Share
    <2>2. x <= y
      BY <1>2, <1>3, FitsOrder
    <2> QED BY <2>1, <2>2
  <1>9. /\ Visible(s) \in Nat /\ Visible(u) \in Nat /\ Visible(t) \in Nat /\ Visible(v) \in Nat
        /\ Visible(s) <= Visible(u) + 1 /\ Visible(t) <= Visible(v) + 1
        /\ x < y => Visible(s) <= Visible(u) /\ Visible(t) <= Visible(v)
    <2>1. \A length \in Nat \ {0} : \A a \in Picked(length, f, n, d), b \in Picked(length, g, m, e) :
             /\ Visible(a) \in Nat /\ Visible(b) \in Nat
             /\ x <= y => Visible(a) <= Visible(b) + 1
             /\ x < y => Visible(a) <= Visible(b)
      <3> TAKE length \in Nat \ {0}
      <3> TAKE a \in Picked(length, f, n, d), b \in Picked(length, g, m, e)
      <3>1. /\ length \in Nat \ {0} /\ f \in Nat \ {0} /\ g \in Nat \ {0}
            /\ n \in Nat \ {0} /\ d \in Nat \ {0} /\ m \in Nat \ {0} /\ e \in Nat \ {0}
            /\ a \in Picked(length, f, n, d) /\ b \in Picked(length, g, m, e)
        BY <1>4
      <3> QED BY ONLY <3>1, PickedOrder
    <2> HIDE DEF x, y
    <2> QED BY <1>1, <1>8, <2>1
  <1>10. CASE x < y
    BY <1>7, <1>9, <1>10 DEF NearlyWithin
  <1>11. CASE x = y
    <2>1. CASE m = e
      <3>1. e * (f * n) = e * (g * d)
        <4>1. x = e * (f * n) /\ y = e * (g * d)
          BY <2>1, <1>4 DEF Share
        <4> QED BY <1>11, <4>1
      <3>2. f * n = g * d
        <4> DEFINE a == f * n
                   b == g * d
        <4>1. a \in Int /\ b \in Int /\ e * a = e * b
          BY <1>4, <3>1
        <4> HIDE DEF a, b
        <4>2. a = b
          BY <1>4, <4>1, Cancel
        <4> QED BY <4>2 DEF a, b
      <3>3. f = g /\ n = d
        <4>1. f * n <= f * d /\ (n < d => f * n < f * d)
          BY <1>4, TimesOrder
        <4>2. d * f <= d * g /\ (f < g => d * f < d * g)
          BY <1>4, TimesOrder
        <4> DEFINE a == f * n
                   b == d * f
                   c == d * g
        <4>3. /\ a \in Int /\ b \in Int /\ c \in Int /\ a = c
              /\ a <= b /\ (n < d => a < b) /\ b <= c /\ (f < g => b < c)
          <5>1. f * d = b /\ g * d = c
            BY <1>4
          <5> QED BY <1>4, <3>2, <4>1, <4>2, <5>1
        <4> HIDE DEF a, b, c
        <4> QED BY <1>4, <4>3
      <3>4. \A length \in Nat \ {0} : Picked(length, f, n, d) = Picked(length, g, m, e)
        BY <1>4, <2>1, <3>3, PickedWhole
      <3>5. \A length \in Nat \ {0} : \A a, b \in Picked(length, f, n, d) : a = b
        BY <3>3, Zenon DEF Picked
      <3>6. s = u /\ t = v
        BY <1>1, <3>4, <3>5, Zenon
      <3>7. output.width = more.width /\ output.height = more.height
        BY <1>7, <3>6, Zenon
      <3> QED BY <1>7, <1>9, <3>7 DEF NearlyWithin
    <2>2. CASE m # e
      <3>1. /\ mw \in Nat /\ mh \in Nat
            /\ Enlarged(m, w, g) = Room(e, mw) \/ Enlarged(m, h, g) = Room(e, mh)
        BY <1>1, <1>3, <2>2 DEF Fits
      <3>2. \A length \in Nat \ {0} :
              /\ Near(length, f, n, d) = Near(length, g, m, e)
              /\ Picked(length, f, n, d) \subseteq Near(length, f, n, d)
              /\ Picked(length, g, m, e) \subseteq Near(length, g, m, e)
        <4> TAKE length \in Nat \ {0}
        <4>1. /\ length \in Nat \ {0} /\ f \in Nat \ {0} /\ g \in Nat \ {0}
              /\ n \in Nat \ {0} /\ d \in Nat \ {0} /\ m \in Nat \ {0} /\ e \in Nat \ {0}
          BY <1>4
        <4>2. Share(f, n, e) = Share(g, m, d)
          BY <1>11
        <4>3. Near(length, f, n, d) = Near(length, g, m, e)
          BY ONLY <4>1, <4>2, SideSame
        <4> QED BY <4>1, <4>3, NearIs, Zenon
      <3>3. /\ s \in Near(w, g, m, e) /\ u \in Near(w, g, m, e)
            /\ t \in Near(h, g, m, e) /\ v \in Near(h, g, m, e)
        BY <1>1, <3>2, Zenon
      <3>4. CASE Enlarged(m, w, g) = Room(e, mw)
        <4>1. Near(w, g, m, e) = {mw}
          BY <1>1, <1>4, <3>4, SideAtMost
        <4>2. s = u
          BY <3>3, <4>1, Zenon
        <4> QED BY <4>2, <1>7, <1>9 DEF NearlyWithin
      <3>5. CASE Enlarged(m, h, g) = Room(e, mh)
        <4>1. Near(h, g, m, e) = {mh}
          BY <1>1, <1>4, <3>5, SideAtMost
        <4>2. t = v
          BY <3>3, <4>1, Zenon
        <4> QED BY <4>2, <1>7, <1>9 DEF NearlyWithin
      <3> QED BY <3>1, <3>4, <3>5
    <2> QED BY <2>1, <2>2
  <1> QED BY <1>8, <1>10, <1>11

\* Presets multiply the base and are ordered, up to a pixel (preset_resolution).
THEOREM PresetsAreMultiples ==
  ASSUME NEW source, IsSize(source), NEW monitor, IsSize(monitor)
  PROVE  PresetsMultiplyBase(source, monitor)
  <1> SUFFICES
        ASSUME IsValid(source), NEW factor \in PresetFactors
        PROVE  /\ \A base \in PresetResolutions(source, monitor, 10) :
                     PresetResolutions(base, monitor, factor)
                       \subseteq PresetResolutions(source, monitor, factor)
               /\ \A stronger \in {f \in PresetFactors : f >= factor} :
                     \A output \in PresetResolutions(source, monitor, factor),
                        more \in PresetResolutions(source, monitor, stronger) :
                           NearlyWithin(output, more)
    BY Zenon DEF PresetsMultiplyBase
  <1>1. \A f \in PresetFactors : f \in Nat \ {0} /\ f >= 10 /\ f % 5 = 0
    BY DEF PresetFactors
  <1>2. 10 \in PresetFactors
    BY DEF PresetFactors
  <1>3. \A size, f : f \in PresetFactors =>
           PresetResolutions(size, monitor, f) = OutputResolutions(size, f, monitor)
    BY PresetsAre, Zenon
  <1>4. ASSUME NEW base \in PresetResolutions(source, monitor, 10),
               NEW output \in PresetResolutions(base, monitor, factor)
        PROVE  output \in PresetResolutions(source, monitor, factor)
    <2>1. /\ base \in OutputResolutions(source, 10, monitor)
          /\ output \in OutputResolutions(base, factor, monitor)
      BY <1>2, <1>3, <1>4, Zenon
    <2>2. output \in OutputResolutions(source, factor, monitor)
      BY <1>1, <2>1, BaseEnough
    <2> QED BY <1>3, <2>2, Zenon
  <1>5. ASSUME NEW stronger \in PresetFactors, stronger >= factor,
               NEW output \in PresetResolutions(source, monitor, factor),
               NEW more \in PresetResolutions(source, monitor, stronger)
        PROVE  NearlyWithin(output, more)
    <2>1. /\ output \in OutputResolutions(source, factor, monitor)
          /\ more \in OutputResolutions(source, stronger, monitor)
      BY <1>3, <1>5, Zenon
    <2>2. factor \in Nat \ {0} /\ stronger \in Nat \ {0} /\ factor <= stronger /\ factor % 5 = 0
      BY <1>1, <1>5
    <2> QED BY <2>1, <2>2, StrongerPreset
  <1> QED BY <1>4, <1>5, Zenon

-----------------------------------------------------------------------------

\* A captured channel keeps its value (the FrameArrived callback).
THEOREM AlphaIsStraight ==
  ASSUME NEW value \in 0 .. 255, NEW alpha \in 0 .. 255
  PROVE  StraightAlpha(value, alpha)
  <1> SUFFICES ASSUME value <= alpha
      PROVE  /\ Unpremultiplied(value, alpha) \in value .. 255
             /\ alpha # 0 => Rounded(Unpremultiplied(value, alpha) * alpha, 255) = value
    BY DEF StraightAlpha
  <1>1. CASE alpha = 0
    BY <1>1 DEF Unpremultiplied
  <1>2. CASE alpha = 255
    <2>1. Unpremultiplied(value, alpha) = value
      BY <1>2 DEF Unpremultiplied
    <2>2. Rounded(value * 255, 255) = value
      BY RoundedExact
    <2> QED BY <2>1, <2>2, <1>2
  <1>3. CASE alpha \in 1 .. 254
    <2> DEFINE half == alpha \div 2
               a == value * 255 + half
               q == a \div alpha
    <2>1. half \in Nat /\ 2 * half <= alpha /\ alpha <= 2 * half + 1
      BY <1>3
    <2>2. a \in Nat /\ alpha \in Int /\ alpha > 0
      BY <2>1, <1>3
    <2>3. q \in Int /\ a = alpha * q + (a % alpha) /\ a % alpha \in Int /\ a % alpha >= 0 /\ a % alpha < alpha
      <3> HIDE DEF a
      <3> QED BY <2>2, DivMod
    <2> DEFINE p == alpha * q
    <2>4. p \in Int /\ p <= a /\ a < p + alpha
      <3> HIDE DEF a, q
      <3>1. p \in Int
        BY <2>2, <2>3
      <3> DEFINE r == a % alpha
      <3>2. a = p + r /\ r \in Int /\ r >= 0 /\ r < alpha
        BY <2>3
      <3> HIDE DEF p, r
      <3> QED BY <3>1, <3>2, <2>2
    <2>5. value <= q
      <3> SUFFICES ASSUME q < value PROVE FALSE
        BY <2>3
      <3>1. alpha * q + alpha <= alpha * value
        <4> HIDE DEF q
        <4> QED BY <2>2, <2>3, TimesOrder
      <3>2. value * alpha <= value * 255
        <4>1. CASE value = 0
          BY <4>1
        <4>2. CASE value > 0
          BY <4>2, TimesOrder
        <4> QED BY <4>1, <4>2
      <3> DEFINE s == alpha * value
      <3>3. s \in Int /\ s <= value * 255 /\ p + alpha <= s
        BY <3>1, <3>2
      <3> HIDE DEF p, s, half, q
      <3> QED BY <3>3, <2>1, <2>2, <2>4
    <2>6. q <= 255
      <3> SUFFICES ASSUME 255 < q PROVE FALSE
        BY <2>3
      <3>1. alpha * 255 + alpha <= alpha * q
        <4> HIDE DEF q
        <4> QED BY <2>2, <2>3, TimesOrder
      <3>2. alpha * 255 + alpha <= p
        BY <3>1
      <3> HIDE DEF p, half, q
      <3> QED BY <3>2, <2>1, <2>2, <2>4
    <2>7. Unpremultiplied(value, alpha) = q
      <3>1. Unpremultiplied(value, alpha) = Min({255, q})
        BY <1>3 DEF Unpremultiplied
      <3> HIDE DEF q
      <3>2. Min({255, q}) = IF 255 <= q THEN 255 ELSE q
        <4>1. q \in Int
          BY <2>3
        <4> QED BY ONLY <4>1, MaxOfTwo
      <3> QED BY <3>1, <3>2, <2>3, <2>6
    <2>8. Rounded(q * alpha, 255) = value
      <3>1. q * alpha = p
        <4> HIDE DEF q
        <4> QED BY <2>2, <2>3
      <3>2. Rounded(p, 255) = (2 * p + 255) \div 510
        BY DEF Rounded
      <3> HIDE DEF p, q
      <3>3. 510 * value <= 2 * p + 255 /\ 2 * p + 255 < 510 * value + 510
        <4> HIDE DEF half
        <4> QED BY <2>1, <2>2, <2>4, <1>3
      <3>4. (2 * p + 255) \div 510 = value
        BY <3>3, <2>4
      <3> QED BY <3>1, <3>2, <3>4
    <2> HIDE DEF q
    <2> QED BY <2>3, <2>5, <2>6, <2>7, <2>8
  <1> QED BY <1>1, <1>2, <1>3

LEMMA NearestEvenIs ==
  ASSUME NEW n \in Nat, NEW d \in Nat \ {0}
  PROVE  LET s == NearestEven(n, d) IN
         s \in Nat /\ d * (2 * s - 1) <= 2 * n /\ 2 * n <= d * (2 * s + 1)
  <1>1. NearestEven(n, d) \in Nearest(n, d)
    BY NearestIs, Zenon DEF NearestEven
  <1> HIDE DEF NearestEven
  <1> QED BY <1>1, NearestIs

\* The float of a byte is within half a digit of the exact quotient, and below 1.
LEMMA ColorIs ==
  ASSUME NEW byte \in 0 .. 255
  PROVE  \E k \in Powers, c \in 0 .. FloatUnit :
            /\ Color(byte) = [digits |-> c, scale |-> k]
            /\ 255 * (2 * c - 1) <= 2 * ((byte * k) * FloatUnit)
            /\ 2 * ((byte * k) * FloatUnit) <= 255 * (2 * c + 1)
  <1> DEFINE Suits(k) == byte = 0 \/ byte * k \in 128 .. 255
             k == CHOOSE p \in Powers : Suits(p)
             c == NearestEven(byte * k * FloatUnit, 255)
  <1>1. \E p \in Powers : Suits(p)
    <2>1. CASE byte = 0
      BY <2>1 DEF Powers
    <2>2. CASE byte \in 1 .. 15
      <3>1. \/ byte * 8 \in 64 .. 127 \/ byte * 8 \in 32 .. 63
            \/ byte * 8 \in 16 .. 31 \/ byte * 8 \in 8 .. 15
        BY <2>2
      <3>2. \/ byte * 16 \in 128 .. 255 \/ byte * 32 \in 128 .. 255
            \/ byte * 64 \in 128 .. 255 \/ byte * 128 \in 128 .. 255
        BY <3>1
      <3>3. {16, 32, 64, 128} \subseteq Powers
        BY DEF Powers
      <3> QED BY <3>2, <3>3
    <2>3. CASE byte \in 16 .. 255
      <3>1. \/ byte * 1 \in 128 .. 255 \/ byte * 2 \in 128 .. 255
            \/ byte * 4 \in 128 .. 255 \/ byte * 8 \in 128 .. 255
        BY <2>3
      <3>2. {1, 2, 4, 8} \subseteq Powers
        BY DEF Powers
      <3> QED BY <3>1, <3>2
    <2> QED BY <2>1, <2>2, <2>3
  <1>2. k \in Powers /\ Suits(k)
    BY <1>1, Zenon
  <1>3. Color(byte) = [digits |-> c, scale |-> k]
    BY DEF Color
  <1> HIDE DEF k
  <1>4. k \in Nat \ {0} /\ FloatUnit \in Nat
    BY <1>2, FloatAssumption DEF Powers
  <1> DEFINE a == byte * k
             n == a * FloatUnit
  <1>5. a \in 0 .. 255
    BY <1>2, <1>4
  <1> HIDE DEF a
  <1>6. n \in Nat /\ n <= 255 * FloatUnit
    <2>1. FloatUnit * a <= FloatUnit * 255
      BY <1>4, <1>5, FloatAssumption, TimesOrder
    <2>2. FloatUnit * a = n /\ n \in Nat
      BY <1>4, <1>5
    <2> HIDE DEF n
    <2> QED BY <2>1, <2>2, <1>4
  <1>7. c = NearestEven(n, 255)
    BY DEF a
  <1> HIDE DEF n, c
  <1>8. c \in Nat /\ 255 * (2 * c - 1) <= 2 * n /\ 2 * n <= 255 * (2 * c + 1)
    BY <1>6, <1>7, NearestEvenIs
  <1>9. c \in 0 .. FloatUnit
    BY <1>4, <1>6, <1>8
  <1> QED BY <1>2, <1>3, <1>8, <1>9 DEF n, a

\* What is left of the two roundings is less than half.
LEMMA ByteComesBack ==
  ASSUME NEW byte \in 0 .. 255
  PROVE  ToByte(Color(byte)) = byte
  <1> DEFINE color == Color(byte)
             least == Min({color.digits, FloatUnit * color.scale})
             q == (510 * least) \div (FloatUnit * color.scale)
             unit == CHOOSE p \in Powers : q \in p \div 2 .. p - 1
             digits == NearestEven(510 * least, color.scale * unit)
             F == FloatUnit
  <1>0. ToByte(Color(byte)) = Rounded(digits * unit, 2 * F)
    BY Zenon DEF ToByte
  <1> HIDE DEF digits, unit, q, least, color
  <1>1. F \in Nat /\ F >= 512
    BY FloatAssumption
  <1>2. PICK k \in Powers, c \in 0 .. F :
          /\ Color(byte) = [digits |-> c, scale |-> k]
          /\ 255 * (2 * c - 1) <= 2 * ((byte * k) * F)
          /\ 2 * ((byte * k) * F) <= 255 * (2 * c + 1)
    BY ColorIs
  <1>3. k \in Nat \ {0} /\ k >= 1 /\ c \in Nat /\ c <= F
    BY <1>1, <1>2 DEF Powers
  <1> HIDE DEF F
  <1> DEFINE one == F * k
  <1>4. one \in Nat \ {0} /\ F <= one /\ one = k * F
    <2>1. F * 1 <= F * k
      BY <1>1, <1>3, TimesOrder
    <2>2. one \in Nat /\ F * 1 = F /\ one = k * F
      BY <1>1, <1>3
    <2> HIDE DEF one
    <2> QED BY <1>1, <2>1, <2>2 DEF one
  <1>5. color.scale = k /\ least = c /\ q = (510 * c) \div one
    <2>1. color.digits = c /\ color.scale = k
      BY <1>2 DEF color
    <2>2. Min({c, one}) = c
      <3> HIDE DEF one
      <3>1. c \in Int /\ one \in Int /\ c <= one
        BY <1>1, <1>3, <1>4
      <3> QED BY ONLY <3>1, MaxOfTwo
    <2>3. least = c
      BY <2>1, <2>2, Zenon DEF least, F
    <2> QED BY <2>1, <2>3, Zenon DEF q, F
  <1> HIDE DEF one
  <1> DEFINE h == 510 * c
  <1>6. q \in 0 .. 510
    <2>1. h \in Nat /\ h <= one * 510
      BY <1>1, <1>3, <1>4
    <2>0. q = h \div one
      BY <1>5
    <2> HIDE DEF h
    <2>2. q \in Int /\ h = one * q + (h % one) /\ h % one \in Int /\ h % one >= 0 /\ h % one < one
      BY <1>4, <2>0, <2>1, DivMod
    <2>3. 510 < q => one * 510 + one <= one * q
      BY <1>4, <2>2, TimesOrder
    <2>4. q < 0 => one * q + one <= one * 0
      BY <1>4, <2>2, TimesOrder
    <2> DEFINE b == one * q
               r == h % one
    <2>5. /\ b \in Int /\ r \in Int /\ h = b + r /\ r >= 0 /\ r < one
          /\ (510 < q => one * 510 + one <= b) /\ (q < 0 => b + one <= 0)
      BY <1>4, <2>2, <2>3, <2>4
    <2> HIDE DEF b, r
    <2> QED BY <1>4, <2>1, <2>2, <2>5
  <1>7. unit \in Powers
    <2>1. \E p \in Powers : q \in p \div 2 .. p - 1
      BY <1>6 DEF Powers
    <2> QED BY <2>1, Zenon DEF unit
  <1>8. unit \in 1 .. 512
    BY <1>7 DEF Powers
  <1> DEFINE n == k * unit
  <1>9. n \in Nat \ {0}
    BY <1>3, <1>8
  <1>10. /\ digits \in Nat /\ n * (2 * digits - 1) <= 2 * (510 * c)
         /\ 2 * (510 * c) <= n * (2 * digits + 1)
    <2>1. h \in Nat /\ h = 510 * c
      BY <1>3
    <2>2. digits = NearestEven(h, n)
      BY <1>5, Zenon DEF digits
    <2> HIDE DEF n, h
    <2> QED BY <1>9, <2>1, <2>2, NearestEvenIs
  <1> DEFINE a == digits * unit
             b == byte * F
             x == k * (2 * (a - 2 * b))
  <1>11. x <= k * unit + 510 /\ -(k * unit + 510) <= x /\ x \in Int
    <2> DEFINE u == k * (digits * unit)
               v == (byte * k) * F
    <2>1. /\ n * (2 * digits - 1) = 2 * u - n /\ n * (2 * digits + 1) = 2 * u + n
          /\ x = 2 * u - 4 * v /\ u \in Int /\ v \in Int
      BY <1>1, <1>3, <1>8, <1>10
    <2> HIDE DEF n, u, v, x
    <2>2. 2 * u - 4 * v <= n + 510 /\ -(n + 510) <= 2 * u - 4 * v
      BY <1>2, <1>3, <1>9, <1>10, <2>1 DEF v
    <2> QED BY <2>1, <2>2 DEF n
  <1>12. a \in Nat /\ b \in Nat /\ 2 * (a - 2 * b) \in Int
    BY <1>1, <1>8, <1>10
  <1>13. k * unit + 510 < k * (2 * F)
    <2>1. k * unit <= k * 512 /\ k * 512 <= k * F
      BY <1>1, <1>3, <1>8, TimesOrder
    <2> DEFINE u == k * unit
               v == k * F
    <2>2. u \in Int /\ v \in Int /\ u <= k * 512 /\ k * 512 <= v /\ k * (2 * F) = 2 * v
      BY <1>1, <1>3, <1>8, <2>1
    <2> HIDE DEF u, v
    <2>3. u + 510 < 2 * v
      BY <1>3, <2>2
    <2> QED BY <2>2, <2>3 DEF u
  <1>14. 2 * (a - 2 * b) < 2 * F /\ -(2 * F) < 2 * (a - 2 * b)
    <2> DEFINE y == 2 * (a - 2 * b)
               z == 2 * F
               v == k * unit
    <2>1. k * y = x /\ y \in Int /\ z \in Int /\ -z \in Int /\ v \in Int
      BY <1>1, <1>3, <1>8, <1>12
    <2> HIDE DEF y, z, x, a, b
    <2>2. k * (-z) = -(k * z) /\ k * z \in Int /\ k * y \in Int
      BY <1>3, <2>1
    <2>3. z <= y => k * z <= k * y
      BY <1>3, <2>1, TimesOrder
    <2>4. y <= -z => k * y <= k * (-z)
      BY <1>3, <2>1, TimesOrder
    <2>5. x <= v + 510 /\ -(v + 510) <= x /\ v + 510 < k * z /\ x \in Int
      BY <1>11, <1>13 DEF z
    <2> DEFINE t == k * z
    <2> HIDE DEF v, t
    <2>6. ~(t <= x) /\ ~(x <= -t)
      BY <2>1, <2>2, <2>5 DEF t
    <2>7. y < z /\ -z < y
      BY <2>1, <2>2, <2>3, <2>4, <2>6 DEF t
    <2> QED BY <2>7 DEF y, z
  <1> HIDE DEF a, x
  <1> DEFINE r == Rounded(a, 2 * F)
  <1>15. r \in Nat /\ 2 * ((2 * F) * r) <= 2 * a + 2 * F
         /\ 2 * a + 2 * F < 2 * ((2 * F) * r) + 2 * (2 * F)
    BY <1>1, <1>12, RoundedIs
  <1> HIDE DEF r
  <1>16. r = byte
    <2> DEFINE e == F * r
    <2>1. e \in Int /\ (2 * F) * r = 2 * e /\ b = F * byte
      BY <1>1, <1>15
    <2>2. (r < byte => e + F <= F * byte) /\ (byte < r => F * byte + F <= e)
      BY <1>1, <1>15, TimesOrder
    <2> HIDE DEF e
    <2>3. 2 * (2 * e) <= 2 * a + 2 * F /\ 2 * a + 2 * F < 2 * (2 * e) + 4 * F
      BY <1>1, <1>15, <2>1
    <2> HIDE DEF b
    <2>4. ~(r < byte) /\ ~(byte < r)
      BY <1>1, <1>12, <1>14, <2>1, <2>2, <2>3
    <2> QED BY <1>15, <2>4
  <1> QED BY <1>0, <1>16 DEF r, a

\* Colors survive the way into a tensor and back.
THEOREM ColorsComeBack ==
  ASSUME NEW bytes, bytes[1] \in 0 .. 255, bytes[2] \in 0 .. 255, bytes[3] \in 0 .. 255,
         NEW format
  PROVE  ColorsKept(bytes, format)
  <1>1. /\ ToByte(Color(bytes[1])) = bytes[1]
        /\ ToByte(Color(bytes[2])) = bytes[2]
        /\ ToByte(Color(bytes[3])) = bytes[3]
    BY ByteComesBack
  <1> DEFINE pixel == Pixel(Colors(bytes, format), bytes[4])
  <1>2. CASE format = "bgra8"
    <2>1. pixel = <<bytes[1], bytes[2], bytes[3], bytes[4]>>
      BY <1>1, <1>2, Zenon DEF Colors, Pixel
    <2>2. Shows(pixel, "bgra8") = Shows(bytes, "bgra8")
      BY <2>1 DEF Shows
    <2> QED BY <1>2, <2>2, Zenon DEF ColorsKept
  <1>3. CASE format # "bgra8"
    <2>1. pixel = <<bytes[3], bytes[2], bytes[1], bytes[4]>>
      BY <1>1, <1>3, Zenon DEF Colors, Pixel
    <2>2. Shows(pixel, "bgra8") = Shows(bytes, format)
      BY <1>3, <2>1 DEF Shows
    <2> QED BY <2>2, Zenon DEF ColorsKept
  <1> QED BY <1>2, <1>3

\* An interpolated pixel is as opaque as something between its neighbours.
THEOREM AlphaStaysBetween ==
  ASSUME NEW first \in 0 .. 255, NEW second \in 0 .. 255
  PROVE  AlphaBetween(first, second)
  <1>1. InterpolatedAlpha(first, second) = (2 * (first + second) + 2) \div 4
    BY DEF InterpolatedAlpha, Rounded
  <1>2. InterpolatedAlpha(second, first) = (2 * (first + second) + 2) \div 4
    BY DEF InterpolatedAlpha, Rounded
  <1>3. /\ Max({first, second}) = IF first >= second THEN first ELSE second
        /\ Min({first, second}) = IF first <= second THEN first ELSE second
    BY MaxOfTwo
  <1>4. (2 * (first + second) + 2) \div 4 \in Min({first, second}) .. Max({first, second})
    BY <1>3
  <1> HIDE DEF InterpolatedAlpha
  <1> QED BY <1>1, <1>2, <1>4 DEF AlphaBetween

\* Where the pixels of a row begin that take their alpha from its i-th.
Begin(i, length, newLength) == (i * newLength + length - 1) \div length

LEMMA BeginIs ==
  ASSUME NEW length \in Nat \ {0}, NEW newLength \in Nat \ {0}, NEW i \in Nat
  PROVE  LET b == Begin(i, length, newLength) IN
         /\ b \in Nat
         /\ i * newLength <= length * b /\ length * b < i * newLength + length
         /\ \A x \in Int : b <= x <=> i * newLength <= x * length
  <1> DEFINE p == i * newLength
             a == p + length - 1
             b == a \div length
  <1>1. p \in Nat
    OBVIOUS
  <1> HIDE DEF p
  <1>2. a \in Nat
    BY <1>1
  <1>3. b \in Int /\ a = length * b + (a % length) /\ a % length \in Int
        /\ a % length >= 0 /\ a % length < length
    <2> HIDE DEF a
    <2> QED BY <1>2, DivMod
  <1> DEFINE q == length * b
             r == a % length
  <1>4. q \in Int /\ a = q + r /\ r \in Int /\ r >= 0 /\ r < length
    <2> HIDE DEF a, b
    <2> QED BY <1>3
  <1>5. p <= q /\ q < p + length
    <2> HIDE DEF q, r
    <2>1. p + length - 1 = q + r
      BY <1>4
    <2> QED BY <2>1, <1>1, <1>4
  <1> HIDE DEF a, b
  <1>6. b \in Nat
    <2> SUFFICES ASSUME b < 0 PROVE FALSE
      BY <1>3
    <2>1. length * b + length <= length * 0
      BY <1>3, TimesOrder
    <2>2. q + length <= 0
      BY <2>1
    <2> HIDE DEF q
    <2> QED BY <2>2, <1>1, <1>4, <1>5
  <1>7. ASSUME NEW x \in Int PROVE b <= x <=> p <= x * length
    <2> DEFINE y == length * x
    <2>0. y \in Int /\ x * length = y
      OBVIOUS
    <2>1. ASSUME b <= x PROVE p <= y
      <3>1. q <= y
        BY <2>1, <1>3, TimesOrder
      <3> HIDE DEF q, y
      <3> QED BY <3>1, <2>0, <1>1, <1>4, <1>5
    <2>2. ASSUME x < b PROVE y < p
      <3>1. y + length <= q
        BY <2>2, <1>3, TimesOrder
      <3> HIDE DEF q, y
      <3> QED BY <3>1, <2>0, <1>1, <1>4, <1>5
    <2> HIDE DEF y
    <2> QED BY <2>0, <2>1, <2>2, <1>1, <1>3
  <1>8. Begin(i, length, newLength) = b
    BY DEF Begin, a, b, p
  <1> QED BY <1>5, <1>6, <1>7, <1>8, Zenon DEF p

LEMMA SourceIndexIs ==
  ASSUME NEW length \in Nat \ {0}, NEW newLength \in Nat \ {0}, NEW x \in 0 .. newLength - 1
  PROVE  LET s == SourceIndex(x, length, newLength) IN
         /\ s \in 0 .. length - 1
         /\ s * newLength <= x * length /\ x * length < (s + 1) * newLength
  <1> DEFINE a == x * length
             s == a \div newLength
  <1>1. a \in Nat
    OBVIOUS
  <1>2. s \in Int /\ a = newLength * s + (a % newLength) /\ a % newLength \in Int
        /\ a % newLength >= 0 /\ a % newLength < newLength
    <2> HIDE DEF a
    <2> QED BY <1>1, DivMod
  <1> DEFINE p == newLength * s
             r == a % newLength
  <1>3. p \in Int /\ p <= a /\ a < p + newLength
    <2>1. a = p + r /\ r \in Int /\ r >= 0 /\ r < newLength /\ p \in Int
      <3> HIDE DEF a, s
      <3> QED BY <1>2
    <2> HIDE DEF a, p, r
    <2> QED BY <2>1
  <1>4. a + length <= newLength * length
    <2>1. length * x + length <= length * newLength
      BY TimesOrder
    <2> QED BY <2>1
  <1> HIDE DEF a, s
  <1>5. s >= 0
    <2> SUFFICES ASSUME s < 0 PROVE FALSE
      BY <1>2
    <2>1. newLength * s + newLength <= newLength * 0
      BY <1>2, TimesOrder
    <2>2. p + newLength <= 0
      BY <2>1
    <2> HIDE DEF p
    <2> QED BY <2>2, <1>1, <1>3
  <1>6. s < length
    <2> SUFFICES ASSUME length <= s PROVE FALSE
      BY <1>2
    <2>1. newLength * length <= p
      BY <1>2, TimesOrder
    <2> DEFINE y == newLength * length
    <2>2. y \in Int /\ y <= p /\ a + length <= y
      BY <2>1, <1>4
    <2> HIDE DEF p, y
    <2> QED BY <2>2, <1>1, <1>3
  <1>7. SourceIndex(x, length, newLength) = s
    <2>1. SourceIndex(x, length, newLength) = Min({length - 1, s})
      BY DEF SourceIndex, s, a
    <2>2. length - 1 \in Int /\ s \in Int
      BY <1>2
    <2>3. Min({length - 1, s}) = IF length - 1 <= s THEN length - 1 ELSE s
      BY ONLY <2>2, MaxOfTwo
    <2> QED BY <2>1, <2>3, <1>2, <1>6
  <1>8. s * newLength = p /\ (s + 1) * newLength = p + newLength
    BY <1>2
  <1>9. s * newLength <= x * length /\ x * length < (s + 1) * newLength
    <2> HIDE DEF p
    <2> QED BY <1>3, <1>8 DEF a
  <1> QED BY <1>2, <1>5, <1>6, <1>7, <1>9

LEMMA IndexOrder ==
  ASSUME NEW k \in Nat \ {0}, NEW a \in Int, NEW b \in Int, a <= b, NEW s \in Int, NEW t \in Int,
         s * k <= a, b < (t + 1) * k
  PROVE  s <= t
  <1> SUFFICES ASSUME t < s PROVE FALSE
    OBVIOUS
  <1>1. k * t + k <= k * s
    BY TimesOrder
  <1>2. s * k = k * s /\ (t + 1) * k = k * t + k
    OBVIOUS
  <1> DEFINE p == k * s
             q == k * t
  <1>3. p \in Int /\ q \in Int /\ q + k <= p /\ p <= a /\ b < q + k
    BY <1>1, <1>2
  <1> HIDE DEF p, q
  <1> QED BY <1>3

\* The pixels that take their alpha from the i-th of the source stand together.
LEMMA TakenFrom ==
  ASSUME NEW length \in Nat \ {0}, NEW newLength \in Nat \ {0}, NEW i \in 0 .. length - 1
  PROVE  {x \in 0 .. newLength - 1 : SourceIndex(x, length, newLength) = i} =
            Begin(i, length, newLength) .. Begin(i + 1, length, newLength) - 1
  <1> DEFINE b == Begin(i, length, newLength)
             e == Begin(i + 1, length, newLength)
             Index(x) == SourceIndex(x, length, newLength)
  <1>0. i \in Nat /\ i + 1 \in Nat
    OBVIOUS
  <1>1. b \in Nat /\ \A x \in Int : b <= x <=> i * newLength <= x * length
    BY <1>0, BeginIs
  <1>2. e \in Nat /\ \A x \in Int : e <= x <=> (i + 1) * newLength <= x * length
    BY <1>0, BeginIs
  <1>3. e <= newLength
    <2>1. newLength * (i + 1) <= newLength * length
      BY TimesOrder
    <2>2. (i + 1) * newLength <= newLength * length
      BY <2>1
    <2> QED BY <2>2, <1>2
  <1>4. \A x \in 0 .. newLength - 1 :
          /\ Index(x) \in 0 .. length - 1
          /\ Index(x) * newLength <= x * length /\ x * length < (Index(x) + 1) * newLength
    BY SourceIndexIs
  <1>5. \A x \in Int : x * length \in Int /\ i * newLength \in Int /\ (i + 1) * newLength \in Int
    OBVIOUS
  <1> HIDE DEF b, e, Index
  <1>6. ASSUME NEW x \in 0 .. newLength - 1, Index(x) = i PROVE x \in b .. e - 1
    <2>1. b <= x
      BY <1>1, <1>4, <1>6
    <2>2. ~(e <= x)
      <3> DEFINE y == x * length
                 z == (i + 1) * newLength
      <3>1. y < z
        BY <1>4, <1>6
      <3>2. e <= x <=> z <= y
        BY <1>2
      <3>3. y \in Int /\ z \in Int
        BY <1>5
      <3> HIDE DEF y, z
      <3> QED BY <3>1, <3>2, <3>3
    <2> QED BY <2>1, <2>2, <1>1, <1>2
  <1>7. ASSUME NEW x \in b .. e - 1 PROVE x \in 0 .. newLength - 1 /\ Index(x) = i
    <2>1. x \in 0 .. newLength - 1
      BY <1>1, <1>2, <1>3
    <2> DEFINE y == x * length
    <2>2. i * newLength <= y /\ y < (i + 1) * newLength
      <3>1. b <= x /\ ~(e <= x) /\ x \in Int
        BY <1>1, <1>2
      <3> DEFINE u == i * newLength
                 v == (i + 1) * newLength
      <3>2. u <= y /\ ~(v <= y)
        BY <3>1, <1>1, <1>2
      <3>3. u \in Int /\ v \in Int /\ y \in Int
        BY <3>1, <1>5
      <3> HIDE DEF u, v, y
      <3>4. u <= y /\ y < v
        BY <3>2, <3>3
      <3> QED BY <3>4 DEF u, v
    <2> DEFINE s == Index(x)
    <2>3. s \in Int /\ i \in Int /\ y \in Int /\ s * newLength <= y /\ y < (s + 1) * newLength
      BY <2>1, <1>4
    <2> HIDE DEF y, s
    <2>4. y <= y
      BY <2>3
    <2>5. s <= i
      BY <2>2, <2>3, <2>4, IndexOrder
    <2>6. i <= s
      BY <2>2, <2>3, <2>4, IndexOrder
    <2>7. s = i
      BY <2>3, <2>5, <2>6
    <2> QED BY <2>1, <2>7 DEF s
  <1> QED BY <1>6, <1>7 DEF b, e, Index

\* The rows of an enlarged picture take their alpha evenly (tensor_to_frame).
THEOREM AlphaIsSpread ==
  ASSUME NEW length \in Nat \ {0}, NEW newLength \in Nat \ {0}
  PROVE  AlphaSpread(length, newLength)
  <1> DEFINE Index(x) == SourceIndex(x, length, newLength)
             B(i) == Begin(i, length, newLength)
             taken == [i \in 0 .. length - 1 |-> Cardinality({x \in 0 .. newLength - 1 : Index(x) = i})]
  <1>1. \A x \in 0 .. newLength - 1 :
          /\ Index(x) \in 0 .. length - 1
          /\ Index(x) * newLength <= x * length /\ x * length < (Index(x) + 1) * newLength
    BY SourceIndexIs
  <1>2. ASSUME NEW x \in 0 .. newLength - 1, x > 0 PROVE Index(x - 1) <= Index(x)
    <2> DEFINE s == Index(x - 1)
               t == Index(x)
               y == (x - 1) * length
               z == x * length
    <2>1. x - 1 \in 0 .. newLength - 1
      BY <1>2
    <2>2. /\ s \in Int /\ s * newLength <= y
          /\ t \in Int /\ z < (t + 1) * newLength
      BY <2>1, <1>1
    <2>3. y \in Int /\ z \in Int /\ y <= z
      <3>1. z = y + length
        OBVIOUS
      <3>2. y \in Int
        OBVIOUS
      <3> HIDE DEF y
      <3> QED BY <3>1, <3>2
    <2> HIDE DEF s, t, y, z
    <2>4. s <= t
      BY <2>2, <2>3, IndexOrder
    <2> QED BY <2>4 DEF s, t
  <1>3. \A i \in 0 .. length - 1 :
          /\ B(i) \in Nat /\ B(i + 1) \in Nat
          /\ i * newLength <= length * B(i) /\ length * B(i) < i * newLength + length
          /\ (i + 1) * newLength <= length * B(i + 1)
          /\ length * B(i + 1) < (i + 1) * newLength + length
    <2> TAKE i \in 0 .. length - 1
    <2>1. i \in Nat /\ i + 1 \in Nat
      OBVIOUS
    <2>2. /\ B(i) \in Nat
          /\ i * newLength <= length * B(i) /\ length * B(i) < i * newLength + length
      BY <2>1, BeginIs
    <2>3. /\ B(i + 1) \in Nat
          /\ (i + 1) * newLength <= length * B(i + 1)
          /\ length * B(i + 1) < (i + 1) * newLength + length
      BY <2>1, BeginIs
    <2> QED BY <2>2, <2>3
  <1>4. \A i \in 0 .. length - 1 :
          /\ taken[i] \in Int
          /\ newLength - length + 1 <= length * taken[i]
          /\ length * taken[i] <= newLength + length - 1
    <2> TAKE i \in 0 .. length - 1
    <2> DEFINE b == B(i)
               e == B(i + 1)
    <2>1. taken[i] = Cardinality(b .. e - 1)
      BY TakenFrom
    <2> DEFINE p == length * b
               q == length * e
               u == i * newLength
    <2>2. /\ b \in Nat /\ e \in Nat /\ u \in Int /\ p \in Int /\ q \in Int
          /\ u <= p /\ p < u + length
          /\ u + newLength <= q /\ q < u + newLength + length
      <3>1. (i + 1) * newLength = u + newLength
        OBVIOUS
      <3>2. b \in Nat /\ e \in Nat /\ u \in Int
        BY <1>3
      <3>3. p \in Int /\ q \in Int
        <4> HIDE DEF b, e
        <4> QED BY <3>2
      <3> HIDE DEF Index, taken
      <3> QED BY <3>1, <3>2, <3>3, <1>3
    <2>3. length * (e - b) = q - p
      <3> HIDE DEF b, e
      <3> QED BY <2>2
    <2>4. b <= e
      <3> SUFFICES ASSUME e < b PROVE FALSE
        BY <2>2
      <3>1. q + length <= p
        <4> HIDE DEF b, e
        <4> QED BY <2>2, TimesOrder
      <3> HIDE DEF b, e, p, q, u
      <3> QED BY <3>1, <2>2
    <2>5. Cardinality(b .. e - 1) = e - b
      <3>1. b \in Int /\ e - 1 \in Int
        BY <2>2
      <3> HIDE DEF b, e
      <3>2. Cardinality(b .. e - 1) = IF b > e - 1 THEN 0 ELSE e - 1 - b + 1
        BY <3>1, FS_Interval
      <3> QED BY <3>2, <2>2, <2>4
    <2>6. length * taken[i] = q - p /\ taken[i] \in Int
      <3>1. taken[i] = e - b
        BY <2>1, <2>5
      <3> HIDE DEF b, e, taken, p, q
      <3> QED BY <3>1, <2>2, <2>3
    <2> HIDE DEF b, e, p, q, u, taken
    <2>7. /\ newLength - length + 1 <= q - p /\ q - p <= newLength + length - 1
      BY <2>2
    <2> QED BY <2>6, <2>7
  <1>5. ASSUME NEW i \in 0 .. length - 1, NEW j \in 0 .. length - 1
        PROVE  taken[i] - taken[j] \in -1 .. 1
    <2> DEFINE g == taken[i]
               h == taken[j]
               x == length * g
               y == length * h
    <2>1. /\ g \in Int /\ h \in Int
          /\ newLength - length + 1 <= x /\ x <= newLength + length - 1
          /\ newLength - length + 1 <= y /\ y <= newLength + length - 1
      BY <1>4
    <2> HIDE DEF g, h
    <2>2. x \in Int /\ y \in Int
      BY <2>1
    <2>3. x < y + 2 * length /\ y < x + 2 * length
      <3> HIDE DEF x, y
      <3> QED BY <2>1, <2>2
    <2>4. length * (h + 2) = y + 2 * length /\ length * (g + 2) = x + 2 * length
      BY <2>1
    <2>5. ~(h + 2 <= g)
      <3> SUFFICES ASSUME h + 2 <= g PROVE FALSE
        OBVIOUS
      <3>1. h + 2 \in Int
        BY <2>1
      <3>2. length * (h + 2) <= x
        BY <3>1, <2>1, TimesOrder
      <3>3. y + 2 * length <= x
        BY <3>2, <2>4
      <3> HIDE DEF x, y
      <3> QED BY <3>3, <2>2, <2>3
    <2>6. ~(g + 2 <= h)
      <3> SUFFICES ASSUME g + 2 <= h PROVE FALSE
        OBVIOUS
      <3>1. g + 2 \in Int
        BY <2>1
      <3>2. length * (g + 2) <= y
        BY <3>1, <2>1, TimesOrder
      <3>3. x + 2 * length <= y
        BY <3>2, <2>4
      <3> HIDE DEF x, y
      <3> QED BY <3>3, <2>2, <2>3
    <2>7. g - h \in -1 .. 1
      BY <2>1, <2>5, <2>6
    <2> QED BY <2>7 DEF g, h
  <1> QED BY <1>1, <1>2, <1>5 DEF AlphaSpread

-----------------------------------------------------------------------------
(***************************************************************************)
(* What holds of every input of the specification.                         *)
(***************************************************************************)

InputTypes ==
  /\ function \in {"manifest", "command line", "picture", "pixel"}
  /\ function = "manifest" => IsText(input)
  /\ function = "command line" => input \in Seq(Words)
  /\ function = "picture" =>
       /\ IsSize(input.source) /\ IsSize(input.monitor) /\ input.factor \in Nat
  /\ function = "pixel" => input.value \in 0 .. 255 /\ input.alpha \in 0 .. 255

\* A text that gets a line more is a text.
LEMMA TextAppend ==
  ASSUME NEW text, IsText(text), NEW line, IsLine(line)
  PROVE  IsText(Append(text, line))
  <1> DEFINE T == {text[i] : i \in DOMAIN text} \cup {line}
             longer == Append(text, line)
  <1>1. text \in Seq({text[i] : i \in DOMAIN text}) /\ \A i \in DOMAIN text : IsLine(text[i])
    BY DEF IsText
  <1>2. text \in Seq(T)
    <2>1. {text[i] : i \in DOMAIN text} \subseteq T
      OBVIOUS
    <2> HIDE DEF T
    <2> QED BY <1>1, <2>1
  <1>3. \A t \in T : IsLine(t)
    BY <1>1
  <1>4. longer \in Seq(T)
    <2>1. line \in T
      OBVIOUS
    <2> HIDE DEF T
    <2> QED BY <1>2, <2>1, AppendProperties
  <1> HIDE DEF T, longer
  <1>5. \A i \in DOMAIN longer : longer[i] \in T
    BY <1>4
  <1>6. longer \in Seq({longer[i] : i \in DOMAIN longer})
    <2>1. Len(longer) \in Nat /\ DOMAIN longer = 1 .. Len(longer) /\ longer = [i \in 1 .. Len(longer) |-> longer[i]]
      BY <1>4, LenProperties
    <2>2. longer \in [1 .. Len(longer) -> {longer[i] : i \in DOMAIN longer}]
      BY <2>1
    <2> QED BY <2>1, <2>2
  <1> QED BY <1>3, <1>5, <1>6 DEF IsText, longer

LEMMA InputTypesInit == InputInit => InputTypes
  <1> SUFFICES ASSUME InputInit PROVE InputTypes
    OBVIOUS
  <1>1. CASE function = "manifest" /\ input \in Starts
    BY <1>1, InputAssumption DEF InputTypes
  <1>2. CASE function = "command line" /\ input = <<>>
    <2>1. function = "command line"
      BY <1>2, Zenon
    <2>2. input \in Seq(Words)
      <3>1. <<>> \in Seq(Words)
        OBVIOUS
      <3> QED BY <1>2, <3>1, Zenon
    <2>3. /\ function \in {"manifest", "command line", "picture", "pixel"}
          /\ function # "manifest" /\ function # "picture" /\ function # "pixel"
      BY <2>1
    <2> QED BY <2>2, <2>3 DEF InputTypes
  <1>3. CASE /\ function = "picture"
             /\ input \in [source : Resolutions, monitor : Resolutions, factor : Factors]
    <2>1. input.source \in Resolutions /\ input.monitor \in Resolutions /\ input.factor \in Factors
      BY <1>3
    <2>2. \A resolution \in Resolutions : IsSize(resolution)
      BY DEF Resolutions, IsSize
    <2>3. input.factor \in Nat
      BY <2>1, InputAssumption
    <2> QED BY <1>3, <2>1, <2>2, <2>3 DEF InputTypes
  <1>4. CASE function = "pixel" /\ input \in [value : 0 .. 255, alpha : 0 .. 255]
    BY <1>4 DEF InputTypes
  <1> QED BY <1>1, <1>2, <1>3, <1>4 DEF InputInit

LEMMA InputTypesStep == InputTypes /\ [InputNext]_inputVars => InputTypes'
  <1> SUFFICES ASSUME InputTypes, [InputNext]_inputVars PROVE InputTypes'
    OBVIOUS
  <1>1. CASE AddLine
    <2>1. PICK line \in Lines : input' = Append(input, line)
      BY <1>1 DEF AddLine
    <2>2. function = "manifest" /\ function' = function /\ IsText(input)
      BY <1>1 DEF AddLine, InputTypes
    <2>3. IsText(Append(input, line))
      BY <2>2, InputAssumption, TextAppend
    <2>4. IsText(input')
      BY <2>1, <2>3, Zenon
    <2> QED BY <2>2, <2>4 DEF InputTypes
  <1>2. CASE AddWord
    <2>1. PICK word \in Words : input' = Append(input, word)
      BY <1>2 DEF AddWord
    <2>2. function = "command line" /\ function' = function /\ input \in Seq(Words)
      BY <1>2 DEF AddWord, InputTypes
    <2>3. input' \in Seq(Words)
      BY <2>1, <2>2, AppendProperties
    <2> QED BY <2>2, <2>3 DEF InputTypes
  <1>3. CASE UNCHANGED inputVars
    BY <1>3 DEF InputTypes, inputVars
  <1> QED BY <1>1, <1>2, <1>3 DEF InputNext

\* What is read from a manifest is what is written in it, for every text.
THEOREM FromTextIsExact == InputSpec => []FromTextExact
  <1>1. InputTypes => FromTextExact
    BY ReadsExactly DEF InputTypes, FromTextExact
  <1> QED BY <1>1, InputTypesInit, InputTypesStep, PTL DEF InputSpec

\* Every manifest that loads can be used by the backends.
THEOREM LoadedCanBeUsed == InputSpec => []LoadedIsUsable
  <1>1. InputTypes => LoadedIsUsable
    <2> SUFFICES ASSUME IsText(input)
                 PROVE  UsableWhenLoaded([opens |-> TRUE, text |-> input], "installed")
      BY DEF InputTypes, LoadedIsUsable
    <2> DEFINE file == [opens |-> TRUE, text |-> input]
    <2>1. file.opens => IsText(file.text)
      OBVIOUS
    <2>2. "installed" # ""
      OBVIOUS
    <2> HIDE DEF file
    <2>3. UsableWhenLoaded(file, "installed")
      BY <2>1, <2>2, LoadedUsable
    <2> QED BY <2>3 DEF file
  <1> QED BY <1>1, InputTypesInit, InputTypesStep, PTL DEF InputSpec

\* swave_cli takes every command line as it is meant.
THEOREM CliIsAsAsked == InputSpec => []CliRunsAsAsked
  <1>1. InputTypes => CliRunsAsAsked
    BY CliUnderstands, InputAssumption DEF InputTypes, CliRunsAsAsked
  <1> QED BY <1>1, InputTypesInit, InputTypesStep, PTL DEF InputSpec

\* swave_app understands every command line of known options as swave_cli does.
THEOREM AppIsAsCli == InputSpec => []AppReadsAsCli
  <1>1. InputTypes => AppReadsAsCli
    BY AppUnderstandsAsCli, InputAssumption DEF InputTypes, AppReadsAsCli
  <1> QED BY <1>1, InputTypesInit, InputTypesStep, PTL DEF InputSpec

\* Neither program goes on with an invalid manifest, whatever files there are.
THEOREM ManifestsStayValid == InputSpec => []ManifestsValid
  <1>1. InputTypes => ManifestsValid
    BY ManifestsAreValid, InputAssumption DEF InputTypes, ManifestsValid
  <1> QED BY <1>1, InputTypesInit, InputTypesStep, PTL DEF InputSpec

\* The resolution fits every monitor and every source, and presets are ordered
\* multiples of the base up to a pixel, however ties are decided.
THEOREM ResolutionAlwaysFits == InputSpec => []ResolutionFits
  <1>1. InputTypes => ResolutionFits
    BY OutputFitsMonitor, PresetsAreMultiples DEF InputTypes, ResolutionFits
  <1> QED BY <1>1, InputTypesInit, InputTypesStep, PTL DEF InputSpec

\* Every pixel keeps its color, from the capture on and through the floats of a tensor,
\* if these have nine bits or more, and every picture its transparency.
THEOREM PixelsAreKept == InputSpec => []PixelsKept
  <1>1. InputTypes => PixelsKept
    <2> SUFFICES ASSUME InputTypes PROVE PixelsKept
      OBVIOUS
    <2>1. ASSUME function = "pixel"
          PROVE  /\ StraightAlpha(input.value, input.alpha)
                 /\ AlphaBetween(input.value, input.alpha)
      BY <2>1, AlphaIsStraight, AlphaStaysBetween DEF InputTypes
    <2>2. ASSUME function = "pixel", NEW format \in {"bgra8", "rgba8"}
          PROVE  ColorsKept(<<input.value, 255 - input.value, input.alpha, input.alpha>>, format)
      <3>1. input.value \in 0 .. 255 /\ input.alpha \in 0 .. 255
        BY <2>2 DEF InputTypes
      <3> DEFINE bytes == <<input.value, 255 - input.value, input.alpha, input.alpha>>
      <3>2. bytes[1] \in 0 .. 255 /\ bytes[2] \in 0 .. 255 /\ bytes[3] \in 0 .. 255
        BY <3>1
      <3> HIDE DEF bytes
      <3>3. ColorsKept(bytes, format)
        BY <3>2, ColorsComeBack
      <3> QED BY <3>3 DEF bytes
    <2>3. ASSUME function = "picture", IsValid(input.source), IsValid(input.monitor)
          PROVE  AlphaSpread(input.source.width, input.monitor.width)
      <3>1. input.source.width \in Nat \ {0} /\ input.monitor.width \in Nat \ {0}
        BY <2>3 DEF InputTypes, IsSize, IsValid
      <3> QED BY <3>1, AlphaIsSpread
    <2> QED BY <2>1, <2>2, <2>3, Zenon DEF PixelsKept
  <1> QED BY <1>1, InputTypesInit, InputTypesStep, PTL DEF InputSpec

-----------------------------------------------------------------------------
(***************************************************************************)
(* The catalog.                                                            *)
(***************************************************************************)

-----------------------------------------------------------------------------
(***************************************************************************)
(* The inductive invariant.                                                *)
(***************************************************************************)

\* What a catalog may come to hold.
Manifests == Offered \cup {LoadFile(file, Directory).manifest : file \in Files}

\* The type invariant: models_ is a list of manifests, and a load goes through
\* entries of the directory.
CatalogTypes ==
    /\ models \in Seq(Manifests) /\ before \in Seq(Manifests)
    /\ exists \in BOOLEAN
    /\ files \in [Names -> Files \cup {NoFile}]
    /\ listing \subseteq Names
    /\ result \in {"none", "loading", "ok", "failed", "thrown"}

\* The files the load has been through.
Done == ManifestFiles \ listing

\* The catalog is what it was when the load began, with models behind it that
\* files of the directory describe.
KeepsBefore ==
    /\ Len(before) <= Len(models)
    /\ \A i \in 1 .. Len(before) : models[i] = before[i]
    /\ \A i \in Len(before) + 1 .. Len(models) :
          \E name \in ManifestFiles : models[i] = Described(name)

\* Every file the load has been through could be read and is one of those models,
\* under an id no other has, and nothing else is.
AddedDone ==
    /\ Len(models) = Len(before) + Cardinality(Done)
    /\ \A i \in Len(before) + 1 .. Len(models) :
          \E name \in Done : models[i] = Described(name)
    /\ \A name \in Done :
          /\ ~Failed(LoadFile(files[name], Directory))
          /\ \E i \in Len(before) + 1 .. Len(models) : models[i] = Described(name)
          /\ \A other \in Done \ {name} : Described(other).id # Described(name).id

LoadInv ==
    ~edited =>
        /\ result \in {"loading", "ok", "failed"} => KeepsBefore
        /\ result \in {"loading", "ok"} => exists /\ AddedDone
        /\ result = "loading" => \A name \in listing : files[name] # NoFile
        /\ result = "ok" => listing = {}
        /\ result = "failed" => ~Loadable(before)

CatalogInv == CatalogTypes /\ CatalogSound /\ LoadInv

-----------------------------------------------------------------------------
(***************************************************************************)
(* The operators.                                                          *)
(***************************************************************************)

\* A manifest that validate() accepts has an id.
LEMMA ValidHasId == ASSUME NEW m, Validate(m) = "none" PROVE m.id # ""
  BY DEF Validate

\* What load_file() returns is valid still: from_text() validated it, and the paths
\* it changes then are given by the directory.
LEMMA LoadedIsValid ==
  ASSUME NEW file \in Files, ~Failed(LoadFile(file, Directory))
  PROVE  Validate(LoadFile(file, Directory).manifest) = "none"
  <1>1. file.opens => IsText(file.text)
    BY CatalogAssumption
  <1> QED BY <1>1, LoadedIs, Zenon

\* find() finds nothing when the catalog has no model of the id.
LEMMA FindAbsent ==
  ASSUME NEW id, \A i \in 1 .. Len(models) : models[i].id # id
  PROVE  Find(id).id = ""
  <1>1. Find(id) = [id |-> ""]
    BY Zenon DEF Find, SelectInSeq
  <1>2. [id |-> ""].id = ""
    OBVIOUS
  <1> QED BY <1>1, <1>2, Zenon

\* find() finds the model of the id that the catalog has.
LEMMA FindPresent ==
  ASSUME CatalogTypes, CatalogSound, NEW i \in 1 .. Len(models)
  PROVE  Find(models[i].id) = models[i]
  <1> DEFINE I == {j \in 1 .. Len(models) : models[j].id = models[i].id}
  <1>1. DOMAIN models = 1 .. Len(models) /\ Len(models) \in Nat
    BY LenProperties DEF CatalogTypes
  <1>2. i \in Nat /\ i # 0 /\ i =< i
    BY <1>1
  <1>3. i \in I /\ \A j \in I : i = j
    BY <1>1 DEF CatalogSound
  <1>4. Min(I) = i
    BY <1>2, <1>3, Zenon DEF Min
  <1>5. I # {} /\ Min(I) # 0 => Find(models[i].id) = models[Min(I)]
    BY Zenon DEF Find, SelectInSeq
  <1> QED BY <1>2, <1>3, <1>4, <1>5, Zenon

\* So add() takes a model exactly when it is valid and its id is new.
LEMMA AddsNew ==
  ASSUME CatalogTypes, CatalogSound, NEW m
  PROVE  Adds(m) <=> /\ Validate(m) = "none"
                     /\ \A i \in 1 .. Len(models) : models[i].id # m.id
  <1>1. ASSUME Validate(m) = "none", \A i \in 1 .. Len(models) : models[i].id # m.id
        PROVE  Adds(m)
    <2>1. Find(m.id).id = ""
      BY <1>1, FindAbsent, Zenon
    <2> QED BY <1>1, <2>1, ValidHasId, Zenon DEF Adds
  <1>2. ASSUME NEW i \in 1 .. Len(models), models[i].id = m.id
        PROVE  ~Adds(m)
    BY <1>2, FindPresent, Zenon DEF Adds
  <1>3. Adds(m) => Validate(m) = "none"
    BY DEF Adds
  <1> QED BY <1>1, <1>2, <1>3, Zenon

\* A model that add() took is at the end of the list, and the list is sound still.
LEMMA Appended ==
  ASSUME CatalogTypes, CatalogSound, NEW m \in Manifests, Adds(m),
         models' = Append(models, m)
  PROVE  /\ models' \in Seq(Manifests)
         /\ Len(models') = Len(models) + 1
         /\ \A i \in 1 .. Len(models) : models'[i] = models[i]
         /\ models'[Len(models) + 1] = m
         /\ CatalogSound'
  <1>0. Len(models) \in Nat /\ DOMAIN models = 1 .. Len(models)
    BY LenProperties DEF CatalogTypes
  <1>1. /\ models' \in Seq(Manifests)
        /\ Len(models') = Len(models) + 1
        /\ \A i \in 1 .. Len(models) : models'[i] = models[i]
        /\ models'[Len(models) + 1] = m
    BY AppendProperties DEF CatalogTypes
  <1>2. DOMAIN models' = 1 .. Len(models) + 1
    BY <1>1, LenProperties
  <1>3. Validate(m) = "none" /\ \A i \in 1 .. Len(models) : models[i].id # m.id
    BY AddsNew
  <1>4. CatalogSound'
    <2> SUFFICES ASSUME NEW i \in DOMAIN models'
                 PROVE  /\ Validate(models'[i]) = "none"
                        /\ \A j \in DOMAIN models' : models'[i].id = models'[j].id => i = j
      BY DEF CatalogSound
    <2>1. CASE i \in 1 .. Len(models)
      <3>1. Validate(models'[i]) = "none"
        BY <1>0, <1>1, <2>1 DEF CatalogSound
      <3>2. ASSUME NEW j \in DOMAIN models', models'[i].id = models'[j].id
            PROVE  i = j
        BY <1>0, <1>1, <1>2, <1>3, <2>1, <3>2 DEF CatalogSound
      <3> QED BY <3>1, <3>2
    <2>2. CASE i = Len(models) + 1
      BY <1>0, <1>1, <1>2, <1>3, <2>2
    <2> QED BY <1>0, <1>2, <2>1, <2>2
  <1> QED BY <1>1, <1>4

-----------------------------------------------------------------------------
(***************************************************************************)
(* The steps.                                                              *)
(***************************************************************************)

\* An entry that is a manifest file is one of Files, and what it describes is a
\* manifest.
LEMMA ListedFile ==
  ASSUME CatalogTypes, NEW name \in Names, files[name].manifest
  PROVE  files[name] \in Files /\ Described(name) \in Manifests
  <1>1. files[name] # NoFile
    BY DEF NoFile
  <1> QED BY <1>1 DEF CatalogTypes, Described, Manifests

\* What the lists have in common does not depend on their types.
LEMMA Lengths ==
  ASSUME CatalogTypes
  PROVE  /\ Len(models) \in Nat /\ DOMAIN models = 1 .. Len(models)
         /\ Len(before) \in Nat /\ DOMAIN before = 1 .. Len(before)
  BY LenProperties DEF CatalogTypes

\* The files of a directory, and those a load has been through, are finitely many.
LEMMA DoneFinite == IsFiniteSet(Done) /\ Cardinality(Done) \in Nat
  <1>1. IsFiniteSet(Names) /\ Done \in SUBSET Names
    BY CatalogAssumption DEF Done, ManifestFiles
  <1> QED BY <1>1, FS_Subset, FS_CardinalityType

\* A file at which a load stops keeps its directory from fitting into the catalog
\* the load began with: it cannot be read, or its id is that of a model which was
\* there or which another file describes.
LEMMA StopsForGood ==
  ASSUME CatalogInv, ~edited, result = "loading",
         NEW name \in listing, files[name].manifest,
         Failed(LoadFile(files[name], Directory)) \/ ~Adds(Described(name))
  PROVE  ~Loadable(before)
  <1>1. name \in ManifestFiles /\ name \notin Done /\ files[name] \in Files
    BY ListedFile DEF CatalogInv, CatalogTypes, ManifestFiles, Done
  <1>2. CASE Failed(LoadFile(files[name], Directory))
    BY <1>1, <1>2 DEF Loadable
  <1>3. CASE ~Failed(LoadFile(files[name], Directory)) /\ ~Adds(Described(name))
    <2>1. Validate(Described(name)) = "none"
      BY <1>1, <1>3, LoadedIsValid DEF Described
    <2>2. PICK i \in 1 .. Len(models) : models[i].id = Described(name).id
      BY <1>3, <2>1, AddsNew, Zenon DEF CatalogInv
    <2>3. /\ \A j \in 1 .. Len(before) : models[j] = before[j]
          /\ \A j \in Len(before) + 1 .. Len(models) :
                \E other \in Done : models[j] = Described(other)
      BY DEF CatalogInv, LoadInv, KeepsBefore, AddedDone
    <2>4. i \in 1 .. Len(before) \/ i \in Len(before) + 1 .. Len(models)
      BY Lengths DEF CatalogInv
    <2>5. CASE i \in 1 .. Len(before)
      <3>1. i \in DOMAIN before /\ before[i].id = Described(name).id
        BY <2>2, <2>3, <2>5, Lengths DEF CatalogInv
      <3> QED BY <1>1, <3>1 DEF Loadable
    <2>6. CASE i \in Len(before) + 1 .. Len(models)
      <3>1. PICK other \in Done : models[i] = Described(other)
        BY <2>3, <2>6
      <3>2. /\ other \in ManifestFiles \ {name}
            /\ Described(other).id = Described(name).id
        BY <1>1, <2>2, <3>1 DEF Done
      <3> QED BY <1>1, <3>2 DEF Loadable
    <2> QED BY <2>4, <2>5, <2>6
  <1> QED BY <1>2, <1>3

\* A turn of the loop that adds the model of a file has been through one file more,
\* and the catalog has one model more, which that file describes.
LEMMA OneMore ==
  ASSUME CatalogInv, ~edited, result = "loading", UNCHANGED <<exists, files, before>>,
         NEW name \in listing, files[name].manifest,
         ~Failed(LoadFile(files[name], Directory)), Adds(Described(name)),
         models' = Append(models, Described(name)), listing' = listing \ {name}
  PROVE  KeepsBefore' /\ AddedDone'
  <1> DEFINE new == Described(name)
             last == Len(models) + 1
  <1>1. KeepsBefore /\ AddedDone /\ CatalogTypes /\ CatalogSound
    BY DEF CatalogInv, LoadInv
  <1>2. name \in ManifestFiles /\ name \notin Done /\ new \in Manifests
    BY <1>1, ListedFile DEF CatalogTypes, ManifestFiles, Done
  <1>3. /\ Len(models') = last
        /\ \A i \in 1 .. Len(models) : models'[i] = models[i]
        /\ models'[last] = new
    BY <1>1, <1>2, Appended, Zenon
  <1>4. /\ ManifestFiles' = ManifestFiles /\ Done' = Done \cup {name}
        /\ \A other \in Names : Described(other)' = Described(other)
    BY <1>2 DEF ManifestFiles, Done, Described
  <1>5. Len(models) \in Nat /\ Len(before) \in Nat /\ Len(before) <= Len(models)
    BY <1>1, Lengths DEF KeepsBefore
  <1>6. Done \subseteq ManifestFiles /\ ManifestFiles \subseteq Names
    BY DEF Done, ManifestFiles
  <1>7. \A i \in Len(before) + 1 .. last : i \in Len(before) + 1 .. Len(models) \/ i = last
    BY <1>5
  <1>8. \A i \in 1 .. Len(models) : models[i].id # new.id
    BY <1>1, AddsNew, Zenon
  <1> HIDE DEF new, last
  <1>9. KeepsBefore'
    <2>1. Len(before) <= last
      BY <1>5 DEF last
    <2>2. \A i \in 1 .. Len(before) : models'[i] = before[i]
      BY <1>1, <1>3, <1>5 DEF KeepsBefore
    <2>3. ASSUME NEW i \in Len(before) + 1 .. last
          PROVE  \E other \in ManifestFiles : models'[i] = Described(other)
      BY <1>1, <1>2, <1>3, <1>5, <1>7 DEF KeepsBefore, new
    <2>4. \A i \in Len(before) + 1 .. last :
             \E other \in ManifestFiles : models'[i] = Described(other)'
      BY <1>4, <1>6, <2>3
    <2> QED BY <1>3, <1>4, <2>1, <2>2, <2>4 DEF KeepsBefore
  <1>10. Len(models') = Len(before) + Cardinality(Done')
    <2>1. Cardinality(Done \cup {name}) = Cardinality(Done) + 1 /\ Cardinality(Done) \in Nat
      BY <1>2, DoneFinite, FS_AddElement
    <2> QED BY <1>1, <1>3, <1>4, <1>5, <2>1 DEF AddedDone, last
  <1>11. \A i \in Len(before) + 1 .. last : \E other \in Done' : models'[i] = Described(other)'
    <2> TAKE i \in Len(before) + 1 .. last
    <2>1. CASE i = last
      BY <1>2, <1>3, <1>4, <1>6, <2>1 DEF new
    <2>2. CASE i \in Len(before) + 1 .. Len(models)
      <3>1. PICK other \in Done : models[i] = Described(other)
        BY <1>1, <2>2 DEF AddedDone
      <3>2. models'[i] = models[i]
        BY <1>3, <1>5, <2>2
      <3> QED BY <1>4, <1>6, <3>1, <3>2
    <2> QED BY <1>7, <2>1, <2>2
  <1>12. ASSUME NEW other \in Done'
         PROVE  /\ ~Failed(LoadFile(files[other], Directory))
                /\ \E i \in Len(before) + 1 .. last : models'[i] = Described(other)
    <2>1. CASE other = name
      BY <1>3, <1>5, <2>1 DEF new, last
    <2>2. CASE other \in Done
      <3>1. PICK i \in Len(before) + 1 .. Len(models) : models[i] = Described(other)
        BY <1>1, <2>2 DEF AddedDone
      <3>2. i \in Len(before) + 1 .. last /\ models'[i] = models[i]
        BY <1>3, <1>5 DEF last
      <3>3. ~Failed(LoadFile(files[other], Directory))
        BY <1>1, <2>2 DEF AddedDone
      <3> QED BY <3>1, <3>2, <3>3
    <2> QED BY <1>4, <2>1, <2>2
  <1>13. \A other \in Done : Described(other).id # new.id
    <2> TAKE other \in Done
    <2>1. PICK i \in Len(before) + 1 .. Len(models) : models[i] = Described(other)
      BY <1>1 DEF AddedDone
    <2>2. i \in 1 .. Len(models)
      BY <1>5
    <2> QED BY <1>8, <2>1, <2>2
  <1>14. ASSUME NEW a \in Done', NEW b \in Done' \ {a}
         PROVE  Described(b).id # Described(a).id
    <2>1. CASE a \in Done /\ b \in Done
      BY <1>1, <2>1 DEF AddedDone
    <2>2. CASE a = name \/ b = name
      BY <1>4, <1>13, <2>2 DEF new
    <2> QED BY <1>4, <2>1, <2>2
  <1>15. \A other \in Done' :
            /\ ~Failed(LoadFile(files'[other], Directory))
            /\ \E i \in Len(before') + 1 .. Len(models') : models'[i] = Described(other)'
            /\ \A b \in Done' \ {other} : Described(b)'.id # Described(other)'.id
    <2>1. Done' \subseteq Names
      BY <1>2, <1>4, <1>6
    <2> QED BY <1>3, <1>4, <1>12, <1>14, <2>1
  <1> QED BY <1>3, <1>9, <1>10, <1>11, <1>15 DEF AddedDone

\* The invariant holds before the first call.
LEMMA CatalogInvInit == Init => CatalogInv
  <1> SUFFICES ASSUME Init PROVE CatalogInv
    OBVIOUS
  <1>1. CatalogTypes
    <2>1. files \in [Names -> Files \cup {NoFile}]
      BY DEF Init
    <2> QED BY <2>1, EmptySeq DEF Init, CatalogTypes
  <1>2. CatalogSound
    BY DEF Init, CatalogSound
  <1>3. LoadInv
    BY DEF Init, LoadInv
  <1> QED BY <1>1, <1>2, <1>3 DEF CatalogInv

\* A call of add() keeps the invariant: it takes a model that is valid and new, and
\* no load is under way or its outcome is forgotten.
LEMMA AddStep == ASSUME CatalogInv, Add PROVE CatalogInv'
  <1> PICK m \in Offered : /\ result' = IF Adds(m) THEN "none" ELSE result
                           /\ models' = IF Adds(m) THEN Append(models, m) ELSE models
    BY DEF Add
  <1>1. UNCHANGED <<exists, files, listing, before, edited>> /\ result # "loading"
    BY DEF Add
  <1>2. CASE Adds(m)
    <2>1. models' = Append(models, m) /\ result' = "none"
      BY <1>2
    <2>2. models' \in Seq(Manifests) /\ CatalogSound'
      BY <1>2, <2>1, Appended DEF CatalogInv, Manifests
    <2>3. CatalogTypes' /\ LoadInv'
      BY <1>1, <2>1, <2>2 DEF CatalogInv, CatalogTypes, LoadInv
    <2> QED BY <2>2, <2>3 DEF CatalogInv
  <1>3. CASE ~Adds(m)
    <2>1. UNCHANGED <<models, exists, files, listing, before, edited, result>>
      BY <1>1, <1>3
    <2> QED BY <2>1 DEF CatalogInv, CatalogTypes, CatalogSound, LoadInv, KeepsBefore,
                        AddedDone, Done, ManifestFiles, Described, Loadable
  <1> QED BY <1>2, <1>3

\* A load begins with the catalog as it is, and has been through nothing; without a
\* directory it has failed, and nothing fits.
LEMMA LoadBeginStep == ASSUME CatalogInv, LoadBegin PROVE CatalogInv'
  <1>1. /\ UNCHANGED <<models, exists, files>> /\ before' = models
        /\ result' = IF exists THEN "loading" ELSE "failed"
        /\ listing' = IF exists THEN {name \in Names : files[name] # NoFile} ELSE {}
    BY DEF LoadBegin
  <1>2. CatalogTypes' /\ CatalogSound'
    BY <1>1 DEF CatalogInv, CatalogTypes, CatalogSound
  <1>3. KeepsBefore'
    BY <1>1, Lengths DEF CatalogInv, KeepsBefore
  <1>4. CASE exists
    <2>1. Done' = {}
      BY <1>1, <1>4 DEF Done, ManifestFiles, NoFile
    <2>2. Len(models') = Len(before') + Cardinality(Done')
      BY <1>1, <2>1, FS_EmptySet, Lengths DEF CatalogInv
    <2>3. Len(before') + 1 .. Len(models') = {}
      BY <1>1, Lengths DEF CatalogInv
    <2>4. AddedDone'
      BY <2>1, <2>2, <2>3 DEF AddedDone
    <2>5. LoadInv'
      BY <1>1, <1>3, <1>4, <2>4 DEF LoadInv
    <2> QED BY <1>2, <2>5 DEF CatalogInv
  <1>5. CASE ~exists
    <2>1. ~Loadable(before)'
      BY <1>1, <1>5 DEF Loadable
    <2>2. LoadInv'
      BY <1>1, <1>3, <1>5, <2>1 DEF LoadInv
    <2> QED BY <1>2, <2>2 DEF CatalogInv
  <1> QED BY <1>4, <1>5

\* A turn of the loop keeps the invariant, whatever the entry it comes to.
LEMMA LoadEntryStep ==
  ASSUME CatalogInv, LoadStep
  PROVE  CatalogInv'
  <1>1. PICK name \in listing : LoadEntry(name)
    BY DEF LoadStep
  <1>2. result = "loading" /\ UNCHANGED <<exists, files, before, edited>>
    BY DEF LoadStep
  <1>3. name \in Names /\ LoadFile(files[name], Directory).manifest = Described(name)
    BY DEF CatalogInv, CatalogTypes, Described
  <1>4. ~edited => /\ KeepsBefore /\ exists /\ AddedDone
                   /\ \A n \in listing : files[n] # NoFile
    BY <1>2 DEF CatalogInv, LoadInv
  <1>5. CASE ~files[name].manifest /\ listing' = listing \ {name} /\ UNCHANGED <<models, result>>
    <2>1. CatalogTypes' /\ CatalogSound'
      BY <1>2, <1>5 DEF CatalogInv, CatalogTypes, CatalogSound
    <2>2. Done' = Done /\ ManifestFiles' = ManifestFiles
      BY <1>2, <1>5 DEF Done, ManifestFiles
    <2>3. \A n \in Names : Described(n)' = Described(n)
      BY <1>2 DEF Described
    <2>4. Done \subseteq Names /\ ManifestFiles \subseteq Names
      BY DEF Done, ManifestFiles
    <2>5. ~edited => KeepsBefore'
      BY <1>2, <1>4, <1>5, <2>2, <2>3, <2>4 DEF KeepsBefore
    <2>6. ~edited => AddedDone'
      BY <1>2, <1>4, <1>5, <2>2, <2>3, <2>4 DEF AddedDone
    <2>7. LoadInv'
      BY <1>2, <1>4, <1>5, <2>5, <2>6 DEF LoadInv
    <2> QED BY <2>1, <2>7 DEF CatalogInv
  <1>6. CASE /\ files[name].manifest /\ ~Failed(LoadFile(files[name], Directory))
             /\ Adds(Described(name)) /\ models' = Append(models, Described(name))
             /\ listing' = listing \ {name} /\ UNCHANGED result
    <2>1. Described(name) \in Manifests
      BY <1>3, <1>6, ListedFile DEF CatalogInv
    <2>2. models' \in Seq(Manifests) /\ CatalogSound'
      BY <1>6, <2>1, Appended DEF CatalogInv
    <2>3. CatalogTypes'
      BY <1>2, <1>6, <2>2 DEF CatalogInv, CatalogTypes
    <2>4. ~edited => KeepsBefore' /\ AddedDone'
      BY <1>2, <1>6, OneMore
    <2>5. LoadInv'
      BY <1>2, <1>4, <1>6, <2>4 DEF LoadInv
    <2> QED BY <2>2, <2>3, <2>5 DEF CatalogInv
  <1>7. CASE /\ \/ files[name] = NoFile
                \/ /\ files[name].manifest
                   /\ Failed(LoadFile(files[name], Directory)) \/ ~Adds(Described(name))
             /\ result' = "failed" /\ listing' = {} /\ UNCHANGED models
    <2>1. CatalogTypes' /\ CatalogSound'
      BY <1>2, <1>7 DEF CatalogInv, CatalogTypes, CatalogSound
    <2>2. ~edited => KeepsBefore'
      BY <1>2, <1>4, <1>7 DEF KeepsBefore, ManifestFiles, Described
    <2>3. ~edited => ~Loadable(before)
      BY <1>2, <1>4, <1>7, StopsForGood
    <2>4. ~edited => ~Loadable(before)'
      BY <1>2, <2>3 DEF Loadable, ManifestFiles, Described
    <2>5. LoadInv'
      BY <1>2, <1>7, <2>2, <2>4 DEF LoadInv
    <2> QED BY <2>1, <2>5 DEF CatalogInv
  <1> QED BY <1>1, <1>3, <1>5, <1>6, <1>7 DEF LoadEntry

\* When the listing is used up, the load has been through every file.
LEMMA LoadEndStep == ASSUME CatalogInv, LoadEnd PROVE CatalogInv'
  <1>1. /\ result = "loading" /\ result' = "ok" /\ listing = {}
        /\ UNCHANGED <<models, exists, files, listing, before, edited>>
    BY DEF LoadEnd
  <1>2. CatalogTypes' /\ CatalogSound'
    BY <1>1 DEF CatalogInv, CatalogTypes, CatalogSound
  <1>3. ~edited => KeepsBefore /\ exists /\ AddedDone
    BY <1>1 DEF CatalogInv, LoadInv
  <1>4. ~edited => KeepsBefore' /\ exists' /\ AddedDone'
    <2>1. KeepsBefore' <=> KeepsBefore
      BY <1>1 DEF KeepsBefore, ManifestFiles, Described
    <2>2. AddedDone' <=> AddedDone
      BY <1>1 DEF AddedDone, Done, ManifestFiles, Described
    <2> QED BY <1>1, <1>3, <2>1, <2>2
  <1>5. LoadInv'
    BY <1>1, <1>4 DEF LoadInv
  <1> QED BY <1>2, <1>5 DEF CatalogInv

\* Every step keeps the invariant.
LEMMA CatalogInvStep == CatalogInv /\ [Next]_vars => CatalogInv'
  <1> SUFFICES ASSUME CatalogInv, [Next]_vars PROVE CatalogInv'
    OBVIOUS
  <1>1. CASE Add
    BY <1>1, AddStep
  <1>2. CASE LoadBegin
    BY <1>2, LoadBeginStep
  <1>3. CASE LoadStep
    BY <1>3, LoadEntryStep
  <1>4. CASE LoadEnd
    BY <1>4, LoadEndStep
  <1>5. CASE LoadThrows
    BY <1>5 DEF LoadThrows, CatalogInv, CatalogTypes, CatalogSound, LoadInv
  <1>6. CASE Edit
    <2> PICK name \in Names, file \in Files \cup {NoFile} :
               /\ files' = [files EXCEPT ![name] = file]
               /\ listing' \in {listing, listing \cup {name}}
      BY <1>6 DEF Edit
    <2>1. edited' = TRUE /\ UNCHANGED <<models, exists, result, before>>
      BY <1>6 DEF Edit
    <2> QED BY <2>1 DEF CatalogInv, CatalogTypes, CatalogSound, LoadInv
  <1>7. CASE EditDirectory
    BY <1>7 DEF EditDirectory, CatalogInv, CatalogTypes, CatalogSound, LoadInv
  <1>8. CASE UNCHANGED vars
    BY <1>8 DEF vars, CatalogInv, CatalogTypes, CatalogSound, LoadInv, KeepsBefore,
                AddedDone, Done, ManifestFiles, Described, Loadable
  <1> QED BY <1>1, <1>2, <1>3, <1>4, <1>5, <1>6, <1>7, <1>8 DEF Next

-----------------------------------------------------------------------------
(***************************************************************************)
(* The theorems.                                                           *)
(***************************************************************************)

\* Whatever callers add and load, from whatever directory, and whatever fails: every
\* model of the catalog is valid and the only one of its id, so that find() finds it.
THEOREM CatalogIsSound == Spec => []CatalogSound
  <1>1. CatalogInv => CatalogSound
    BY DEF CatalogInv
  <1> QED BY <1>1, CatalogInvInit, CatalogInvStep, PTL DEF Spec

\* A directory whose file describes a model the catalog has does not fit into it.
LEMMA MeetsItself ==
  ASSUME CatalogTypes, NEW i \in 1 .. Len(models), NEW name \in ManifestFiles,
         models[i] = Described(name)
  PROVE  ~Loadable(models)
  BY Lengths DEF Loadable

\* The invariant says of a load that ended what LoadFaithful asks of it.
LEMMA EndedFaithfully ==
  ASSUME CatalogInv, ~edited, result \in {"ok", "failed"}
  PROVE  LoadFaithful
  <1> DEFINE added == SubSeq(models, Len(before) + 1, Len(models))
             extra == Len(models) - Len(before)
  <1>1. KeepsBefore /\ CatalogTypes
    BY DEF CatalogInv, LoadInv
  <1>2. /\ Len(models) \in Nat /\ Len(before) \in Nat /\ Len(before) <= Len(models)
        /\ DOMAIN before = 1 .. Len(before) /\ DOMAIN models = 1 .. Len(models)
    BY <1>1, Lengths DEF KeepsBefore
  <1>3. \A i \in 1 .. Len(models) : models[i] \in Manifests
    BY <1>1, ElementOfSeq DEF CatalogTypes
  <1>4. /\ added \in Seq(Manifests) /\ Len(added) = extra
        /\ \A i \in 1 .. extra : added[i] = models[Len(before) + i]
    <2>1. \A i \in Len(before) + 1 .. Len(models) : models[i] \in Manifests
      BY <1>2, <1>3
    <2>2. Len(before) + 1 \in Int /\ Len(models) \in Int
      BY <1>2
    <2> HIDE DEF extra
    <2>3. /\ SubSeq(models, Len(before) + 1, Len(models)) \in Seq(Manifests)
          /\ Len(added) = IF Len(before) + 1 <= Len(models)
                          THEN Len(models) - (Len(before) + 1) + 1 ELSE 0
          /\ \A i \in 1 .. Len(models) - (Len(before) + 1) + 1 :
                added[i] = models[(Len(before) + 1) + i - 1]
      BY <2>1, <2>2, SubSeqProperties
    <2> HIDE DEF added
    <2>4. \A n, k \in Nat : k <= n => /\ n - (k + 1) + 1 = n - k
                                     /\ (IF k + 1 <= n THEN n - (k + 1) + 1 ELSE 0) = n - k
      OBVIOUS
    <2>5. /\ Len(models) - (Len(before) + 1) + 1 = extra
          /\ (IF Len(before) + 1 <= Len(models)
              THEN Len(models) - (Len(before) + 1) + 1 ELSE 0) = extra
      BY <1>2, <2>4, Zenon DEF extra
    <2>6. Len(added) = extra /\ Len(models) - (Len(before) + 1) + 1 = extra
      BY <2>3, <2>5, Zenon
    <2>7. ASSUME NEW i \in 1 .. extra PROVE added[i] = models[Len(before) + i]
      <3>1. added[i] = models[(Len(before) + 1) + i - 1]
        BY <2>3, <2>6
      <3>2. (Len(before) + 1) + i - 1 = Len(before) + i
        BY <1>2 DEF extra
      <3> QED BY <3>1, <3>2
    <2> QED BY <2>3, <2>6, <2>7 DEF added
  <1> HIDE DEF added
  <1>5. ToSet(added) = {models[i] : i \in Len(before) + 1 .. Len(models)}
    <2>1. DOMAIN added = 1 .. extra
      BY <1>4, LenProperties
    <2>2. ASSUME NEW i \in 1 .. extra
          PROVE  /\ Len(before) + i \in Len(before) + 1 .. Len(models)
                 /\ added[i] = models[Len(before) + i]
      BY <1>2, <1>4
    <2>3. ASSUME NEW i \in Len(before) + 1 .. Len(models)
          PROVE  i - Len(before) \in 1 .. extra /\ added[i - Len(before)] = models[i]
      <3>1. i - Len(before) \in 1 .. extra /\ Len(before) + (i - Len(before)) = i
        BY <1>2
      <3> QED BY <1>4, <3>1
    <2> HIDE DEF extra
    <2> QED BY <2>1, <2>2, <2>3 DEF ToSet
  <1>6. before = SubSeq(models, 1, Len(before))
    <2> DEFINE prefix == SubSeq(models, 1, Len(before))
    <2>1. \A i \in 1 .. Len(before) : models[i] \in Manifests /\ models[i] = before[i]
      BY <1>1, <1>2, <1>3 DEF KeepsBefore
    <2>2. 1 \in Int /\ Len(before) \in Int
      BY <1>2
    <2>3. /\ prefix \in Seq(Manifests)
          /\ Len(prefix) = IF 1 <= Len(before) THEN Len(before) - 1 + 1 ELSE 0
          /\ \A i \in 1 .. Len(before) - 1 + 1 : prefix[i] = models[1 + i - 1]
      BY <2>1, <2>2, SubSeqProperties
    <2> HIDE DEF prefix
    <2>4. Len(prefix) = Len(before) /\ \A i \in 1 .. Len(before) : prefix[i] = models[i]
      BY <1>2, <2>3
    <2>5. before = prefix
      BY <1>1, <2>1, <2>3, <2>4, SeqEqual DEF CatalogTypes
    <2> QED BY <2>5 DEF prefix
  <1>7. ToSet(added) \subseteq {Described(name) : name \in ManifestFiles}
    BY <1>1, <1>5 DEF KeepsBefore
  <1>8. result = "ok" =>
           /\ Len(added) = Cardinality(ManifestFiles)
           /\ {Described(name) : name \in ManifestFiles} = ToSet(added)
           /\ Loadable(before)
    <2> SUFFICES ASSUME result = "ok"
                 PROVE  /\ Len(added) = Cardinality(ManifestFiles)
                        /\ {Described(name) : name \in ManifestFiles} = ToSet(added)
                        /\ Loadable(before)
      OBVIOUS
    <2>1. AddedDone /\ exists /\ Done = ManifestFiles
      BY DEF CatalogInv, LoadInv, Done
    <2>2. Len(added) = Cardinality(ManifestFiles)
      BY <1>2, <1>4, <2>1, DoneFinite DEF AddedDone
    <2>3. {Described(name) : name \in ManifestFiles} = ToSet(added)
      BY <1>5, <2>1 DEF AddedDone
    <2>4. ASSUME NEW name \in ManifestFiles, NEW i \in DOMAIN before
          PROVE  before[i].id # Described(name).id
      <3>1. PICK k \in Len(before) + 1 .. Len(models) : models[k] = Described(name)
        BY <2>1 DEF AddedDone
      <3>2. i \in DOMAIN models /\ k \in DOMAIN models /\ i # k /\ models[i] = before[i]
        BY <1>1, <1>2 DEF KeepsBefore
      <3>3. models[i].id # models[k].id
        BY <3>2 DEF CatalogInv, CatalogSound
      <3> QED BY <3>1, <3>2, <3>3
    <2>5. Loadable(before)
      BY <2>1, <2>4 DEF Loadable, AddedDone
    <2> QED BY <2>2, <2>3, <2>5
  <1>9. result = "failed" => ~Loadable(before)
    BY DEF CatalogInv, LoadInv
  <1>10. added # <<>> => ~Loadable(models)
    <2> SUFFICES ASSUME added # <<>> PROVE ~Loadable(models)
      OBVIOUS
    <2>1. extra \in Nat \ {0}
      BY <1>4, EmptySeq
    <2>2. Len(before) \in Nat /\ Len(models) \in Nat /\ Len(models) - Len(before) # 0
          /\ Len(before) <= Len(models)
      BY <1>2, <2>1
    <2>3. /\ Len(before) + 1 \in Len(before) + 1 .. Len(models)
          /\ Len(before) + 1 \in 1 .. Len(models)
      BY <2>2
    <2>4. PICK name \in ManifestFiles : models[Len(before) + 1] = Described(name)
      BY <1>1, <2>3 DEF KeepsBefore
    <2> QED BY <1>1, <2>3, <2>4, MeetsItself
  <1>11. result = "ok" <=> Loadable(before)
    BY <1>8, <1>9
  <1> QED BY <1>6, <1>7, <1>8, <1>10, <1>11 DEF LoadFaithful, added

\* A load of a directory that nobody edits meanwhile succeeds exactly when it is there
\* and all its files fit into the catalog as it was, and has then added each once; if
\* it fails it leaves a part, and with that no later load of the directory can succeed.  This is
\* so in whatever order the system lists the files.
THEOREM CatalogLoadFaithful == Spec => []LoadFaithful
  <1>1. CatalogInv => LoadFaithful
    <2>1. CASE ~edited /\ result \in {"ok", "failed"}
      BY <2>1, EndedFaithfully
    <2>2. CASE ~(~edited /\ result \in {"ok", "failed"})
      BY <2>2 DEF LoadFaithful
    <2> QED BY <2>1, <2>2
  <1> QED BY <1>1, CatalogInvInit, CatalogInvStep, PTL DEF Spec
=============================================================================
