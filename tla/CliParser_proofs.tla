-------------------------- MODULE CliParser_proofs --------------------------
(***************************************************************************)
(* What the parser makes of every command line, whatever its words are.    *)
(***************************************************************************)
EXTENDS CliParser, WellFoundedInduction, TLAPS

(* A word of a table stands for a field of that table.                     *)
LEMMA FieldOfTable ==
    ASSUME NEW options, NEW word \in DOMAIN FieldOf(options)
    PROVE  FieldOf(options)[word] \in DOMAIN options
<1>1. PICK f \in DOMAIN options : word \in options[f]
  BY Zenon DEF FieldOf, Range
<1> QED
  BY <1>1 DEF FieldOf

(* So does a word of each of the program's tables.                         *)
LEMMA TableFields ==
    /\ \A word \in DOMAIN Texts : Texts[word] \in DOMAIN TextOptions
    /\ \A word \in DOMAIN Sizes : Sizes[word] \in DOMAIN SizeOptions
    /\ \A word \in DOMAIN Ints : Ints[word] \in DOMAIN IntOptions
    /\ \A word \in DOMAIN Switches : Switches[word] \in DOMAIN SwitchOptions
BY FieldOfTable DEF Texts, Sizes, Ints, Switches

(* The options that may stand before the command are options after it.     *)
LEMMA GlobalTables ==
    /\ DOMAIN GlobalTexts \subseteq DOMAIN Texts
    /\ DOMAIN GlobalFlags \subseteq DOMAIN Switches
    /\ \A word \in DOMAIN GlobalTexts : GlobalTexts[word] = Texts[word]
    /\ \A word \in DOMAIN GlobalFlags : GlobalFlags[word] = Switches[word]
<1>1. DOMAIN GlobalTexts \subseteq DOMAIN Texts
  BY DEF Texts, TextOptions, FieldOf, Range, GlobalTexts
<1>2. DOMAIN GlobalFlags \subseteq DOMAIN Switches
  BY DEF Switches, SwitchOptions, FieldOf, Range, GlobalFlags
<1>3. \A word \in DOMAIN GlobalTexts : GlobalTexts[word] = Texts[word]
  BY DEF GlobalTexts
<1>4. \A word \in DOMAIN GlobalFlags : GlobalFlags[word] = Switches[word]
  BY DEF GlobalFlags
<1> QED
  BY <1>1, <1>2, <1>3, <1>4

(* No field is in two tables, and a CommandConfig has no other fields.     *)
LEMMA FieldsApart ==
    /\ DOMAIN TextOptions \cap DOMAIN SizeOptions = {}
    /\ DOMAIN TextOptions \cap DOMAIN IntOptions = {}
    /\ DOMAIN TextOptions \cap DOMAIN SwitchOptions = {}
    /\ DOMAIN SizeOptions \cap DOMAIN IntOptions = {}
    /\ DOMAIN SizeOptions \cap DOMAIN SwitchOptions = {}
    /\ DOMAIN IntOptions \cap DOMAIN SwitchOptions = {}
    /\ {"type", "destination"} \cap
          (DOMAIN TextOptions \cup DOMAIN SizeOptions
           \cup DOMAIN IntOptions \cup DOMAIN SwitchOptions) = {}
BY DEF TextOptions, SizeOptions, IntOptions, SwitchOptions

LEMMA ConfigFields ==
    DOMAIN DefaultConfig =
        DOMAIN TextOptions \cup DOMAIN SizeOptions \cup DOMAIN IntOptions
        \cup DOMAIN SwitchOptions \cup {"type", "destination"}
BY DEF TextOptions, SizeOptions, IntOptions, SwitchOptions, DefaultConfig

(* No word is in two tables.                                               *)
LEMMA TablesApart ==
    /\ DOMAIN Texts \cap DOMAIN Sizes = {}
    /\ DOMAIN Texts \cap DOMAIN Ints = {}
    /\ DOMAIN Texts \cap DOMAIN Switches = {}
    /\ DOMAIN Sizes \cap DOMAIN Ints = {}
    /\ DOMAIN Sizes \cap DOMAIN Switches = {}
    /\ DOMAIN Ints \cap DOMAIN Switches = {}
    /\ Unstored \cap (DOMAIN Texts \cup DOMAIN Sizes \cup DOMAIN Ints \cup DOMAIN Switches) = {}
    /\ (Helps \cup {"--version"}) \cap (Valued \cup DOMAIN Switches) = {}
<1> DEFINE T == DOMAIN Texts
           S == DOMAIN Sizes
           I == DOMAIN Ints
           W == DOMAIN Switches
<1>1. /\ T = UNION Range(TextOptions) /\ S = UNION Range(SizeOptions)
      /\ I = UNION Range(IntOptions) /\ W = UNION Range(SwitchOptions)
  BY DEF Texts, Sizes, Ints, Switches, FieldOf
<1>2. T \cap S = {} /\ T \cap I = {}
  BY <1>1 DEF TextOptions, SizeOptions, IntOptions, Range
<1>3. T \cap W = {} /\ S \cap I = {}
  BY <1>1 DEF TextOptions, SizeOptions, IntOptions, SwitchOptions, Range
<1>4. S \cap W = {} /\ I \cap W = {}
  BY <1>1 DEF SizeOptions, IntOptions, SwitchOptions, Range
<1>5. (Unstored \cup Helps \cup {"--version"}) \cap (T \cup S \cup I \cup W) = {}
  BY <1>1 DEF TextOptions, SizeOptions, IntOptions, SwitchOptions, Unstored, Helps, Range
<1>6. (Helps \cup {"--version"}) \cap Unstored = {}
  BY DEF Helps, Unstored
<1> QED
  BY <1>2, <1>3, <1>4, <1>5, <1>6 DEF Valued

(* Assigning to a field of a CommandConfig.                                *)
LEMMA WithField ==
    ASSUME DOMAIN config = DOMAIN DefaultConfig,
           NEW field \in DOMAIN DefaultConfig, NEW value
    PROVE  /\ DOMAIN With(field, value) = DOMAIN DefaultConfig
           /\ With(field, value)[field] = value
           /\ \A f \in DOMAIN DefaultConfig : f # field => With(field, value)[f] = config[f]
BY DEF With
-----------------------------------------------------------------------------
(* The defaults are of their types.                                        *)
LEMMA DefaultTypes ==
    /\ DefaultConfig.type = "UNKNOWN" /\ DefaultConfig.destination = ""
    /\ \A f \in DOMAIN SizeOptions : DefaultConfig[f] \in 0..SizeMax
    /\ \A f \in DOMAIN IntOptions : DefaultConfig[f] \in IntRange
    /\ \A f \in DOMAIN SwitchOptions : DefaultConfig[f] = FALSE
<1>1. DefaultConfig.type = "UNKNOWN" /\ DefaultConfig.destination = ""
  BY DEF DefaultConfig
<1>2. \A f \in DOMAIN SizeOptions : DefaultConfig[f] \in 0..SizeMax
  <2>1. DefaultConfig["maxCalls"] = 10 /\ DefaultConfig["repeatCount"] = 1
    BY DEF DefaultConfig
  <2>2. DOMAIN SizeOptions = {"maxCalls", "repeatCount"}
    BY DEF SizeOptions
  <2> QED
    BY <2>1, <2>2, CliParserAssumption
<1>3. \A f \in DOMAIN IntOptions : DefaultConfig[f] \in IntRange
  <2>1. /\ DefaultConfig["mediaEncBits"] = 0 /\ DefaultConfig["tminCall"] = 10
        /\ DefaultConfig["tmaxCall"] = 30 /\ DefaultConfig["fuzzPercentage"] = 0
        /\ DefaultConfig["traceLevel"] = 0
    BY DEF DefaultConfig
  <2>2. DOMAIN IntOptions = {"mediaEncBits", "tminCall", "tmaxCall", "fuzzPercentage",
                             "traceLevel"}
    BY DEF IntOptions
  <2>3. {0, 10, 30} \subseteq IntRange
    BY CliParserAssumption DEF IntRange
  <2> QED
    BY <2>1, <2>2, <2>3
<1>4. \A f \in DOMAIN SwitchOptions : DefaultConfig[f] = FALSE
  <2>1. /\ DefaultConfig["quiet"] = FALSE /\ DefaultConfig["verbose"] = FALSE
        /\ DefaultConfig["cycleMode"] = FALSE /\ DefaultConfig["video"] = FALSE
        /\ DefaultConfig["h239"] = FALSE /\ DefaultConfig["tls"] = FALSE
    BY DEF DefaultConfig
  <2>2. DOMAIN SwitchOptions = {"quiet", "verbose", "cycleMode", "video", "h239", "tls"}
    BY DEF SwitchOptions
  <2> QED
    BY <2>1, <2>2
<1> QED
  BY <1>1, <1>2, <1>3, <1>4
-----------------------------------------------------------------------------
(* The least of some numbers.                                              *)
LEMMA LeastNumber ==
    ASSUME NEW S \in SUBSET Nat, S # {}
    PROVE  \E m \in S : \A n \in S : m <= n
<1> DEFINE R == {pair \in Nat \X Nat : pair[1] < pair[2]}
<1>1. IsWellFoundedOn(R, Nat)
  BY NatLessThanWellFounded DEF OpToRel
<1>2. PICK m \in S : \A n \in S : <<n, m>> \notin R
  BY <1>1, WFMin, Zenon
<1>3. ASSUME NEW n \in S PROVE m <= n
  <2>1. ~(n < m)
    BY <1>2
  <2> QED
    BY <2>1
<1> QED
  BY <1>2, <1>3

(* The role of a word depends on the words before it alone.                *)
LEMMA RoleIsLocal ==
    ASSUME NEW words, NEW k \in Nat \ {0}, NEW r, NEW s,
           \A j \in 1..(k - 1) : r[j] = s[j]
    PROVE  RoleAt(words, r, k) = RoleAt(words, s, k)
<1>1. (\E j \in 1..(k - 1) : r[j] = "command") <=> (\E j \in 1..(k - 1) : s[j] = "command")
  OBVIOUS
<1>2. (k > 1 /\ r[k - 1] = "option") <=> (k > 1 /\ s[k - 1] = "option")
  OBVIOUS
<1>3. CASE \E j \in 1..(k - 1) : r[j] = "command"
  BY <1>1, <1>2, <1>3 DEF RoleAt
<1>4. CASE ~ \E j \in 1..(k - 1) : r[j] = "command"
  BY <1>1, <1>2, <1>4 DEF RoleAt
<1> QED
  BY <1>3, <1>4

(* So each word of a command line has one: for if that failed, it would    *)
(* fail for the shortest beginning, where one more word makes it so.       *)
LEMMA RolesUpTo ==
    ASSUME NEW words, NEW n \in Nat
    PROVE  \E r : r = [k \in 1..n |-> RoleAt(words, r, k)]
<1> DEFINE Works(m) == \E r : r = [k \in 1..m |-> RoleAt(words, r, k)]
           Fails == {m \in Nat : ~Works(m)}
<1> SUFFICES ASSUME Fails # {} PROVE FALSE
  OBVIOUS
<1>1. PICK m \in Fails : \A l \in Fails : m <= l
  BY LeastNumber
<1>2. CASE m = 0
  <2> DEFINE r == [k \in 1..0 |-> RoleAt(words, <<>>, k)]
  <2>1. r = [k \in 1..0 |-> RoleAt(words, r, k)]
    OBVIOUS
  <2> QED
    BY <1>1, <1>2, <2>1
<1>3. CASE m # 0
  <2>1. m - 1 \in Nat /\ m - 1 \notin Fails
    BY <1>1, <1>3
  <2>2. PICK r : r = [k \in 1..(m - 1) |-> RoleAt(words, r, k)]
    BY <2>1
  <2> DEFINE s == [k \in 1..m |-> IF k = m THEN RoleAt(words, r, m) ELSE r[k]]
  <2>3. \A j \in 1..(m - 1) : s[j] = r[j]
    BY <2>1
  <2>4. ASSUME NEW k \in 1..m PROVE s[k] = RoleAt(words, s, k)
    <3>1. k \in Nat \ {0} /\ \A j \in 1..(k - 1) : r[j] = s[j]
      BY <2>1, <2>3
    <3>2. RoleAt(words, r, k) = RoleAt(words, s, k)
      BY <3>1, RoleIsLocal
    <3>3. k # m => r[k] = RoleAt(words, r, k)
      BY <2>1, <2>2
    <3> QED
      BY <3>2, <3>3
  <2>5. s = [k \in 1..m |-> RoleAt(words, s, k)]
    BY <2>4
  <2> QED
    BY <1>1, <2>5
<1> QED
  BY <1>2, <1>3

LEMMA RolesEquation ==
    ASSUME NEW words \in Seq(STRING)
    PROVE  Roles(words) = [k \in 1..Len(words) |-> RoleAt(words, Roles(words), k)]
<1>0. Len(words) \in Nat
  OBVIOUS
<1>1. PICK r : r = [k \in 1..Len(words) |-> RoleAt(words, r, k)]
  BY <1>0, RolesUpTo
<1> QED
  BY <1>1 DEF Roles

-----------------------------------------------------------------------------
(* Behind the command.                                                     *)
Behind(words, k) == \E j \in 1..(k - 1) : Roles(words)[j] = "command"

(* The words that take a value, and those that are known, there or before. *)
Takes(after) == IF after THEN Valued ELSE DOMAIN GlobalTexts
Knows(after) == IF after THEN Dashed ELSE DOMAIN GlobalTexts \cup DOMAIN GlobalFlags

(* The options of the two passes are dashed words.                         *)
LEMMA KnownIsDashed ==
    /\ Valued \subseteq Dashed
    /\ DOMAIN GlobalTexts \subseteq Valued
    /\ DOMAIN GlobalFlags \subseteq DOMAIN Switches
    /\ DOMAIN Switches \subseteq Dashed
    /\ Helps \cup {"--version"} \cup OtherDashed \subseteq Dashed
BY GlobalTables DEF Valued, Dashed, Options

(* What a word is that is no value.                                        *)
LEMMA RoleOfWord ==
    ASSUME NEW words \in Seq(STRING), NEW k \in 1..Len(words), Roles(words)[k] # "value"
    PROVE  Roles(words)[k] =
             IF IsBare(words[k]) THEN IF Behind(words, k) THEN "bare" ELSE "command"
                                 ELSE IF words[k] \in Knows(Behind(words, k)) THEN "option" ELSE "ignored"
<1>1. Roles(words)[k] = RoleAt(words, Roles(words), k)
  BY RolesEquation
<1>2. Knows(Behind(words, k)) \subseteq Dashed
  BY KnownIsDashed DEF Knows
<1> QED
  BY <1>1, <1>2 DEF RoleAt, Behind, Knows, IsBare

(* A value is what stands behind an option that takes one.                 *)
LEMMA RoleOfValue ==
    ASSUME NEW words \in Seq(STRING), NEW k \in 1..Len(words)
    PROVE  Roles(words)[k] = "value" <=>
              k > 1 /\ Roles(words)[k - 1] = "option" /\ words[k - 1] \in Takes(Behind(words, k))
<1>1. Roles(words)[k] = RoleAt(words, Roles(words), k)
  BY RolesEquation
<1> QED
  BY <1>1 DEF RoleAt, Behind, Takes, IsBare

(* One word further, one is behind the command as before, unless that word *)
(* was it.                                                                 *)
LEMMA BehindNext ==
    ASSUME NEW words, NEW k \in Nat \ {0}
    PROVE  Behind(words, k + 1) <=> Behind(words, k) \/ Roles(words)[k] = "command"
BY DEF Behind

-----------------------------------------------------------------------------
(* The places of a role before the i-th word.                              *)
Before(words, i, role) == {k \in 1..(i - 1) : Roles(words)[k] = role}

(* One word further there is one more of its role.                         *)
LEMMA BeforeNext ==
    ASSUME NEW words, NEW i \in Nat \ {0}, NEW role
    PROVE  Before(words, i + 1, role) =
              IF Roles(words)[i] = role THEN Before(words, i, role) \cup {i}
                                        ELSE Before(words, i, role)
BY DEF Before

(* The greatest of some numbers and a greater one.                         *)
Below(S, k) == \A n \in S : n \in Nat /\ n < k

LEMMA GreatestIsNew ==
    ASSUME NEW S, NEW k \in Nat, Below(S, k)
    PROVE  Max(S \cup {k}) = k
<1>1. \A y \in S \cup {k} : k >= y
  BY DEF Below
<1>2. ASSUME NEW x \in S \cup {k}, \A y \in S \cup {k} : x >= y PROVE x = k
  BY <1>2 DEF Below
<1> QED
  BY <1>1, <1>2 DEF Max

(* A new value is one more for the field of its option, ...                *)
LEMMA GivenMore ==
    ASSUME NEW words, NEW values, NEW k \in Nat, NEW table,
           Below(values, k), words[k - 1] \in DOMAIN table
    PROVE  /\ Given(words, values \cup {k}, table, table[words[k - 1]]) # {}
           /\ Max(Given(words, values \cup {k}, table, table[words[k - 1]])) = k
<1> DEFINE f == table[words[k - 1]]
<1>1. Given(words, values \cup {k}, table, f) = Given(words, values, table, f) \cup {k}
  BY DEF Given
<1>2. Below(Given(words, values, table, f), k)
  BY DEF Given, Below
<1>3. Max(Given(words, values, table, f) \cup {k}) = k
  BY <1>2, GreatestIsNew
<1> QED
  BY <1>1, <1>3

(* ... and none for the others; ...                                        *)
LEMMA GivenSame ==
    ASSUME NEW words, NEW values, NEW k \in Nat, NEW table, NEW f,
           words[k - 1] \in DOMAIN table => table[words[k - 1]] # f
    PROVE  Given(words, values \cup {k}, table, f) = Given(words, values, table, f)
BY DEF Given

(* ... and so it is the last value of that field: a text, ...             *)
LEMMA NewText ==
    ASSUME NEW words, NEW values, NEW k \in Nat, Below(values, k),
           words[k - 1] \in DOMAIN Texts
    PROVE  /\ LastValue(words, values \cup {k}, Texts, Texts[words[k - 1]], Itself) = words[k]
           /\ \A f : f # Texts[words[k - 1]] =>
                 LastValue(words, values \cup {k}, Texts, f, Itself) =
                    LastValue(words, values, Texts, f, Itself)
<1>1. /\ Given(words, values \cup {k}, Texts, Texts[words[k - 1]]) # {}
      /\ Max(Given(words, values \cup {k}, Texts, Texts[words[k - 1]])) = k
  BY GivenMore
<1>2. LastValue(words, values \cup {k}, Texts, Texts[words[k - 1]], Itself) = words[k]
  BY <1>1 DEF LastValue, Itself
<1>3. ASSUME NEW f, f # Texts[words[k - 1]]
      PROVE  LastValue(words, values \cup {k}, Texts, f, Itself) =
                LastValue(words, values, Texts, f, Itself)
  <2>1. words[k - 1] \in DOMAIN Texts => Texts[words[k - 1]] # f
    BY <1>3
  <2>2. Given(words, values \cup {k}, Texts, f) = Given(words, values, Texts, f)
    BY <2>1, GivenSame
  <2> QED
    BY <2>2 DEF LastValue
<1> QED
  BY <1>2, <1>3

(* ... a size, ...                                                        *)
LEMMA NewSize ==
    ASSUME NEW words, NEW values, NEW k \in Nat, Below(values, k),
           words[k - 1] \in DOMAIN Sizes
    PROVE  /\ LastValue(words, values \cup {k}, Sizes, Sizes[words[k - 1]], Stoul) = Stoul(words[k])
           /\ \A f : f # Sizes[words[k - 1]] =>
                 LastValue(words, values \cup {k}, Sizes, f, Stoul) =
                    LastValue(words, values, Sizes, f, Stoul)
<1>1. /\ Given(words, values \cup {k}, Sizes, Sizes[words[k - 1]]) # {}
      /\ Max(Given(words, values \cup {k}, Sizes, Sizes[words[k - 1]])) = k
  BY GivenMore
<1>2. LastValue(words, values \cup {k}, Sizes, Sizes[words[k - 1]], Stoul) = Stoul(words[k])
  BY <1>1 DEF LastValue
<1>3. ASSUME NEW f, f # Sizes[words[k - 1]]
      PROVE  LastValue(words, values \cup {k}, Sizes, f, Stoul) =
                LastValue(words, values, Sizes, f, Stoul)
  <2>1. words[k - 1] \in DOMAIN Sizes => Sizes[words[k - 1]] # f
    BY <1>3
  <2>2. Given(words, values \cup {k}, Sizes, f) = Given(words, values, Sizes, f)
    BY <2>1, GivenSame
  <2> QED
    BY <2>2 DEF LastValue
<1> QED
  BY <1>2, <1>3

(* ... or an int.                                                          *)
LEMMA NewInt ==
    ASSUME NEW words, NEW values, NEW k \in Nat, Below(values, k),
           words[k - 1] \in DOMAIN Ints
    PROVE  /\ LastValue(words, values \cup {k}, Ints, Ints[words[k - 1]], Stoi) = Stoi(words[k])
           /\ \A f : f # Ints[words[k - 1]] =>
                 LastValue(words, values \cup {k}, Ints, f, Stoi) =
                    LastValue(words, values, Ints, f, Stoi)
<1>1. /\ Given(words, values \cup {k}, Ints, Ints[words[k - 1]]) # {}
      /\ Max(Given(words, values \cup {k}, Ints, Ints[words[k - 1]])) = k
  BY GivenMore
<1>2. LastValue(words, values \cup {k}, Ints, Ints[words[k - 1]], Stoi) = Stoi(words[k])
  BY <1>1 DEF LastValue
<1>3. ASSUME NEW f, f # Ints[words[k - 1]]
      PROVE  LastValue(words, values \cup {k}, Ints, f, Stoi) =
                LastValue(words, values, Ints, f, Stoi)
  <2>1. words[k - 1] \in DOMAIN Ints => Ints[words[k - 1]] # f
    BY <1>3
  <2>2. Given(words, values \cup {k}, Ints, f) = Given(words, values, Ints, f)
    BY <2>1, GivenSame
  <2> QED
    BY <2>2 DEF LastValue
<1> QED
  BY <1>2, <1>3

(* Of another table it is no value.                                        *)
LEMMA OtherValue ==
    ASSUME NEW words, NEW values, NEW k \in Nat, NEW f
    PROVE  /\ words[k - 1] \notin DOMAIN Texts =>
                 LastValue(words, values \cup {k}, Texts, f, Itself) =
                    LastValue(words, values, Texts, f, Itself)
           /\ words[k - 1] \notin DOMAIN Sizes =>
                 LastValue(words, values \cup {k}, Sizes, f, Stoul) =
                    LastValue(words, values, Sizes, f, Stoul)
           /\ words[k - 1] \notin DOMAIN Ints =>
                 LastValue(words, values \cup {k}, Ints, f, Stoi) =
                    LastValue(words, values, Ints, f, Stoi)
<1>1. ASSUME NEW table, words[k - 1] \notin DOMAIN table
      PROVE  Given(words, values \cup {k}, table, f) = Given(words, values, table, f)
  <2>1. words[k - 1] \in DOMAIN table => table[words[k - 1]] # f
    BY <1>1
  <2> QED
    BY <2>1, GivenSame
<1>2. words[k - 1] \notin DOMAIN Texts =>
         Given(words, values \cup {k}, Texts, f) = Given(words, values, Texts, f)
  BY <1>1
<1>3. words[k - 1] \notin DOMAIN Sizes =>
         Given(words, values \cup {k}, Sizes, f) = Given(words, values, Sizes, f)
  BY <1>1
<1>4. words[k - 1] \notin DOMAIN Ints =>
         Given(words, values \cup {k}, Ints, f) = Given(words, values, Ints, f)
  BY <1>1
<1> QED
  BY <1>2, <1>3, <1>4 DEF LastValue

(* The assignment of a value makes it the one the field holds: a text, ... *)
LEMMA HoldsText ==
    ASSUME NEW c, DOMAIN c = DOMAIN DefaultConfig,
           NEW words, NEW values, NEW options, NEW bare, NEW k \in Nat,
           Holds(c, words, values, options, bare),
           Below(values, k), words[k - 1] \in DOMAIN Texts
    PROVE  Holds([c EXCEPT ![Texts[words[k - 1]]] = words[k]],
                 words, values \cup {k}, options, bare)
<1> DEFINE field == Texts[words[k - 1]]
           d == [c EXCEPT ![field] = words[k]]
<1>0. field \in DOMAIN TextOptions
  BY TableFields
<1>1. /\ d[field] = words[k]
      /\ \A f \in DOMAIN DefaultConfig : f # field => d[f] = c[f]
  BY <1>0, ConfigFields
<1>2. \A f \in DOMAIN DefaultConfig \ DOMAIN TextOptions : d[f] = c[f]
  BY <1>0, <1>1
<1> HIDE DEF d
<1>3. ASSUME NEW f \in DOMAIN TextOptions
      PROVE  d[f] = LastValue(words, values \cup {k}, Texts, f, Itself)
  <2>1. f \in DOMAIN DefaultConfig /\ c[f] = LastValue(words, values, Texts, f, Itself)
    BY ConfigFields DEF Holds
  <2>2. /\ LastValue(words, values \cup {k}, Texts, field, Itself) = words[k]
        /\ \A g : g # field => LastValue(words, values \cup {k}, Texts, g, Itself) =
                                 LastValue(words, values, Texts, g, Itself)
    BY NewText
  <2> QED
    BY <1>1, <2>1, <2>2
<1>4. ASSUME NEW f \in DOMAIN SizeOptions
      PROVE  d[f] = LastValue(words, values \cup {k}, Sizes, f, Stoul)
  <2>1. d[f] = c[f] /\ c[f] = LastValue(words, values, Sizes, f, Stoul)
    BY <1>2, ConfigFields, FieldsApart DEF Holds
  <2>2. words[k - 1] \notin DOMAIN Sizes
    BY TablesApart
  <2> QED
    BY <2>1, <2>2, OtherValue
<1>5. ASSUME NEW f \in DOMAIN IntOptions
      PROVE  d[f] = LastValue(words, values \cup {k}, Ints, f, Stoi)
  <2>1. d[f] = c[f] /\ c[f] = LastValue(words, values, Ints, f, Stoi)
    BY <1>2, ConfigFields, FieldsApart DEF Holds
  <2>2. words[k - 1] \notin DOMAIN Ints
    BY TablesApart
  <2> QED
    BY <2>1, <2>2, OtherValue
<1>6. \A f \in DOMAIN SwitchOptions \cup {"destination"} : d[f] = c[f]
  BY <1>2, ConfigFields, FieldsApart
<1>7. Holds(d, words, values \cup {k}, options, bare)
  BY <1>3, <1>4, <1>5, <1>6 DEF Holds
<1> QED
  BY <1>7 DEF d

(* ... a size, ...                                                        *)
LEMMA HoldsSize ==
    ASSUME NEW c, DOMAIN c = DOMAIN DefaultConfig,
           NEW words, NEW values, NEW options, NEW bare, NEW k \in Nat,
           Holds(c, words, values, options, bare),
           Below(values, k), words[k - 1] \in DOMAIN Sizes
    PROVE  Holds([c EXCEPT ![Sizes[words[k - 1]]] = Stoul(words[k])],
                 words, values \cup {k}, options, bare)
<1> DEFINE field == Sizes[words[k - 1]]
           d == [c EXCEPT ![field] = Stoul(words[k])]
<1>0. field \in DOMAIN SizeOptions
  BY TableFields
<1>1. /\ d[field] = Stoul(words[k])
      /\ \A f \in DOMAIN DefaultConfig : f # field => d[f] = c[f]
  BY <1>0, ConfigFields
<1>2. \A f \in DOMAIN DefaultConfig \ DOMAIN SizeOptions : d[f] = c[f]
  BY <1>0, <1>1
<1> HIDE DEF d
<1>3. ASSUME NEW f \in DOMAIN TextOptions
      PROVE  d[f] = LastValue(words, values \cup {k}, Texts, f, Itself)
  <2>1. d[f] = c[f] /\ c[f] = LastValue(words, values, Texts, f, Itself)
    BY <1>2, ConfigFields, FieldsApart DEF Holds
  <2>2. words[k - 1] \notin DOMAIN Texts
    BY TablesApart
  <2> QED
    BY <2>1, <2>2, OtherValue
<1>4. ASSUME NEW f \in DOMAIN SizeOptions
      PROVE  d[f] = LastValue(words, values \cup {k}, Sizes, f, Stoul)
  <2>1. f \in DOMAIN DefaultConfig /\ c[f] = LastValue(words, values, Sizes, f, Stoul)
    BY ConfigFields DEF Holds
  <2>2. /\ LastValue(words, values \cup {k}, Sizes, field, Stoul) = Stoul(words[k])
        /\ \A g : g # field => LastValue(words, values \cup {k}, Sizes, g, Stoul) =
                                 LastValue(words, values, Sizes, g, Stoul)
    BY NewSize
  <2> QED
    BY <1>1, <2>1, <2>2
<1>5. ASSUME NEW f \in DOMAIN IntOptions
      PROVE  d[f] = LastValue(words, values \cup {k}, Ints, f, Stoi)
  <2>1. d[f] = c[f] /\ c[f] = LastValue(words, values, Ints, f, Stoi)
    BY <1>2, ConfigFields, FieldsApart DEF Holds
  <2>2. words[k - 1] \notin DOMAIN Ints
    BY TablesApart
  <2> QED
    BY <2>1, <2>2, OtherValue
<1>6. \A f \in DOMAIN SwitchOptions \cup {"destination"} : d[f] = c[f]
  BY <1>2, ConfigFields, FieldsApart
<1>7. Holds(d, words, values \cup {k}, options, bare)
  BY <1>3, <1>4, <1>5, <1>6 DEF Holds
<1> QED
  BY <1>7 DEF d

(* ... or an int.                                                          *)
LEMMA HoldsInt ==
    ASSUME NEW c, DOMAIN c = DOMAIN DefaultConfig,
           NEW words, NEW values, NEW options, NEW bare, NEW k \in Nat,
           Holds(c, words, values, options, bare),
           Below(values, k), words[k - 1] \in DOMAIN Ints
    PROVE  Holds([c EXCEPT ![Ints[words[k - 1]]] = Stoi(words[k])],
                 words, values \cup {k}, options, bare)
<1> DEFINE field == Ints[words[k - 1]]
           d == [c EXCEPT ![field] = Stoi(words[k])]
<1>0. field \in DOMAIN IntOptions
  BY TableFields
<1>1. /\ d[field] = Stoi(words[k])
      /\ \A f \in DOMAIN DefaultConfig : f # field => d[f] = c[f]
  BY <1>0, ConfigFields
<1>2. \A f \in DOMAIN DefaultConfig \ DOMAIN IntOptions : d[f] = c[f]
  BY <1>0, <1>1
<1> HIDE DEF d
<1>3. ASSUME NEW f \in DOMAIN TextOptions
      PROVE  d[f] = LastValue(words, values \cup {k}, Texts, f, Itself)
  <2>1. d[f] = c[f] /\ c[f] = LastValue(words, values, Texts, f, Itself)
    BY <1>2, ConfigFields, FieldsApart DEF Holds
  <2>2. words[k - 1] \notin DOMAIN Texts
    BY TablesApart
  <2> QED
    BY <2>1, <2>2, OtherValue
<1>4. ASSUME NEW f \in DOMAIN SizeOptions
      PROVE  d[f] = LastValue(words, values \cup {k}, Sizes, f, Stoul)
  <2>1. d[f] = c[f] /\ c[f] = LastValue(words, values, Sizes, f, Stoul)
    BY <1>2, ConfigFields, FieldsApart DEF Holds
  <2>2. words[k - 1] \notin DOMAIN Sizes
    BY TablesApart
  <2> QED
    BY <2>1, <2>2, OtherValue
<1>5. ASSUME NEW f \in DOMAIN IntOptions
      PROVE  d[f] = LastValue(words, values \cup {k}, Ints, f, Stoi)
  <2>1. f \in DOMAIN DefaultConfig /\ c[f] = LastValue(words, values, Ints, f, Stoi)
    BY ConfigFields DEF Holds
  <2>2. /\ LastValue(words, values \cup {k}, Ints, field, Stoi) = Stoi(words[k])
        /\ \A g : g # field => LastValue(words, values \cup {k}, Ints, g, Stoi) =
                                 LastValue(words, values, Ints, g, Stoi)
    BY NewInt
  <2> QED
    BY <1>1, <2>1, <2>2
<1>6. \A f \in DOMAIN SwitchOptions \cup {"destination"} : d[f] = c[f]
  BY <1>2, ConfigFields, FieldsApart
<1>7. Holds(d, words, values \cup {k}, options, bare)
  BY <1>3, <1>4, <1>5, <1>6 DEF Holds
<1> QED
  BY <1>7 DEF d

(* A value that is skipped is no field's.                                  *)
LEMMA HoldsUnstored ==
    ASSUME NEW c, NEW words, NEW values, NEW options, NEW bare, NEW k \in Nat,
           Holds(c, words, values, options, bare),
           words[k - 1] \in Unstored
    PROVE  Holds(c, words, values \cup {k}, options, bare)
<1>1. /\ words[k - 1] \notin DOMAIN Texts /\ words[k - 1] \notin DOMAIN Sizes
      /\ words[k - 1] \notin DOMAIN Ints
  BY TablesApart
<1>2. /\ \A f : LastValue(words, values \cup {k}, Texts, f, Itself) =
                   LastValue(words, values, Texts, f, Itself)
      /\ \A f : LastValue(words, values \cup {k}, Sizes, f, Stoul) =
                   LastValue(words, values, Sizes, f, Stoul)
      /\ \A f : LastValue(words, values \cup {k}, Ints, f, Stoi) =
                   LastValue(words, values, Ints, f, Stoi)
  BY <1>1, OtherValue
<1> QED
  BY <1>2 DEF Holds

(* A switch is on once it is given; other options turn none on.            *)
LEMMA HoldsSwitch ==
    ASSUME NEW c, DOMAIN c = DOMAIN DefaultConfig,
           NEW words, NEW values, NEW options, NEW bare, NEW k,
           Holds(c, words, values, options, bare),
           words[k] \in DOMAIN Switches
    PROVE  Holds([c EXCEPT ![Switches[words[k]]] = TRUE], words, values, options \cup {k}, bare)
<1> DEFINE field == Switches[words[k]]
           d == [c EXCEPT ![field] = TRUE]
<1>0. field \in DOMAIN SwitchOptions
  BY TableFields
<1>1. /\ d[field] = TRUE
      /\ \A f \in DOMAIN DefaultConfig : f # field => d[f] = c[f]
  BY <1>0, ConfigFields
<1>2. \A f \in DOMAIN DefaultConfig \ DOMAIN SwitchOptions : d[f] = c[f]
  BY <1>0, <1>1
<1>3. \A f \in DOMAIN TextOptions \cup DOMAIN SizeOptions \cup DOMAIN IntOptions
             \cup {"destination"} : d[f] = c[f]
  BY <1>2, ConfigFields, FieldsApart
<1> HIDE DEF d
<1>4. ASSUME NEW f \in DOMAIN SwitchOptions
      PROVE  d[f] <=> \E n \in options \cup {k} :
                         words[n] \in DOMAIN Switches /\ Switches[words[n]] = f
  <2>1. c[f] <=> \E n \in options : words[n] \in DOMAIN Switches /\ Switches[words[n]] = f
    BY DEF Holds
  <2>2. CASE f = field
    BY <1>1, <2>2
  <2>3. CASE f # field
    <3>1. d[f] = c[f]
      BY <1>1, <2>3, ConfigFields
    <3> QED
      BY <2>1, <2>3, <3>1
  <2> QED
    BY <2>2, <2>3
<1>5. Holds(d, words, values, options \cup {k}, bare)
  BY <1>3, <1>4 DEF Holds
<1> QED
  BY <1>5 DEF d

LEMMA HoldsOption ==
    ASSUME NEW c, NEW words, NEW values, NEW options, NEW bare, NEW k,
           Holds(c, words, values, options, bare),
           words[k] \notin DOMAIN Switches
    PROVE  Holds(c, words, values, options \cup {k}, bare)
BY DEF Holds

(* The last bare word is the destination; without a call there is none.    *)
LEMMA HoldsBare ==
    ASSUME NEW c, DOMAIN c = DOMAIN DefaultConfig,
           NEW words, NEW values, NEW options, NEW bare, NEW k \in Nat,
           Holds(c, words, values, options, bare), Below(bare, k)
    PROVE  /\ Holds([c EXCEPT !.destination = words[k]], words, values, options, bare \cup {k})
           /\ c.destination = "" => Holds(c, words, values, options, bare \cup {k})
<1> DEFINE d == [c EXCEPT !.destination = words[k]]
<1>1. /\ d.destination = words[k]
      /\ \A f \in DOMAIN DefaultConfig : f # "destination" => d[f] = c[f]
  BY ConfigFields
<1>2. \A f \in DOMAIN TextOptions \cup DOMAIN SizeOptions \cup DOMAIN IntOptions
             \cup DOMAIN SwitchOptions : d[f] = c[f]
  BY <1>1, ConfigFields, FieldsApart
<1>3. Max(bare \cup {k}) = k
  BY GreatestIsNew
<1> HIDE DEF d
<1>4. Holds(d, words, values, options, bare \cup {k})
  BY <1>1, <1>2, <1>3 DEF Holds
<1>5. c.destination = "" => Holds(c, words, values, options, bare \cup {k})
  BY DEF Holds
<1> QED
  BY <1>4, <1>5 DEF d

(* The command is a field of its own.                                      *)
LEMMA HoldsType ==
    ASSUME NEW c, DOMAIN c = DOMAIN DefaultConfig,
           NEW words, NEW values, NEW options, NEW bare, NEW type,
           Holds(c, words, values, options, bare)
    PROVE  Holds([c EXCEPT !.type = type], words, values, options, bare)
<1> DEFINE d == [c EXCEPT !.type = type]
<1>1. \A f \in DOMAIN DefaultConfig : f # "type" => d[f] = c[f]
  BY ConfigFields
<1>2. \A f \in DOMAIN TextOptions \cup DOMAIN SizeOptions \cup DOMAIN IntOptions
             \cup DOMAIN SwitchOptions \cup {"destination"} : d[f] = c[f]
  BY <1>1, ConfigFields, FieldsApart
<1> HIDE DEF d
<1>3. Holds(d, words, values, options, bare)
  BY <1>2 DEF Holds
<1> QED
  BY <1>3 DEF d

(* Before the first word every field has its default.                      *)
LEMMA HoldsDefault ==
    ASSUME NEW words
    PROVE  Holds(DefaultConfig, words, {}, {}, {})
<1>1. \A table, f : Given(words, {}, table, f) = {}
  BY DEF Given
<1>2. /\ \A f : LastValue(words, {}, Texts, f, Itself) = DefaultConfig[f]
      /\ \A f : LastValue(words, {}, Sizes, f, Stoul) = DefaultConfig[f]
      /\ \A f : LastValue(words, {}, Ints, f, Stoi) = DefaultConfig[f]
  BY <1>1 DEF LastValue
<1> QED
  BY <1>2, DefaultTypes DEF Holds

-----------------------------------------------------------------------------
(* The inductive invariant, of a reading that has come to the i-th word:   *)
(* nothing so far has ended it, the i-th word is no value, and whether the *)
(* command is behind it; ...                                               *)
Ready(words, i, after) ==
    /\ \A end \in Ends(words, Roles(words)) : end >= i
    /\ i <= Len(words) => Roles(words)[i] # "value"
    /\ Behind(words, i) <=> after

(* ... c holds what the words before it say.                               *)
Told(words, i, c) ==
    /\ \A k \in Before(words, i, "value") : IsNumber(words, k)
    /\ Holds(c, words, Before(words, i, "value"), Before(words, i, "option"),
             Before(words, i, "bare"))

Reading ==
    parserPc \in {"arguments", "options"} =>
        /\ Ready(args, index, parserPc = "options")
        /\ config.destination # "" => config.type = "CALL" /\ parserPc = "options"

(* What was read when it ended is all that counts, ...                     *)
Finished ==
    parserPc \in {"validate", "parsed", "decided"} =>
        \A role \in {"value", "option", "bare"} :
            Places(args, Roles(args), role) = Before(args, index, role)

(* ... or the number that is none was met,                                 *)
CrashEarned ==
    /\ outcome = "crash" <=> parserPc = "crashed"
    /\ parserPc = "crashed" =>
          \E k \in Places(args, Roles(args), "value") : ~IsNumber(args, k)

(* and what runs was validated.                                            *)
RunEarned ==
    /\ valid => /\ parserPc \in {"parsed", "decided"}
                /\ config.type # "UNKNOWN" /\ ValidateConfig
    /\ outcome = "run" => valid /\ \A k \in 1..Len(args) : args[k] # "--version"

CliInv ==
    /\ CliTypeOK
    /\ Reading
    /\ Told(args, index, config)
    /\ Finished
    /\ CrashEarned
    /\ RunEarned

-----------------------------------------------------------------------------
(* The role of the word one has come to.                                   *)
LEMMA RoleHere ==
    ASSUME NEW words \in Seq(STRING), NEW i \in 1..Len(words), NEW after \in BOOLEAN,
           Ready(words, i, after)
    PROVE  Roles(words)[i] =
             IF IsBare(words[i]) THEN IF after THEN "bare" ELSE "command"
                                 ELSE IF words[i] \in Knows(after) THEN "option" ELSE "ignored"
<1>1. Roles(words)[i] # "value" /\ (Behind(words, i) <=> after)
  BY DEF Ready
<1>2. Knows(Behind(words, i)) = Knows(after)
  BY <1>1 DEF Knows
<1> QED
  BY <1>1, <1>2, RoleOfWord

(* Reading on behind a word that ends nothing and takes no value ...       *)
LEMMA OnePassed ==
    ASSUME NEW words \in Seq(STRING), NEW i \in 1..Len(words), NEW after \in BOOLEAN,
           Ready(words, i, after),
           Roles(words)[i] # "command", i \notin Ends(words, Roles(words)),
           i < Len(words) /\ Roles(words)[i] = "option" => words[i] \notin Takes(after)
    PROVE  Ready(words, i + 1, after)
<1>1. Behind(words, i + 1) <=> after
  BY BehindNext DEF Ready
<1>2. ASSUME i + 1 <= Len(words) PROVE Roles(words)[i + 1] # "value"
  <2>1. i + 1 \in 1..Len(words) /\ (i + 1) - 1 = i
    BY <1>2
  <2>2. Takes(Behind(words, i + 1)) = Takes(after)
    BY <1>1 DEF Takes
  <2> QED
    BY <1>2, <2>1, <2>2, RoleOfValue
<1>3. \A end \in Ends(words, Roles(words)) : end >= i + 1
  <2>1. \A end \in Ends(words, Roles(words)) : end >= i /\ end # i /\ end \in Nat
    BY DEF Ready, Ends
  <2> QED
    BY <2>1
<1> QED
  BY <1>1, <1>2, <1>3 DEF Ready

(* ... or behind the value it takes.                                       *)
LEMMA TwoPassed ==
    ASSUME NEW words \in Seq(STRING), NEW i \in 1..Len(words), NEW after \in BOOLEAN,
           Ready(words, i, after),
           i < Len(words), words[i] \in Takes(after)
    PROVE  /\ Roles(words)[i] = "option" /\ Roles(words)[i + 1] = "value"
           /\ i \notin Ends(words, Roles(words)) /\ i + 1 \notin Ends(words, Roles(words))
           /\ Ready(words, i + 2, after)
<1>0. i + 1 \in 1..Len(words) /\ (i + 1) - 1 = i /\ i + 1 > 1 /\ i + 1 \in Nat \ {0}
      /\ (i + 2) - 1 = i + 1 /\ (i + 1) + 1 = i + 2 /\ i \in Nat \ {0}
  OBVIOUS
<1>1. Roles(words)[i] = "option"
  <2>1. Takes(after) \subseteq Knows(after) /\ Takes(after) \subseteq Dashed
    BY KnownIsDashed DEF Takes, Knows
  <2> QED
    BY <2>1, RoleHere DEF IsBare
<1>2. Behind(words, i + 1) <=> after
  BY <1>0, <1>1, BehindNext DEF Ready
<1>3. Roles(words)[i + 1] = "value"
  <2>1. Takes(Behind(words, i + 1)) = Takes(after)
    BY <1>2 DEF Takes
  <2> QED
    BY <1>0, <1>1, <2>1, RoleOfValue
<1>4. Behind(words, i + 2) <=> after
  <2>1. Behind(words, (i + 1) + 1) <=> Behind(words, i + 1) \/ Roles(words)[i + 1] = "command"
    BY <1>0, BehindNext
  <2> QED
    BY <1>0, <1>2, <1>3, <2>1
<1>5. i + 2 <= Len(words) => Roles(words)[i + 2] # "value"
  <2>1. i + 2 <= Len(words) => i + 2 \in 1..Len(words)
    BY <1>0
  <2> QED
    BY <1>0, <1>3, <2>1, RoleOfValue
<1>6. i \notin Ends(words, Roles(words)) /\ i + 1 \notin Ends(words, Roles(words))
  <2>1. words[i] \notin Helps \cup {"--version"}
    BY KnownIsDashed, TablesApart DEF Takes
  <2> QED
    BY <1>1, <1>3, <2>1 DEF Ends
<1>7. \A end \in Ends(words, Roles(words)) : end >= i + 2
  <2>1. \A end \in Ends(words, Roles(words)) : end >= i /\ end # i /\ end # i + 1 /\ end \in Nat
    BY <1>6 DEF Ready, Ends
  <2> QED
    BY <2>1
<1> QED
  BY <1>1, <1>3, <1>4, <1>5, <1>6, <1>7 DEF Ready

-----------------------------------------------------------------------------
(* What is before a word is below it.                                      *)
LEMMA BeforeBelow ==
    ASSUME NEW words, NEW i \in Nat \ {0}, NEW role
    PROVE  Below(Before(words, i, role), i) /\ Below(Before(words, i, role), i + 1)
BY DEF Below, Before

(* One more word that was told: no value, ...                              *)
LEMMA ToldOne ==
    ASSUME NEW words, NEW i \in Nat \ {0}, NEW c, NEW d,
           Told(words, i, c), Roles(words)[i] # "value",
           Holds(d, words, Before(words, i, "value"),
                 IF Roles(words)[i] = "option" THEN Before(words, i, "option") \cup {i}
                                               ELSE Before(words, i, "option"),
                 IF Roles(words)[i] = "bare" THEN Before(words, i, "bare") \cup {i}
                                             ELSE Before(words, i, "bare"))
    PROVE  Told(words, i + 1, d)
<1>1. /\ Before(words, i + 1, "value") = Before(words, i, "value")
      /\ Before(words, i + 1, "option") =
            IF Roles(words)[i] = "option" THEN Before(words, i, "option") \cup {i}
                                          ELSE Before(words, i, "option")
      /\ Before(words, i + 1, "bare") =
            IF Roles(words)[i] = "bare" THEN Before(words, i, "bare") \cup {i}
                                        ELSE Before(words, i, "bare")
  BY BeforeNext
<1> QED
  BY <1>1 DEF Told

(* ... or an option and its value.                                         *)
LEMMA ToldTwo ==
    ASSUME NEW words, NEW i \in Nat \ {0}, NEW c, NEW d,
           Told(words, i, c), Roles(words)[i] = "option", Roles(words)[i + 1] = "value",
           words[i] \notin DOMAIN Switches, IsNumber(words, i + 1),
           Holds(d, words, Before(words, i, "value") \cup {i + 1},
                 Before(words, i, "option"), Before(words, i, "bare"))
    PROVE  Told(words, i + 2, d)
<1>1. /\ Before(words, i + 1, "value") = Before(words, i, "value")
      /\ Before(words, i + 1, "option") = Before(words, i, "option") \cup {i}
      /\ Before(words, i + 1, "bare") = Before(words, i, "bare")
  BY BeforeNext
<1>2. i + 1 \in Nat \ {0} /\ (i + 1) + 1 = i + 2
  OBVIOUS
<1>3. /\ Before(words, (i + 1) + 1, "value") = Before(words, i + 1, "value") \cup {i + 1}
      /\ Before(words, (i + 1) + 1, "option") = Before(words, i + 1, "option")
      /\ Before(words, (i + 1) + 1, "bare") = Before(words, i + 1, "bare")
  BY <1>2, BeforeNext
<1>4. Holds(d, words, Before(words, i, "value") \cup {i + 1},
            Before(words, i, "option") \cup {i}, Before(words, i, "bare"))
  BY HoldsOption
<1> QED
  BY <1>1, <1>2, <1>3, <1>4 DEF Told

(* The types of a CommandConfig, which each assignment keeps.              *)
ConfigTypes(c) ==
    /\ DOMAIN c = DOMAIN DefaultConfig
    /\ c.type \in Range(CommandTypes) \cup {"UNKNOWN"}
    /\ \A f \in DOMAIN SizeOptions : c[f] \in 0..SizeMax
    /\ \A f \in DOMAIN IntOptions : c[f] \in IntRange
    /\ \A f \in DOMAIN SwitchOptions : c[f] \in BOOLEAN

LEMMA AssignmentTypes ==
    ASSUME ConfigTypes(config)
    PROVE  /\ \A f \in DOMAIN TextOptions \cup {"destination"} : \A v : ConfigTypes(With(f, v))
           /\ \A f \in DOMAIN SizeOptions, v \in 0..SizeMax : ConfigTypes(With(f, v))
           /\ \A f \in DOMAIN IntOptions, v \in IntRange : ConfigTypes(With(f, v))
           /\ \A f \in DOMAIN SwitchOptions : ConfigTypes(With(f, TRUE))
           /\ \A v \in Range(CommandTypes) : ConfigTypes(With("type", v))
<1>0. ASSUME NEW f \in DOMAIN DefaultConfig, NEW v,
             f = "type" => v \in Range(CommandTypes),
             f \in DOMAIN SizeOptions => v \in 0..SizeMax,
             f \in DOMAIN IntOptions => v \in IntRange,
             f \in DOMAIN SwitchOptions => v \in BOOLEAN
      PROVE  ConfigTypes(With(f, v))
  <2>1. /\ DOMAIN With(f, v) = DOMAIN DefaultConfig
        /\ With(f, v)[f] = v
        /\ \A g \in DOMAIN DefaultConfig : g # f => With(f, v)[g] = config[g]
    BY WithField DEF ConfigTypes
  <2>2. With(f, v).type \in Range(CommandTypes) \cup {"UNKNOWN"}
    BY <1>0, <2>1, ConfigFields DEF ConfigTypes
  <2>3. \A g \in DOMAIN SizeOptions : With(f, v)[g] \in 0..SizeMax
    BY <1>0, <2>1, ConfigFields DEF ConfigTypes
  <2>4. \A g \in DOMAIN IntOptions : With(f, v)[g] \in IntRange
    BY <1>0, <2>1, ConfigFields DEF ConfigTypes
  <2>5. \A g \in DOMAIN SwitchOptions : With(f, v)[g] \in BOOLEAN
    BY <1>0, <2>1, ConfigFields DEF ConfigTypes
  <2> QED
    BY <2>1, <2>2, <2>3, <2>4, <2>5 DEF ConfigTypes
<1>1. \A f \in DOMAIN TextOptions \cup {"destination"} : \A v : ConfigTypes(With(f, v))
  BY <1>0, ConfigFields, FieldsApart
<1>2. \A f \in DOMAIN SizeOptions, v \in 0..SizeMax : ConfigTypes(With(f, v))
  BY <1>0, ConfigFields, FieldsApart
<1>3. \A f \in DOMAIN IntOptions, v \in IntRange : ConfigTypes(With(f, v))
  BY <1>0, ConfigFields, FieldsApart
<1>4. \A f \in DOMAIN SwitchOptions : ConfigTypes(With(f, TRUE))
  BY <1>0, ConfigFields, FieldsApart
<1>5. \A v \in Range(CommandTypes) : ConfigTypes(With("type", v))
  BY <1>0, ConfigFields, FieldsApart
<1> QED
  BY <1>1, <1>2, <1>3, <1>4, <1>5

-----------------------------------------------------------------------------
(* How far one may read on.                                                *)
LEMMA Further ==
    ASSUME NEW words \in Seq(STRING), NEW i
    PROVE  /\ Len(words) \in Nat
           /\ i \in 1..Len(words) + 1 => i \in Nat \ {0}
           /\ i \in 1..Len(words) + 1 /\ i <= Len(words) => i \in 1..Len(words)
           /\ i \in 1..Len(words) => i + 1 \in 1..Len(words) + 1
           /\ i \in 1..Len(words) /\ i < Len(words) => i + 2 \in 1..Len(words) + 1
<1>1. Len(words) \in Nat
  OBVIOUS
<1> QED
  BY <1>1

(* A step that reads on keeps the invariant if it is right about the words *)
(* it read.                                                                *)
LEMMA AdvanceKeeps ==
    ASSUME CliInv, parserPc \in {"arguments", "options"}, NEW n \in {1, 2}, Advance(n),
           index + n \in 1..Len(args) + 1, versionRequested' \in BOOLEAN,
           ConfigTypes(config'), Ready(args, index + n, parserPc = "options"),
           Told(args, index + n, config'),
           config'.destination # "" => config'.type = "CALL" /\ parserPc = "options"
    PROVE  CliInv'
<1>1. /\ args \in Seq(STRING) /\ index \in 1..Len(args) + 1
      /\ valid \in BOOLEAN /\ error \in BOOLEAN
      /\ outcome \in {"none", "version", "help", "error", "crash", "run"}
      /\ outcome = "none" <=> parserPc \notin {"decided", "crashed"}
  BY DEF CliInv, CliTypeOK
<1>3. index + n \in 1..Len(args) + 1
  OBVIOUS
<1>4. /\ index' = index + n /\ args' = args /\ parserPc' = parserPc
      /\ valid' = valid /\ error' = error /\ outcome' = outcome
  BY DEF Advance
<1>5. CliTypeOK'
  BY <1>1, <1>3, <1>4 DEF CliTypeOK, ConfigTypes
<1>6. Reading'
  BY <1>4 DEF Reading
<1>7. Told(args, index, config)'
  BY <1>4
<1>8. Finished'
  BY <1>4 DEF Finished
<1>9. CrashEarned'
  BY <1>4 DEF CliInv, CrashEarned
<1>10. RunEarned'
  BY <1>1, <1>4 DEF CliInv, RunEarned
<1> QED
  BY <1>5, <1>6, <1>7, <1>8, <1>9, <1>10 DEF CliInv

(* What every step that reads a word may rely on.                          *)
LEMMA WhereItReads ==
    ASSUME CliInv, NEW pc \in {"arguments", "options"}, At(pc)
    PROVE  /\ args \in Seq(STRING) /\ index \in 1..Len(args) /\ index \in Nat \ {0}
           /\ Len(args) \in Nat /\ parserPc = pc
           /\ Ready(args, index, pc = "options") /\ Roles(args)[index] # "value"
           /\ Roles(args)[index] =
                 IF IsBare(Arg) THEN IF pc = "options" THEN "bare" ELSE "command"
                                ELSE IF Arg \in Knows(pc = "options") THEN "option" ELSE "ignored"
           /\ Told(args, index, config)
           /\ config.destination # "" => config.type = "CALL" /\ pc = "options"
           /\ ConfigTypes(config) /\ versionRequested \in BOOLEAN
           /\ valid = FALSE /\ outcome = "none"
<1>1. /\ args \in Seq(STRING) /\ index \in 1..Len(args) + 1 /\ parserPc = pc
      /\ index <= Len(args)
  BY DEF At, CliInv, CliTypeOK
<1>2. Len(args) \in Nat
  BY <1>1, Further
<1>3. index \in 1..Len(args) /\ index \in Nat \ {0}
  BY <1>1, Further
<1>4. Ready(args, index, pc = "options")
  <2>1. Ready(args, index, parserPc = "options")
    BY <1>1 DEF CliInv, Reading
  <2> QED
    BY <1>1, <2>1
<1>5. Roles(args)[index] # "value"
  BY <1>1, <1>4 DEF Ready
<1>6. Roles(args)[index] =
        IF IsBare(args[index]) THEN IF pc = "options" THEN "bare" ELSE "command"
                 ELSE IF args[index] \in Knows(pc = "options") THEN "option" ELSE "ignored"
  BY <1>1, <1>3, <1>4, RoleHere
<1>7. config.destination # "" => config.type = "CALL" /\ pc = "options"
  BY <1>1 DEF CliInv, Reading
<1>8. Told(args, index, config) /\ ConfigTypes(config) /\ versionRequested \in BOOLEAN
  BY DEF CliInv, CliTypeOK, ConfigTypes
<1>9. valid = FALSE /\ outcome = "none"
  BY <1>1 DEF CliInv, CliTypeOK, RunEarned
<1>10. Roles(args)[index] =
        IF IsBare(Arg) THEN IF pc = "options" THEN "bare" ELSE "command"
                 ELSE IF Arg \in Knows(pc = "options") THEN "option" ELSE "ignored"
  BY <1>6 DEF Arg
<1> QED
  BY <1>1, <1>2, <1>3, <1>4, <1>5, <1>7, <1>8, <1>9, <1>10

(* An option with a value, in either pass.                                 *)
LEMMA ValueStep ==
    ASSUME CliInv, NEW pc \in {"arguments", "options"}, At(pc), HasValue,
           Arg \in Takes(pc = "options"), Advance(2), UNCHANGED versionRequested,
           ConfigTypes(config'), IsNumber(args, index + 1),
           config'.destination = config.destination, config'.type = config.type,
           Holds(config', args, Before(args, index, "value") \cup {index + 1},
                 Before(args, index, "option"), Before(args, index, "bare"))
    PROVE  CliInv'
<1>0. /\ args \in Seq(STRING) /\ index \in 1..Len(args) /\ index \in Nat \ {0}
      /\ Len(args) \in Nat /\ parserPc = pc /\ index < Len(args)
      /\ Ready(args, index, pc = "options")
      /\ Told(args, index, config)
      /\ config.destination # "" => config.type = "CALL" /\ pc = "options"
      /\ versionRequested \in BOOLEAN
  BY WhereItReads DEF HasValue
<1>1. /\ Roles(args)[index] = "option" /\ Roles(args)[index + 1] = "value"
      /\ Ready(args, index + 2, pc = "options")
  BY <1>0, TwoPassed DEF Arg
<1>2. args[index] \notin DOMAIN Switches
  BY KnownIsDashed, TablesApart DEF Takes, Valued, Arg
<1>3. Told(args, index + 2, config')
  BY <1>0, <1>1, <1>2, ToldTwo
<1>4. index + 2 \in 1..Len(args) + 1
  BY <1>0, Further
<1>5. versionRequested' \in BOOLEAN
  BY <1>0
<1>6. config'.destination # "" => config'.type = "CALL" /\ parserPc = "options"
  BY <1>0
<1>7. parserPc \in {"arguments", "options"} /\ Ready(args, index + 2, parserPc = "options")
  BY <1>0, <1>1
<1> QED
  BY <1>3, <1>4, <1>5, <1>6, <1>7, AdvanceKeeps

(* One word that is no value and ends nothing.                             *)
LEMMA WordStep ==
    ASSUME CliInv, NEW pc \in {"arguments", "options"}, At(pc), Advance(1),
           versionRequested' \in BOOLEAN, ConfigTypes(config'),
           config'.destination # "" => config'.type = "CALL" /\ pc = "options",
           Roles(args)[index] # "command",
           pc = "options" /\ ~IsBare(Arg) => Arg \notin Helps \cup {"--version"},
           HasValue => Arg \notin Takes(pc = "options"),
           Holds(config', args, Before(args, index, "value"),
                 IF Roles(args)[index] = "option" THEN Before(args, index, "option") \cup {index}
                                                  ELSE Before(args, index, "option"),
                 IF Roles(args)[index] = "bare" THEN Before(args, index, "bare") \cup {index}
                                                ELSE Before(args, index, "bare"))
    PROVE  CliInv'
<1>0. /\ args \in Seq(STRING) /\ index \in 1..Len(args) /\ index \in Nat \ {0}
      /\ Len(args) \in Nat /\ parserPc = pc
      /\ Ready(args, index, pc = "options") /\ Roles(args)[index] # "value"
      /\ Roles(args)[index] =
            IF IsBare(Arg) THEN IF pc = "options" THEN "bare" ELSE "command"
                           ELSE IF Arg \in Knows(pc = "options") THEN "option" ELSE "ignored"
      /\ Told(args, index, config)
  BY WhereItReads
<1>1. index \notin Ends(args, Roles(args))
  <2>1. pc = "arguments" => Knows(pc = "options") \cap (Helps \cup {"--version"}) = {}
    BY KnownIsDashed, TablesApart DEF Knows
  <2>2. ~(Roles(args)[index] = "option" /\ args[index] \in Helps \cup {"--version"})
    BY <1>0, <2>1 DEF Arg
  <2> QED
    BY <2>2 DEF Ends
<1>2. Ready(args, index + 1, pc = "options")
  BY <1>0, <1>1, OnePassed DEF HasValue, Arg
<1>3. Told(args, index + 1, config')
  BY <1>0, ToldOne
<1>4. index + 1 \in 1..Len(args) + 1
  BY <1>0, Further
<1>5. /\ parserPc \in {"arguments", "options"} /\ Ready(args, index + 1, parserPc = "options")
      /\ config'.destination # "" => config'.type = "CALL" /\ parserPc = "options"
  BY <1>0, <1>2
<1> QED
  BY <1>3, <1>4, <1>5, AdvanceKeeps
-----------------------------------------------------------------------------
(* A value for a field other than the command and the destination keeps    *)
(* both.                                                                   *)
LEMMA OtherField ==
    ASSUME ConfigTypes(config), NEW v,
           NEW f \in DOMAIN TextOptions \cup DOMAIN SizeOptions \cup DOMAIN IntOptions
                     \cup DOMAIN SwitchOptions
    PROVE  With(f, v).destination = config.destination /\ With(f, v).type = config.type
<1>1. f \in DOMAIN DefaultConfig /\ f # "type" /\ f # "destination"
  BY ConfigFields, FieldsApart
<1>2. "type" \in DOMAIN DefaultConfig /\ "destination" \in DOMAIN DefaultConfig
  BY ConfigFields
<1> QED
  BY <1>1, <1>2, WithField DEF ConfigTypes

(* The text of an option, in either pass.                                  *)
LEMMA TextRead ==
    ASSUME CliInv, NEW pc \in {"arguments", "options"}, At(pc), HasValue,
           Arg \in DOMAIN Texts, Arg \in Takes(pc = "options"),
           config' = With(Texts[Arg], args[index + 1]),
           Advance(2), UNCHANGED versionRequested
    PROVE  CliInv'
<1>1. /\ index \in Nat \ {0} /\ Told(args, index, config) /\ ConfigTypes(config)
  BY WhereItReads
<1>2. index + 1 \in Nat /\ (index + 1) - 1 = index
  BY <1>1
<1>3. Texts[Arg] \in DOMAIN TextOptions
  BY TableFields
<1>4. ConfigTypes(config')
  BY <1>1, <1>3, AssignmentTypes
<1>5. config'.destination = config.destination /\ config'.type = config.type
  BY <1>1, <1>3, OtherField
<1>6. IsNumber(args, index + 1)
  BY <1>2, TablesApart DEF IsNumber, Arg
<1>7. Holds([config EXCEPT ![Texts[args[(index + 1) - 1]]] = args[index + 1]],
            args, Before(args, index, "value") \cup {index + 1},
            Before(args, index, "option"), Before(args, index, "bare"))
  <2>1. DOMAIN config = DOMAIN DefaultConfig
    BY <1>1 DEF ConfigTypes
  <2>2. Holds(config, args, Before(args, index, "value"), Before(args, index, "option"),
              Before(args, index, "bare"))
    BY <1>1 DEF Told
  <2>3. Below(Before(args, index, "value"), index + 1)
    BY <1>1, BeforeBelow
  <2>4. args[(index + 1) - 1] \in DOMAIN Texts
    BY <1>2 DEF Arg
  <2> QED
    BY <1>2, <2>1, <2>2, <2>3, <2>4, HoldsText
<1>8. Holds(config', args, Before(args, index, "value") \cup {index + 1},
            Before(args, index, "option"), Before(args, index, "bare"))
  BY <1>2, <1>7 DEF With, Arg
<1> QED
  BY <1>4, <1>5, <1>6, <1>8, ValueStep

LEMMA GlobalValueStep ==
    ASSUME CliInv, GlobalValue
    PROVE  CliInv'
<1>1. Arg \in DOMAIN Texts /\ GlobalTexts[Arg] = Texts[Arg] /\ Arg \in Takes("arguments" = "options")
  BY GlobalTables DEF GlobalValue, Takes
<1> QED
  BY <1>1, TextRead DEF GlobalValue

LEMMA OptionTextStep ==
    ASSUME CliInv, OptionText
    PROVE  CliInv'
<1>1. Arg \in Takes("options" = "options")
  BY DEF OptionText, Takes, Valued
<1> QED
  BY <1>1, TextRead DEF OptionText

(* The number of an option.                                                *)
LEMMA OptionNumberStep ==
    ASSUME CliInv, OptionNumber
    PROVE  CliInv'
<1>0. /\ At("options") /\ HasValue /\ Arg \in DOMAIN Sizes \cup DOMAIN Ints
      /\ args[index + 1] \in NumberWords(Arg)
      /\ Arg \in DOMAIN Sizes => config' = With(Sizes[Arg], Stoul(args[index + 1]))
      /\ Arg \notin DOMAIN Sizes => config' = With(Ints[Arg], Stoi(args[index + 1]))
      /\ Advance(2) /\ UNCHANGED versionRequested
  BY DEF OptionNumber
<1>1. /\ index \in Nat \ {0} /\ Told(args, index, config) /\ ConfigTypes(config)
  BY <1>0, WhereItReads
<1>2. index + 1 \in Nat /\ (index + 1) - 1 = index
  BY <1>1
<1>3. Arg \in Takes("options" = "options")
  BY <1>0 DEF Takes, Valued
<1>4. IsNumber(args, index + 1)
  BY <1>0, <1>2 DEF IsNumber, Arg
<1>5. Below(Before(args, index, "value"), index + 1)
  BY <1>1, BeforeBelow
<1>6. /\ DOMAIN config = DOMAIN DefaultConfig
      /\ Holds(config, args, Before(args, index, "value"), Before(args, index, "option"),
               Before(args, index, "bare"))
  BY <1>1 DEF Told, ConfigTypes
<1>7. CASE Arg \in DOMAIN Sizes
  <2>1. Stoul(args[index + 1]) \in 0..SizeMax
    <3>1. Numerals[args[index + 1]] \in Int
      BY <1>0, <1>7, CliParserAssumption DEF NumberWords, SizeWords
    <3>2. \A x \in Int : x % (SizeMax + 1) \in 0..SizeMax
      BY CliParserAssumption
    <3> QED
      BY <3>1, <3>2 DEF Stoul
  <2>2. Sizes[Arg] \in DOMAIN SizeOptions
    BY <1>7, TableFields
  <2>3. ConfigTypes(config')
    BY <1>0, <1>1, <1>7, <2>1, <2>2, AssignmentTypes
  <2>4. config'.destination = config.destination /\ config'.type = config.type
    BY <1>0, <1>1, <1>7, <2>2, OtherField
  <2>5. args[(index + 1) - 1] \in DOMAIN Sizes
    BY <1>2, <1>7 DEF Arg
  <2>6. Holds([config EXCEPT ![Sizes[args[(index + 1) - 1]]] = Stoul(args[index + 1])],
              args, Before(args, index, "value") \cup {index + 1},
              Before(args, index, "option"), Before(args, index, "bare"))
    BY <1>2, <1>5, <1>6, <2>5, HoldsSize
  <2>7. Holds(config', args, Before(args, index, "value") \cup {index + 1},
              Before(args, index, "option"), Before(args, index, "bare"))
    BY <1>0, <1>2, <1>7, <2>6 DEF With, Arg
  <2> QED
    BY <1>0, <1>3, <1>4, <2>3, <2>4, <2>7, ValueStep
<1>8. CASE Arg \notin DOMAIN Sizes
  <2>0. Arg \in DOMAIN Ints
    BY <1>0, <1>8
  <2>1. Stoi(args[index + 1]) \in IntRange
    BY <1>0, <1>8 DEF Stoi, NumberWords, IntWords
  <2>2. Ints[Arg] \in DOMAIN IntOptions
    BY <2>0, TableFields
  <2>3. ConfigTypes(config')
    BY <1>0, <1>1, <1>8, <2>1, <2>2, AssignmentTypes
  <2>4. config'.destination = config.destination /\ config'.type = config.type
    BY <1>0, <1>1, <1>8, <2>2, OtherField
  <2>5. args[(index + 1) - 1] \in DOMAIN Ints
    BY <1>2, <2>0 DEF Arg
  <2>6. Holds([config EXCEPT ![Ints[args[(index + 1) - 1]]] = Stoi(args[index + 1])],
              args, Before(args, index, "value") \cup {index + 1},
              Before(args, index, "option"), Before(args, index, "bare"))
    BY <1>2, <1>5, <1>6, <2>5, HoldsInt
  <2>7. Holds(config', args, Before(args, index, "value") \cup {index + 1},
              Before(args, index, "option"), Before(args, index, "bare"))
    BY <1>0, <1>2, <1>8, <2>6 DEF With, Arg
  <2> QED
    BY <1>0, <1>3, <1>4, <2>3, <2>4, <2>7, ValueStep
<1> QED
  BY <1>7, <1>8

(* A value that is skipped.                                                *)
LEMMA OptionUnstoredStep ==
    ASSUME CliInv, OptionUnstored
    PROVE  CliInv'
<1>0. /\ At("options") /\ HasValue /\ Arg \in Unstored
      /\ Advance(2) /\ config' = config /\ UNCHANGED versionRequested
  BY DEF OptionUnstored
<1>1. /\ index \in Nat \ {0} /\ Told(args, index, config) /\ ConfigTypes(config)
  BY <1>0, WhereItReads
<1>2. index + 1 \in Nat /\ (index + 1) - 1 = index
  BY <1>1
<1>3. Arg \in Takes("options" = "options")
  BY <1>0 DEF Takes, Valued
<1>4. IsNumber(args, index + 1)
  BY <1>0, <1>2, TablesApart DEF IsNumber, Arg
<1>5. args[(index + 1) - 1] \in Unstored
  BY <1>0, <1>2 DEF Arg
<1>6. Holds(config, args, Before(args, index, "value") \cup {index + 1},
            Before(args, index, "option"), Before(args, index, "bare"))
  BY <1>1, <1>2, <1>5, HoldsUnstored DEF Told
<1>7. ConfigTypes(config')
  BY <1>0, <1>1
<1> QED
  BY <1>0, <1>3, <1>4, <1>6, <1>7, ValueStep
(* An option that takes no value, in either pass.                          *)
LEMMA SwitchRead ==
    ASSUME CliInv, NEW pc \in {"arguments", "options"}, At(pc),
           Arg \in DOMAIN Switches, Arg \in Knows(pc = "options"),
           config' = With(Switches[Arg], TRUE), Advance(1), UNCHANGED versionRequested
    PROVE  CliInv'
<1>0. ~IsBare(Arg) /\ Arg \notin Takes(pc = "options") /\ Arg \notin Helps \cup {"--version"}
  BY KnownIsDashed, TablesApart DEF IsBare, Takes, Valued
<1>1. /\ Roles(args)[index] = "option" /\ Told(args, index, config) /\ ConfigTypes(config)
      /\ config.destination # "" => config.type = "CALL" /\ pc = "options"
      /\ versionRequested \in BOOLEAN
  BY <1>0, WhereItReads
<1>2. Switches[Arg] \in DOMAIN SwitchOptions
  BY TableFields
<1>3. ConfigTypes(config')
  BY <1>1, <1>2, AssignmentTypes
<1>4. config'.destination = config.destination /\ config'.type = config.type
  BY <1>1, <1>2, OtherField
<1>5. Holds([config EXCEPT ![Switches[args[index]]] = TRUE], args, Before(args, index, "value"),
            Before(args, index, "option") \cup {index}, Before(args, index, "bare"))
  <2>1. /\ DOMAIN config = DOMAIN DefaultConfig
        /\ Holds(config, args, Before(args, index, "value"), Before(args, index, "option"),
                 Before(args, index, "bare"))
    BY <1>1 DEF Told, ConfigTypes
  <2> QED
    BY <2>1, HoldsSwitch DEF Arg
<1>6. Holds(config', args, Before(args, index, "value"),
            Before(args, index, "option") \cup {index}, Before(args, index, "bare"))
  BY <1>5 DEF With, Arg
<1>7. Holds(config', args, Before(args, index, "value"),
            IF Roles(args)[index] = "option" THEN Before(args, index, "option") \cup {index}
                                             ELSE Before(args, index, "option"),
            IF Roles(args)[index] = "bare" THEN Before(args, index, "bare") \cup {index}
                                           ELSE Before(args, index, "bare"))
  BY <1>1, <1>6
<1>8. /\ config'.destination # "" => config'.type = "CALL" /\ pc = "options"
      /\ versionRequested' \in BOOLEAN /\ Roles(args)[index] # "command"
  BY <1>1, <1>4
<1> QED
  BY <1>0, <1>3, <1>7, <1>8, WordStep

LEMMA GlobalFlagStep ==
    ASSUME CliInv, GlobalFlag
    PROVE  CliInv'
<1>1. /\ Arg \in DOMAIN Switches /\ GlobalFlags[Arg] = Switches[Arg]
      /\ Arg \in Knows("arguments" = "options")
  BY GlobalTables DEF GlobalFlag, Knows
<1> QED
  BY <1>1, SwitchRead DEF GlobalFlag

LEMMA OptionSwitchStep ==
    ASSUME CliInv, OptionSwitch
    PROVE  CliInv'
<1>1. Arg \in Knows("options" = "options")
  BY KnownIsDashed DEF OptionSwitch, Knows
<1> QED
  BY <1>1, SwitchRead DEF OptionSwitch

(* A dashed word that changes nothing, in either pass.                     *)
LEMMA NothingRead ==
    ASSUME CliInv, NEW pc \in {"arguments", "options"}, At(pc),
           ~IsBare(Arg), Arg \in DOMAIN Switches => Arg \notin Knows(pc = "options"),
           HasValue => Arg \notin Takes(pc = "options"),
           pc = "options" => Arg \notin Helps \cup {"--version"},
           config' = config, Advance(1), versionRequested' \in BOOLEAN
    PROVE  CliInv'
<1>1. /\ Roles(args)[index] \in {"option", "ignored"}
      /\ Roles(args)[index] = "option" => Arg \notin DOMAIN Switches
      /\ Told(args, index, config) /\ ConfigTypes(config)
      /\ config.destination # "" => config.type = "CALL" /\ pc = "options"
  BY WhereItReads
<1>2. Holds(config, args, Before(args, index, "value"), Before(args, index, "option"),
            Before(args, index, "bare"))
  BY <1>1 DEF Told
<1>3. Roles(args)[index] = "option" =>
         Holds(config, args, Before(args, index, "value"),
               Before(args, index, "option") \cup {index}, Before(args, index, "bare"))
  BY <1>1, <1>2, HoldsOption DEF Arg
<1>4. Holds(config', args, Before(args, index, "value"),
            IF Roles(args)[index] = "option" THEN Before(args, index, "option") \cup {index}
                                             ELSE Before(args, index, "option"),
            IF Roles(args)[index] = "bare" THEN Before(args, index, "bare") \cup {index}
                                           ELSE Before(args, index, "bare"))
  BY <1>1, <1>2, <1>3
<1>5. /\ config'.destination # "" => config'.type = "CALL" /\ pc = "options"
      /\ ConfigTypes(config') /\ Roles(args)[index] # "command"
  BY <1>1
<1> QED
  BY <1>4, <1>5, WordStep

LEMMA GlobalOtherStep ==
    ASSUME CliInv, GlobalOther
    PROVE  CliInv'
<1>1. At("arguments") /\ ~IsBare(Arg) /\ config' = config /\ Advance(1)
  BY DEF GlobalOther
<1>2. versionRequested' \in BOOLEAN
  BY DEF GlobalOther, CliInv, CliTypeOK
<1>3. HasValue => Arg \notin Takes("arguments" = "options")
  BY DEF GlobalOther, Takes
<1>4. Arg \in DOMAIN Switches => Arg \notin Knows("arguments" = "options")
  BY GlobalTables, TablesApart DEF GlobalOther, Knows
<1> QED
  BY <1>1, <1>2, <1>3, <1>4, NothingRead

LEMMA OptionOtherStep ==
    ASSUME CliInv, OptionOther
    PROVE  CliInv'
<1>1. At("options") /\ config' = config /\ Advance(1) /\ versionRequested' = versionRequested
  BY DEF OptionOther
<1>2. versionRequested' \in BOOLEAN
  BY <1>1 DEF CliInv, CliTypeOK
<1>3. Arg \in OtherDashed \/ (Arg \in Valued /\ ~HasValue)
  BY DEF OptionOther
<1>4. /\ ~IsBare(Arg) /\ Arg \notin DOMAIN Switches /\ Arg \notin Helps \cup {"--version"}
      /\ Arg \in OtherDashed => Arg \notin Valued
  BY <1>3, KnownIsDashed, TablesApart, OtherWordsAssumption DEF IsBare, Options, Valued
<1>5. HasValue => Arg \notin Takes("options" = "options")
  BY <1>3, <1>4 DEF Takes
<1> QED
  BY <1>1, <1>2, <1>4, <1>5, NothingRead

(* A word behind the command.                                              *)
LEMMA BareWordStep ==
    ASSUME CliInv, BareWord
    PROVE  CliInv'
<1>0. At("options") /\ IsBare(Arg) /\ Advance(1) /\ versionRequested' = versionRequested
  BY DEF BareWord
<1>1. /\ index \in Nat \ {0} /\ Roles(args)[index] = "bare"
      /\ Told(args, index, config) /\ ConfigTypes(config)
      /\ config.destination # "" => config.type = "CALL"
      /\ versionRequested \in BOOLEAN
  BY <1>0, WhereItReads
<1>2. /\ DOMAIN config = DOMAIN DefaultConfig
      /\ Holds(config, args, Before(args, index, "value"), Before(args, index, "option"),
               Before(args, index, "bare"))
      /\ Below(Before(args, index, "bare"), index)
  BY <1>1, BeforeBelow DEF Told, ConfigTypes
<1>3. /\ Holds([config EXCEPT !.destination = args[index]], args, Before(args, index, "value"),
               Before(args, index, "option"), Before(args, index, "bare") \cup {index})
      /\ config.destination = "" =>
            Holds(config, args, Before(args, index, "value"),
                  Before(args, index, "option"), Before(args, index, "bare") \cup {index})
  BY <1>1, <1>2, HoldsBare
<1>4. /\ ConfigTypes(config')
      /\ config'.destination # "" => config'.type = "CALL"
      /\ Holds(config', args, Before(args, index, "value"),
               Before(args, index, "option"), Before(args, index, "bare") \cup {index})
  <2>1. CASE config.type = "CALL"
    <3>1. config' = With("destination", Arg)
      BY <2>1 DEF BareWord
    <3>2. ConfigTypes(config')
      BY <1>1, <3>1, AssignmentTypes
    <3>3. config'.type = config.type
      BY <1>2, <3>1, ConfigFields, WithField
    <3> QED
      BY <1>3, <2>1, <3>1, <3>2, <3>3 DEF With, Arg
  <2>2. CASE config.type # "CALL"
    <3>1. config' = config /\ config.destination = ""
      BY <1>1, <2>2 DEF BareWord
    <3> QED
      BY <1>1, <1>3, <3>1
  <2> QED
    BY <2>1, <2>2
<1>5. Holds(config', args, Before(args, index, "value"),
            IF Roles(args)[index] = "option" THEN Before(args, index, "option") \cup {index}
                                             ELSE Before(args, index, "option"),
            IF Roles(args)[index] = "bare" THEN Before(args, index, "bare") \cup {index}
                                           ELSE Before(args, index, "bare"))
  BY <1>1, <1>4
<1>6. HasValue => Arg \notin Takes("options" = "options")
  BY <1>0, KnownIsDashed DEF Takes, IsBare
<1>7. /\ config'.destination # "" => config'.type = "CALL" /\ "options" = "options"
      /\ versionRequested' \in BOOLEAN /\ Roles(args)[index] # "command"
  BY <1>0, <1>1, <1>4
<1> QED
  BY <1>0, <1>4, <1>5, <1>6, <1>7, WordStep
-----------------------------------------------------------------------------
(* Where the reading ends, the places of a role that count are behind.     *)
LEMMA PlacesAreBehind ==
    ASSUME NEW words \in Seq(STRING), NEW i \in 1..Len(words) + 1, NEW after \in BOOLEAN,
           Ready(words, i, after),
           i \in Ends(words, Roles(words)) \/ i = Len(words) + 1,
           NEW role
    PROVE  Places(words, Roles(words), role) = Before(words, i, role)
<1>0. Len(words) \in Nat
  OBVIOUS
<1>1. \A end \in Ends(words, Roles(words)) : end \in Nat /\ end >= i
  BY DEF Ready, Ends
<1>2. CASE i \in Ends(words, Roles(words))
  BY <1>0, <1>1, <1>2 DEF Places, Before
<1>3. CASE i = Len(words) + 1
  BY <1>0, <1>1, <1>3 DEF Places, Before
<1> QED
  BY <1>2, <1>3

(* The first word, if the program knows it or not.                         *)
LEMMA CommandWordStep ==
    ASSUME CliInv, CommandWord
    PROVE  CliInv'
<1>0. /\ At("arguments") /\ IsBare(Arg)
      /\ args' = args /\ index' = index + 1 /\ versionRequested' = versionRequested
      /\ valid' = valid /\ outcome' = outcome
      /\ Arg \in DOMAIN CommandTypes =>
            config' = With("type", CommandTypes[Arg]) /\ parserPc' = "options" /\ error' = error
      /\ Arg \notin DOMAIN CommandTypes =>
            config' = config /\ parserPc' = "parsed" /\ error' = TRUE
  BY DEF CommandWord
<1>1. /\ args \in Seq(STRING) /\ index \in 1..Len(args) /\ index \in Nat \ {0}
      /\ Len(args) \in Nat /\ parserPc = "arguments"
      /\ Ready(args, index, FALSE) /\ Roles(args)[index] = "command"
      /\ Told(args, index, config) /\ config.destination = ""
      /\ ConfigTypes(config) /\ versionRequested \in BOOLEAN
      /\ valid = FALSE /\ outcome = "none" /\ error \in BOOLEAN
  BY <1>0, WhereItReads DEF CliInv, CliTypeOK
<1>2. /\ index + 1 \in 1..Len(args) + 1 /\ (index + 1) - 1 = index
      /\ index \in 1..Len(args) + 1
      /\ \A n \in Nat : n >= index /\ n # index => n >= index + 1
  <2>1. index \in Nat \ {0} /\ index \in 1..Len(args) /\ Len(args) \in Nat
    BY <1>1
  <2> QED
    BY <2>1
<1>3. Told(args, index + 1, config')
  <2>1. Holds(config, args, Before(args, index, "value"), Before(args, index, "option"),
              Before(args, index, "bare"))
    BY <1>1 DEF Told
  <2>2. Holds(config', args, Before(args, index, "value"), Before(args, index, "option"),
              Before(args, index, "bare"))
    <3>1. Arg \in DOMAIN CommandTypes =>
             Holds([config EXCEPT !.type = CommandTypes[Arg]], args, Before(args, index, "value"),
                   Before(args, index, "option"), Before(args, index, "bare"))
      BY <1>1, <2>1, HoldsType DEF ConfigTypes
    <3> QED
      BY <1>0, <2>1, <3>1 DEF With
  <2>3. Holds(config', args, Before(args, index, "value"),
              IF Roles(args)[index] = "option" THEN Before(args, index, "option") \cup {index}
                                               ELSE Before(args, index, "option"),
              IF Roles(args)[index] = "bare" THEN Before(args, index, "bare") \cup {index}
                                             ELSE Before(args, index, "bare"))
    BY <1>1, <2>2
  <2> QED
    BY <1>1, <2>3, ToldOne
<1>4. ConfigTypes(config')
  <2>1. Arg \in DOMAIN CommandTypes => CommandTypes[Arg] \in Range(CommandTypes)
    BY DEF Range
  <2> QED
    BY <1>0, <1>1, <2>1, AssignmentTypes
<1>5. CliTypeOK'
  <2>1. /\ index' \in 1..Len(args') + 1 /\ parserPc' \in {"options", "parsed"}
        /\ args' \in Seq(STRING) /\ versionRequested' \in BOOLEAN
        /\ valid' \in BOOLEAN /\ error' \in BOOLEAN /\ outcome' = "none"
    BY <1>0, <1>1, <1>2
  <2> QED
    BY <1>4, <2>1 DEF CliTypeOK, ConfigTypes
<1>6. Reading'
  <2> SUFFICES ASSUME parserPc' \in {"arguments", "options"}
               PROVE  /\ Ready(args', index', parserPc' = "options")
                      /\ config'.destination # "" => config'.type = "CALL" /\ parserPc' = "options"
    BY DEF Reading
  <2>1. /\ Arg \in DOMAIN CommandTypes /\ parserPc' = "options"
        /\ config' = With("type", CommandTypes[Arg])
    BY <1>0
  <2>2. config'.destination = ""
    <3>1. "type" \in DOMAIN DefaultConfig /\ "destination" \in DOMAIN DefaultConfig
      BY ConfigFields
    <3>2. DOMAIN config = DOMAIN DefaultConfig
      BY <1>1 DEF ConfigTypes
    <3>3. \A v : With("type", v).destination = config.destination
      BY <3>1, <3>2 DEF With
    <3> QED
      BY <1>1, <2>1, <3>3
  <2>3. Behind(args, index + 1)
    BY <1>1, BehindNext
  <2>4. index + 1 <= Len(args) => Roles(args)[index + 1] # "value"
    <3>1. index + 1 <= Len(args) => index + 1 \in 1..Len(args)
      BY <1>2, Further
    <3> QED
      BY <1>1, <1>2, <3>1, RoleOfValue
  <2>5. index \notin Ends(args, Roles(args))
    BY <1>1, <2>1 DEF Ends, Arg
  <2>6. \A end \in Ends(args, Roles(args)) : end >= index + 1
    <3>1. \A end \in Ends(args, Roles(args)) : end \in Nat /\ end >= index /\ end # index
      <4>1. \A end \in Ends(args, Roles(args)) : end >= index
        BY <1>1 DEF Ready
      <4>2. \A end \in Ends(args, Roles(args)) : end \in Nat
        BY DEF Ends
      <4> QED
        BY <2>5, <4>1, <4>2
    <3> QED
      BY <1>2, <3>1
  <2>7. Ready(args, index + 1, TRUE)
    BY <2>3, <2>4, <2>6 DEF Ready
  <2> QED
    BY <1>0, <2>1, <2>2, <2>7
<1>7. Told(args, index, config)'
  BY <1>0, <1>3
<1>8. Finished'
  <2> SUFFICES ASSUME parserPc' \in {"validate", "parsed", "decided"},
                      NEW role \in {"value", "option", "bare"}
               PROVE  Places(args', Roles(args'), role) = Before(args', index', role)
    BY DEF Finished
  <2>1. Arg \notin DOMAIN CommandTypes
    BY <1>0
  <2>2. index \in Ends(args, Roles(args))
    BY <1>1, <2>1 DEF Ends, Arg
  <2>3. Places(args, Roles(args), role) = Before(args, index, role)
    BY <1>1, <1>2, <2>2, PlacesAreBehind
  <2>4. Before(args, index + 1, role) = Before(args, index, role)
    BY <1>1, BeforeNext
  <2> QED
    BY <1>0, <2>3, <2>4
<1>9. CrashEarned'
  BY <1>0, <1>1 DEF CrashEarned
<1>10. RunEarned'
  BY <1>0, <1>1 DEF RunEarned
<1> QED
  BY <1>5, <1>6, <1>7, <1>8, <1>9, <1>10 DEF CliInv

(* --help and --version behind the command.                                *)
LEMMA EarlyEndStep ==
    ASSUME CliInv, EarlyEnd
    PROVE  CliInv'
<1>0. /\ At("options") /\ Arg \in Helps \cup {"--version"}
      /\ config' = With("type", "INFO") \/ config' = config
      /\ valid' = FALSE /\ parserPc' = "validate"
      /\ args' = args /\ index' = index /\ versionRequested' = versionRequested
      /\ error' = error /\ outcome' = outcome
  BY DEF EarlyEnd
<1>1. /\ args \in Seq(STRING) /\ index \in 1..Len(args)
      /\ Ready(args, index, "options" = "options")
      /\ Told(args, index, config) /\ ConfigTypes(config) /\ versionRequested \in BOOLEAN
      /\ outcome = "none" /\ error \in BOOLEAN /\ index \in 1..Len(args) + 1
  BY <1>0, WhereItReads DEF CliInv, CliTypeOK
<1>2. index \in Ends(args, Roles(args))
  <2>1. ~IsBare(Arg) /\ Arg \in Knows("options" = "options")
    BY <1>0, KnownIsDashed DEF IsBare, Knows
  <2>2. Roles(args)[index] = "option"
    BY <1>0, <2>1, WhereItReads
  <2> QED
    BY <1>0, <1>1, <2>2 DEF Ends, Arg
<1>3. ConfigTypes(config')
  <2>1. "INFO" \in Range(CommandTypes)
    BY DEF CommandTypes, Range
  <2> QED
    BY <1>0, <1>1, <2>1, AssignmentTypes
<1>4. Told(args, index, config')
  <2>1. Told(args, index, [config EXCEPT !.type = "INFO"])
    BY <1>1, HoldsType DEF Told, ConfigTypes
  <2> QED
    BY <1>0, <1>1, <2>1 DEF With
<1>5. CliTypeOK'
  BY <1>0, <1>1, <1>3 DEF CliTypeOK, ConfigTypes
<1>6. Reading'
  BY <1>0 DEF Reading
<1>7. Told(args, index, config)'
  BY <1>0, <1>4
<1>8. Finished'
  <2>1. \A role : Places(args, Roles(args), role) = Before(args, index, role)
    BY <1>1, <1>2, PlacesAreBehind
  <2> QED
    BY <1>0, <2>1 DEF Finished
<1>9. CrashEarned'
  BY <1>0, <1>1 DEF CrashEarned
<1>10. RunEarned'
  BY <1>0, <1>1 DEF RunEarned
<1> QED
  BY <1>5, <1>6, <1>7, <1>8, <1>9, <1>10 DEF CliInv

(* A number that is none, or too large for its field.                      *)
LEMMA OptionThrowsStep ==
    ASSUME CliInv, OptionThrows
    PROVE  CliInv'
<1>0. /\ At("options") /\ HasValue /\ Arg \in DOMAIN Sizes \cup DOMAIN Ints
      /\ args[index + 1] \notin NumberWords(Arg)
      /\ outcome' = "crash" /\ parserPc' = "crashed"
      /\ args' = args /\ index' = index /\ config' = config
      /\ versionRequested' = versionRequested /\ valid' = valid /\ error' = error
  BY DEF OptionThrows
<1>1. /\ args \in Seq(STRING) /\ index \in 1..Len(args) /\ index \in Nat \ {0}
      /\ Len(args) \in Nat /\ index < Len(args)
      /\ Ready(args, index, "options" = "options")
      /\ Told(args, index, config) /\ valid = FALSE
  BY <1>0, WhereItReads DEF HasValue
<1>2. args[index] \in Takes("options" = "options")
  BY <1>0 DEF Takes, Valued, Arg
<1>3. Roles(args)[index + 1] = "value" /\ Ready(args, index + 2, "options" = "options")
  BY <1>1, <1>2, TwoPassed
<1>4. index + 1 \in Places(args, Roles(args), "value")
  <2>1. index + 1 \in 1..Len(args)
    BY <1>1
  <2>2. \A end \in Ends(args, Roles(args)) : end \in Nat /\ end >= index + 2
    BY <1>3 DEF Ready, Ends
  <2>3. \A end \in Ends(args, Roles(args)) : index + 1 < end
    BY <1>1, <2>2
  <2> QED
    BY <1>3, <2>1, <2>3 DEF Places
<1>5. ~IsNumber(args, index + 1)
  <2>1. (index + 1) - 1 = index
    BY <1>1
  <2> QED
    BY <1>0, <2>1 DEF IsNumber, Arg
<1>6. CliTypeOK'
  BY <1>0 DEF CliInv, CliTypeOK
<1>7. Reading'
  BY <1>0 DEF Reading
<1>8. Told(args, index, config)'
  BY <1>0, <1>1
<1>9. Finished'
  BY <1>0 DEF Finished
<1>10. CrashEarned'
  BY <1>0, <1>4, <1>5 DEF CrashEarned
<1>11. RunEarned'
  BY <1>0, <1>1 DEF RunEarned
<1> QED
  BY <1>6, <1>7, <1>8, <1>9, <1>10, <1>11 DEF CliInv

(* All words were read.                                                    *)
LEMMA EndOfArgumentsStep ==
    ASSUME CliInv, EndOfArguments
    PROVE  CliInv'
<1>0. /\ parserPc \in {"arguments", "options"} /\ index > Len(args)
      /\ parserPc' \in {"validate", "parsed"} /\ error' \in {TRUE, error}
      /\ args' = args /\ index' = index /\ config' = config
      /\ versionRequested' = versionRequested /\ valid' = valid /\ outcome' = outcome
  BY DEF EndOfArguments
<1>1. /\ args \in Seq(STRING) /\ index \in 1..Len(args) + 1
      /\ Ready(args, index, parserPc = "options") /\ Told(args, index, config)
      /\ valid = FALSE /\ outcome = "none" /\ error \in BOOLEAN
  BY <1>0 DEF CliInv, CliTypeOK, Reading, RunEarned
<1>2. index = Len(args) + 1
  <2>1. Len(args) \in Nat
    BY <1>1
  <2> QED
    BY <1>0, <1>1, <2>1
<1>3. CliTypeOK'
  BY <1>0, <1>1 DEF CliInv, CliTypeOK
<1>4. Reading'
  BY <1>0 DEF Reading
<1>5. Told(args, index, config)'
  BY <1>0, <1>1
<1>6. Finished'
  <2>1. \A role : Places(args, Roles(args), role) = Before(args, index, role)
    BY <1>1, <1>2, PlacesAreBehind
  <2> QED
    BY <1>0, <2>1 DEF Finished
<1>7. CrashEarned'
  BY <1>0, <1>1 DEF CrashEarned
<1>8. RunEarned'
  BY <1>0, <1>1 DEF RunEarned
<1> QED
  BY <1>3, <1>4, <1>5, <1>6, <1>7, <1>8 DEF CliInv

(* The validation, ...                                                     *)
LEMMA ValidateStep ==
    ASSUME CliInv, Validate
    PROVE  CliInv'
<1>0. /\ parserPc = "validate" /\ parserPc' = "parsed"
      /\ config' = With("type", "INFO") \/ config' = config
      /\ valid' = (Known /\ ValidateConfig)
      /\ ~versionRequested => config' = config
      /\ error' = (error \/ (Known /\ ~ValidateConfig))
      /\ args' = args /\ index' = index /\ versionRequested' = versionRequested
      /\ outcome' = outcome
  BY DEF Validate
<1>1. /\ Told(args, index, config) /\ ConfigTypes(config) /\ Finished
      /\ outcome = "none" /\ error \in BOOLEAN
  BY <1>0 DEF CliInv, CliTypeOK, ConfigTypes
<1>2. ConfigTypes(config')
  <2>1. "INFO" \in Range(CommandTypes)
    BY DEF CommandTypes, Range
  <2> QED
    BY <1>0, <1>1, <2>1, AssignmentTypes
<1>3. Told(args, index, config')
  <2>1. Told(args, index, [config EXCEPT !.type = "INFO"])
    BY <1>1, HoldsType DEF Told, ConfigTypes
  <2> QED
    BY <1>0, <1>1, <2>1 DEF With
<1>4. CliTypeOK'
  <2>1. valid' \in BOOLEAN /\ error' \in BOOLEAN
    BY <1>0, <1>1, Zenon
  <2> QED
    BY <1>0, <1>1, <1>2, <2>1 DEF CliInv, CliTypeOK, ConfigTypes
<1>5. Reading'
  BY <1>0 DEF Reading
<1>6. Told(args, index, config)'
  BY <1>0, <1>3
<1>7. Finished'
  BY <1>0, <1>1 DEF Finished
<1>8. CrashEarned'
  BY <1>0, <1>1 DEF CrashEarned
<1>9. RunEarned'
  <2>1. valid' => config' = config /\ config.type # "UNKNOWN" /\ ValidateConfig
    BY <1>0 DEF Known
  <2>2. config' = config => (ValidateConfig' <=> ValidateConfig)
    BY DEF ValidateConfig
  <2> QED
    BY <1>0, <1>1, <2>1, <2>2 DEF RunEarned
<1> QED
  BY <1>4, <1>5, <1>6, <1>7, <1>8, <1>9 DEF CliInv

(* ... and what main() decides.                                            *)
LEMMA DecideStep ==
    ASSUME CliInv, Decide
    PROVE  CliInv'
<1>0. /\ parserPc = "parsed" /\ parserPc' = "decided"
      /\ args' = args /\ index' = index /\ config' = config
      /\ versionRequested' = versionRequested /\ valid' = valid /\ error' = error
  BY DEF Decide
<1>1. /\ outcome' \in {"version", "run", "error", "help"}
      /\ outcome' = "run" => valid /\ \A k \in 1..Len(args) : args[k] # "--version"
  <2>1. CASE \E k \in 1..Len(args) : args[k] = "--version"
    BY <2>1 DEF Decide
  <2>2. CASE ~ \E k \in 1..Len(args) : args[k] = "--version"
    <3>1. outcome' = IF valid THEN "run" ELSE IF error THEN "error" ELSE "help"
      BY <2>2 DEF Decide
    <3> QED
      BY <2>2, <3>1
  <2> QED
    BY <2>1, <2>2
<1>2. CliTypeOK'
  BY <1>0, <1>1 DEF CliInv, CliTypeOK
<1>3. Reading' /\ CrashEarned'
  BY <1>0, <1>1 DEF Reading, CrashEarned
<1>4. Told(args, index, config)' /\ Finished'
  BY <1>0 DEF CliInv, Finished
<1>5. RunEarned'
  <2>1. valid => config.type # "UNKNOWN" /\ ValidateConfig
    BY DEF CliInv, RunEarned
  <2>2. ValidateConfig' <=> ValidateConfig
    BY <1>0 DEF ValidateConfig
  <2> QED
    BY <1>0, <1>1, <2>1, <2>2 DEF RunEarned
<1> QED
  BY <1>2, <1>3, <1>4, <1>5 DEF CliInv

-----------------------------------------------------------------------------
(* The invariant holds before the first word is read, ...                  *)
LEMMA CliInvInit == ParserInit => CliInv
<1> SUFFICES ASSUME ParserInit PROVE CliInv
  OBVIOUS
<1>0. /\ args \in Seq(STRING) /\ parserPc = "arguments" /\ index = 1
      /\ config = DefaultConfig /\ versionRequested = FALSE /\ valid = FALSE
      /\ error = FALSE /\ outcome = "none"
  BY CliParserAssumption DEF ParserInit
<1>1. Len(args) \in Nat
  BY <1>0
<1>2. index \in 1..Len(args) + 1
  BY <1>0, <1>1
<1>3. CliTypeOK
  BY <1>0, <1>2, DefaultTypes DEF CliTypeOK
<1>4. Reading
  <2>1. ~Behind(args, 1)
    BY DEF Behind
  <2>2. 1 <= Len(args) => Roles(args)[1] # "value"
    <3>1. 1 <= Len(args) => 1 \in 1..Len(args)
      BY <1>1
    <3>2. ASSUME 1 \in 1..Len(args) PROVE Roles(args)[1] # "value"
      BY <1>0, <3>2, RoleOfValue
    <3> QED
      BY <3>1, <3>2
  <2>3. \A end \in Ends(args, Roles(args)) : end >= 1
    BY DEF Ends
  <2>4. Ready(args, 1, FALSE)
    BY <2>1, <2>2, <2>3 DEF Ready
  <2> QED
    BY <1>0, <2>4, DefaultTypes DEF Reading
<1>5. Told(args, index, config)
  <2>1. \A role : Before(args, 1, role) = {}
    BY DEF Before
  <2> QED
    BY <1>0, <2>1, HoldsDefault DEF Told
<1>6. Finished /\ CrashEarned /\ RunEarned
  BY <1>0 DEF Finished, CrashEarned, RunEarned
<1> QED
  BY <1>3, <1>4, <1>5, <1>6 DEF CliInv

(* ... every step keeps it, ...                                            *)
LEMMA CliInvStep ==
    ASSUME CliInv, [ParserStep]_parserVars
    PROVE  CliInv'
<1>1. CASE GlobalValue
  BY <1>1, GlobalValueStep
<1>2. CASE GlobalFlag
  BY <1>2, GlobalFlagStep
<1>3. CASE GlobalOther
  BY <1>3, GlobalOtherStep
<1>4. CASE CommandWord
  BY <1>4, CommandWordStep
<1>5. CASE OptionText
  BY <1>5, OptionTextStep
<1>6. CASE OptionNumber
  BY <1>6, OptionNumberStep
<1>7. CASE OptionThrows
  BY <1>7, OptionThrowsStep
<1>8. CASE OptionUnstored
  BY <1>8, OptionUnstoredStep
<1>9. CASE OptionSwitch
  BY <1>9, OptionSwitchStep
<1>10. CASE OptionOther
  BY <1>10, OptionOtherStep
<1>11. CASE BareWord
  BY <1>11, BareWordStep
<1>12. CASE EarlyEnd
  BY <1>12, EarlyEndStep
<1>13. CASE EndOfArguments
  BY <1>13, EndOfArgumentsStep
<1>14. CASE Validate
  BY <1>14, ValidateStep
<1>15. CASE Decide
  BY <1>15, DecideStep
<1>16. CASE UNCHANGED parserVars
  <2>1. /\ args' = args /\ parserPc' = parserPc /\ index' = index /\ config' = config
        /\ versionRequested' = versionRequested /\ valid' = valid /\ error' = error
        /\ outcome' = outcome
    BY <1>16 DEF parserVars
  <2>2. CliTypeOK' /\ Reading' /\ Told(args, index, config)' /\ Finished' /\ CrashEarned'
    BY <2>1 DEF CliInv, CliTypeOK, Reading, Finished, CrashEarned
  <2>3. RunEarned'
    BY <2>1 DEF CliInv, RunEarned, ValidateConfig
  <2> QED
    BY <2>2, <2>3 DEF CliInv
<1> QED
  BY <1>1, <1>2, <1>3, <1>4, <1>5, <1>6, <1>7, <1>8, <1>9, <1>10, <1>11, <1>12, <1>13,
     <1>14, <1>15, <1>16 DEF ParserStep

(* ... and it says what the properties say.                                *)
LEMMA CliInvSays == CliInv => CliTypeOK /\ ConfigAsWritten /\ RunsOnlyValid
<1> SUFFICES ASSUME CliInv PROVE CliTypeOK /\ ConfigAsWritten /\ RunsOnlyValid
  OBVIOUS
<1>1. CliTypeOK
  BY DEF CliInv
<1>2. parserPc = "decided" =>
         /\ Places(args, Roles(args), "value") = Before(args, index, "value")
         /\ Places(args, Roles(args), "option") = Before(args, index, "option")
         /\ Places(args, Roles(args), "bare") = Before(args, index, "bare")
  BY DEF CliInv, Finished
<1>3. ConfigAsWritten
  <2>1. CASE parserPc = "decided"
    <3>1. \A k \in Places(args, Roles(args), "value") : IsNumber(args, k)
      BY <1>2, <2>1 DEF CliInv, Told
    <3>2. Holds(config, args, Places(args, Roles(args), "value"),
                Places(args, Roles(args), "option"), Places(args, Roles(args), "bare"))
      BY <1>2, <2>1 DEF CliInv, Told
    <3>3. outcome # "crash"
      BY <2>1 DEF CliInv, CrashEarned
    <3> QED
      BY <3>1, <3>2, <3>3 DEF ConfigAsWritten
  <2>2. CASE parserPc = "crashed"
    BY <2>2 DEF CliInv, CrashEarned, ConfigAsWritten
  <2> QED
    BY <2>1, <2>2 DEF ConfigAsWritten
<1>4. RunsOnlyValid
  <2> SUFFICES ASSUME outcome = "run" PROVE
                  /\ config.type # "UNKNOWN"
                  /\ \A k \in 1..Len(args) : args[k] # "--version"
                  /\ config.type = "CALL" => Places(args, Roles(args), "bare") # {}
                  /\ config.maxCalls > 0
    BY DEF RunsOnlyValid
  <2>1. /\ parserPc = "decided" /\ config.type # "UNKNOWN" /\ ValidateConfig
        /\ \A k \in 1..Len(args) : args[k] # "--version"
    BY DEF CliInv, RunEarned, CliTypeOK
  <2>2. config.maxCalls > 0
    <3>1. "maxCalls" \in DOMAIN SizeOptions
      BY DEF SizeOptions
    <3>2. config.maxCalls \in 0..SizeMax /\ config.maxCalls # 0
      BY <1>1, <2>1, <3>1 DEF CliTypeOK, ValidateConfig
    <3> QED
      BY <3>2, CliParserAssumption
  <2>3. config.destination # "" => Before(args, index, "bare") # {}
    BY DEF CliInv, Told, Holds
  <2> QED
    BY <1>2, <2>1, <2>2, <2>3 DEF ValidateConfig
<1> QED
  BY <1>1, <1>3, <1>4

(* So every command line is read that way, whatever its words are.         *)
LEMMA CliInvariance == ParserSpec => []CliInv
<1>1. CliInv /\ [ParserStep]_parserVars => CliInv'
  BY CliInvStep
<1> QED
  BY <1>1, CliInvInit, PTL DEF ParserSpec

(* No value is read beyond the end of argv, and every number of the        *)
(* CommandConfig has the width of its field, the words that are too large  *)
(* having ended the program (cli_parser.cpp:38-115).                       *)
THEOREM CliTypes == ParserSpec => []CliTypeOK
BY CliInvariance, CliInvSays, PTL

(* The CommandConfig holds what the command line says, for every command   *)
(* line: the last value given for each field, on for each switch given,    *)
(* and a crash at a number that is none or too large for the option it is  *)
(* given to, and there only (cli_parser.cpp:22-115).                       *)
THEOREM AsWritten == ParserSpec => []ConfigAsWritten
BY CliInvariance, CliInvSays, PTL

(* A command runs only with what it needs (cli_parser.cpp:164-194,         *)
(* main.cpp:126-142).                                                      *)
THEOREM OnlyValidRuns == ParserSpec => []RunsOnlyValid
BY CliInvariance, CliInvSays, PTL
=============================================================================
