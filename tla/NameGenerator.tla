---------------------------- MODULE NameGenerator ----------------------------
(***************************************************************************)
(* ResourceNamer of pkg/k8sutil/k8sutil.go (lines 398-476): sanitizedLabel,*)
(* DNS1123Label and UniqueDNS1123Label, as operators on strings, which     *)
(* are sequences of one-character strings.                                *)
(*                                                                         *)
(* The limits are scaled down so that TLC can enumerate every input up to *)
(* a length past them: MaxLength stands for DNS1123LabelMaxLength (63),   *)
(* SuffixLength for the 9 characters "-" and 8 hex digits of the hash     *)
(* suffix, HashDigits for the 16 hex digits of a 64-bit xxhash. The hash   *)
(* of a name is any value of HashValues (the model does not compute       *)
(* xxhash); it is formatted in hex exactly as fmt's %x does.              *)
(***************************************************************************)
EXTENDS Naturals, Sequences, FiniteSets

CONSTANTS
  Alphabet,      \* the characters inputs are made of
  Upper,         \* [upper-case letters of Alphabet -> their lower case]
  MaxInput,      \* the longest input name
  Prefixes,      \* namer prefixes (<<>>: NewResourceNamerWithPrefix(""))
  HashValues,    \* possible xxhash values of a name
  MaxLength,     \* validation.DNS1123LabelMaxLength
  SuffixLength   \* len("-") + hex digits kept of the hash

VARIABLES
  prefix,   \* rn.prefix
  name,     \* the input name
  hash,     \* xxh.Sum64() of the name
  dns,      \* result of DNS1123Label(name)
  unique    \* result of UniqueDNS1123Label(name)

vars == <<prefix, name, hash, dns, unique>>

HexDigit == <<"0", "1", "2", "3", "4", "5", "6", "7", "8", "9",
              "a", "b", "c", "d", "e", "f">>

\* [a-z0-9]: the characters a DNS-1123 label is made of, with "-".
Alnum == {"a", "b", "c", "d", "e", "f", "z", "0", "1", "2", "3", "4", "5",
          "6", "7", "8", "9"}

Result(kind, label) == [kind |-> kind, label |-> label]
Unset == Result("unset", <<>>)

\* validation.IsDNS1123Label: at most MaxLength characters of [-a-z0-9],
\* starting and ending with an alphanumeric character.
IsDNS1123Label(s) ==
  /\ 1 <= Len(s) /\ Len(s) <= MaxLength
  /\ \A i \in 1..Len(s) : s[i] \in Alnum \cup {"-"}
  /\ s[1] \in Alnum /\ s[Len(s)] \in Alnum

\* strings.ToLower.
ToLower(s) == [i \in 1..Len(s) |-> IF s[i] \in DOMAIN Upper THEN Upper[s[i]] ELSE s[i]]

\* invalidDNS1123Characters.ReplaceAllString(s, "-"): every maximal run of
\* characters outside [-a-z0-9] becomes one "-".
RECURSIVE ReplaceInvalid(_)
ReplaceInvalid(s) ==
  IF s = <<>> THEN <<>>
  ELSE IF Head(s) \in Alnum \cup {"-"}
    THEN <<Head(s)>> \o ReplaceInvalid(Tail(s))
  ELSE IF Len(s) > 1 /\ s[2] \notin Alnum \cup {"-"}
    THEN ReplaceInvalid(Tail(s))
  ELSE <<"-">> \o ReplaceInvalid(Tail(s))

\* strings.TrimLeft / TrimRight of "-".
RECURSIVE TrimLeft(_)
TrimLeft(s) == IF s # <<>> /\ Head(s) = "-" THEN TrimLeft(Tail(s)) ELSE s

RECURSIVE TrimRight(_)
TrimRight(s) ==
  IF s # <<>> /\ s[Len(s)] = "-" THEN TrimRight(SubSeq(s, 1, Len(s) - 1)) ELSE s

sanitizedLabel(p, n) ==
  LET withPrefix == IF p # <<>> THEN TrimRight(p) \o <<"-">> \o n ELSE n
  IN  TrimLeft(TrimRight(ReplaceInvalid(ToLower(withPrefix))))

\* name[:k] of a name longer than k.
Truncate(s, k) == IF Len(s) > k THEN SubSeq(s, 1, k) ELSE s

\* Mutant: the label is cut one character short.
DNS1123LabelShort(p, n) ==
  LET l == Truncate(sanitizedLabel(p, n), MaxLength - 1)
  IN  Result(IF IsDNS1123Label(l) THEN "ok" ELSE "error", l)

\* Sanitize, cut at MaxLength, validate.
DNS1123Label(p, n) ==
  LET l == Truncate(sanitizedLabel(p, n), MaxLength)
  IN  Result(IF IsDNS1123Label(l) THEN "ok" ELSE "error", l)

\* fmt.Sprintf("%x", h): hex digits without leading zeros.
RECURSIVE Hex(_)
Hex(h) == IF h < 16 THEN <<HexDigit[h + 1]>> ELSE Hex(h \div 16) \o <<HexDigit[(h % 16) + 1]>>

\* Mutant: the label is cut at MaxLength, not leaving room for the suffix.
UniqueDNS1123LabelNoRoom(p, n, h) ==
  LET suffix == <<"-">> \o Hex(h)
      l == Truncate(sanitizedLabel(p, n), MaxLength) \o SubSeq(suffix, 1, SuffixLength)
  IN  IF Len(suffix) < SuffixLength THEN Result("panic", <<>>)
      ELSE Result(IF IsDNS1123Label(l) THEN "ok" ELSE "error", l)

\* Mutant: the length check off by one.
UniqueDNS1123LabelOffByOne(p, n, h) ==
  LET suffix == <<"-">> \o Hex(h)
      l == Truncate(sanitizedLabel(p, n), MaxLength - SuffixLength)
             \o SubSeq(suffix, 1, SuffixLength)
  IN  IF Len(suffix) <= SuffixLength THEN Result("panic", <<>>)
      ELSE Result(IF IsDNS1123Label(l) THEN "ok" ELSE "error", l)

\* "-" and the hex hash, sliced to SuffixLength (h[:9], a run-time panic
\* when the string is shorter), appended to the sanitized label cut at
\* MaxLength - SuffixLength; then validated.
UniqueDNS1123Label(p, n, h) ==
  LET suffix == <<"-">> \o Hex(h)
      l == Truncate(sanitizedLabel(p, n), MaxLength - SuffixLength)
             \o SubSeq(suffix, 1, SuffixLength)
  IN  IF Len(suffix) < SuffixLength THEN Result("panic", <<>>)
      ELSE Result(IF IsDNS1123Label(l) THEN "ok" ELSE "error", l)

----------------------------------------------------------------------------

\* Every string of Alphabet of at most MaxInput characters.
Inputs == UNION {[1..k -> Alphabet] : k \in 0..MaxInput}

Init ==
  /\ prefix \in Prefixes
  /\ name \in Inputs
  /\ hash \in HashValues
  /\ dns = Unset
  /\ unique = Unset

CallDNS1123Label ==
  /\ dns = Unset
  /\ dns' = DNS1123Label(prefix, name)
  /\ UNCHANGED <<prefix, name, hash, unique>>

CallUniqueDNS1123Label ==
  /\ unique = Unset
  /\ unique' = UniqueDNS1123Label(prefix, name, hash)
  /\ UNCHANGED <<prefix, name, hash, dns>>

\* Both calls have returned.
Returned == dns # Unset /\ unique # Unset /\ UNCHANGED vars

Next == CallDNS1123Label \/ CallUniqueDNS1123Label \/ Returned

Spec == Init /\ [][Next]_vars

----------------------------------------------------------------------------
(* Properties.                                                             *)

\* Spec section 8: a name whose sanitized form fits the limit comes back
\* from DNS1123Label sanitized and otherwise unchanged.
ShortNamePreserved ==
  LET s == sanitizedLabel(prefix, name)
  IN  (dns # Unset /\ s # <<>> /\ Len(s) <= MaxLength) => dns = Result("ok", s)

\* UniqueDNS1123Label reserves the room for its suffix: unless it panics,
\* it returns a valid label for every name whose sanitized form is not
\* empty, however long the name.
UniqueLabelValid ==
  (unique # Unset /\ sanitizedLabel(prefix, name) # <<>>) => unique.kind \in {"ok", "panic"}

\* DNS1123Label fails only in the two ways the code can reach: sanitizing
\* leaves nothing, or the hard cut at the limit lands just after a "-"
\* (the trailing-dash trim runs before the cut, not after it).
DNS1123LabelFailsOnlyAtCut ==
  LET s == sanitizedLabel(prefix, name)
  IN  dns.kind = "error" =>
        \/ s = <<>>
        \/ Len(s) > MaxLength /\ s[MaxLength] = "-"

\* Spec section 2 (NameRequest): the output of the generator is guaranteed
\* to satisfy the label grammar whenever sanitizing leaves something.
DNS1123LabelValid ==
  (dns # Unset /\ sanitizedLabel(prefix, name) # <<>>) => dns.kind = "ok"

\* UniqueDNS1123Label panics exactly for the hashes whose %x form is
\* shorter than the SuffixLength - 1 digits it slices, i.e. those below
\* 16^(SuffixLength - 2) (below 16^7 in the code), whatever the name; a
\* hash of exactly that many digits fits.
PanicOnlyForShortHash ==
  unique # Unset => ((unique.kind = "panic") <=> hash < 16^(SuffixLength - 2))

\* Spec 4.2: UniqueDNS1123Label appends "-" and 8 hex digits of the hash;
\* it returns a label or an InvalidLabel error, never a run-time panic.
UniqueNeverPanics == unique.kind # "panic"

=============================================================================
