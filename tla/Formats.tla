------------------------------ MODULE Formats ------------------------------
(***************************************************************************)
(* The hand-written parts of the well-known string formats                 *)
(* (rules/standard/wellknown): host names, ports, host-and-port pairs,     *)
(* prefix lengths and host bits, zone ids in URIs.  A text is a sequence of*)
(* characters of a small alphabet; the limits of the code are constants.   *)
(* Addresses are parsed by the Rust library: here Ipv4Texts and Ipv6Texts  *)
(* are the texts it accepts, which have no `%' and no bracket, and an      *)
(* address is a number of Bits bits.  NotUtf8 are the texts whose          *)
(* percent-encoded octets another library cannot decode.  A third one      *)
(* parses URIs, by a grammar in which a bracket is an IP literal's:        *)
(* UriHosts[s] is the host of s, for the texts s that it accepts.          *)
(***************************************************************************)
EXTENDS Integers, FiniteSets, Sequences, SequencesExt

CONSTANTS
  Texts,        \* the texts considered
  Alphanumeric, Digits, HexDigits, Unreserved, \* sets of characters
  DigitValue,   \* DigitValue[c]: what a digit stands for
  Ipv4Texts, Ipv6Texts, NotUtf8, Nul,
  UriHosts, NoHost, \* and what a URI without an authority has for a host
  MaxName, MaxLabel, \* 253 and 63 in the code
  MaxPort,      \* 65535 in the code
  Bits          \* 32 or 128 in the code

ASSUME FormatsAssumption ==
  /\ Digits \subseteq Alphanumeric /\ Digits \subseteq HexDigits
  /\ DigitValue \in [Digits -> 0..9]
  /\ {MaxName, MaxLabel, MaxPort, Bits} \subseteq Nat \ {0}

VARIABLES text, address, answers
formatVars == <<text, address, answers>>

----------------------------------------------------------------------------
(* The code. *)

TextFrom(s, i) == SubSeq(s, i, Len(s))
TextUpto(s, i) == SubSeq(s, 1, i)
Spots(s, c) == {i \in DOMAIN s : s[i] = c}
FirstSpot(s, c) == CHOOSE i \in Spots(s, c) : \A j \in Spots(s, c) : i <= j
LastSpot(s, c) == CHOOSE i \in Spots(s, c) : \A j \in Spots(s, c) : j <= i
AllIn(s, chars) == ToSet(s) \subseteq chars

\* The labels between the dots: one more than there are dots.
Labels(s) ==
  LET cuts == SetToSortSeq(Spots(s, ".") \cup {0, Len(s) + 1}, <)
  IN [n \in 1..(Len(cuts) - 1) |-> SubSeq(s, cuts[n] + 1, cuts[n + 1] - 1)]

WithoutTrailingDot(s) == IF Last(s) = "." THEN Front(s) ELSE s
IsLabel(s) ==
  /\ s # <<>> /\ Len(s) <= MaxLabel
  /\ Head(s) # "-" /\ Last(s) # "-" /\ AllIn(s, Alphanumeric \cup {"-"})
IsHostname(s) ==
  /\ s # <<>>
  /\ LET name == WithoutTrailingDot(s)
         labels == Labels(name)
     IN /\ Len(name) <= MaxName
        /\ \A n \in DOMAIN labels : IsLabel(labels[n])
        /\ ~AllIn(Last(labels), Digits)

NumberOf(s) == FoldLeft(LAMBDA n, c : 10 * n + DigitValue[c], 0, s)
IsDecimal(s) ==
  s # <<>> /\ AllIn(s, Digits) /\ (Len(s) > 1 => Head(s) # "0")
IsPort(s) == IsDecimal(s) /\ NumberOf(s) <= MaxPort
PrefixLength(s) == IF IsDecimal(s) /\ NumberOf(s) <= Bits THEN NumberOf(s) ELSE -1

\* is_ipv6: an address, and after the first percent sign any zone but none.
IsIpv6(s) ==
  IF Spots(s, "%") = {} THEN s \in Ipv6Texts
  ELSE LET cut == FirstSpot(s, "%")
       IN /\ TextUpto(s, cut - 1) \in Ipv6Texts
          /\ cut < Len(s) /\ Nul \notin ToSet(TextFrom(s, cut + 1))

\* is_host_and_port: by the last colon and the last bracket.
IsBracketed(s, portRequired) ==
  /\ Spots(s, "]") # {}
  /\ LET end == LastSpot(s, "]")
     IN /\ IsIpv6(SubSeq(s, 2, end - 1))
        /\ \/ end = Len(s) /\ ~portRequired
           \/ /\ end < Len(s) /\ Spots(s, ":") # {} /\ LastSpot(s, ":") = end + 1
              /\ IsPort(TextFrom(s, end + 2))
IsHost(s) == IsHostname(s) \/ s \in Ipv4Texts
IsHostAndPort(s, portRequired) ==
  /\ s # <<>>
  /\ IF Head(s) = "[" THEN IsBracketed(s, portRequired)
     ELSE IF Spots(s, ":") = {} THEN ~portRequired /\ IsHost(s)
     ELSE /\ IsHost(TextUpto(s, LastSpot(s, ":") - 1)) /\ IsPort(TextFrom(s, LastSpot(s, ":") + 1))

\* The host bits of an address with a prefix: all ones shifted right by its
\* length, and none left when the length is that of the address.
\* Mutant: a shift by all bits shifts by none.
HostMaskShifted(length) == ((2 ^ Bits) - 1) \div (2 ^ (length % Bits))
HostMask(length) == IF length < Bits THEN ((2 ^ Bits) - 1) \div (2 ^ length) ELSE 0
BitOf(n, i) == (n \div (2 ^ i)) % 2
BitsAnd(m, n) == {i \in 0..(Bits - 1) : BitOf(m, i) = 1 /\ BitOf(n, i) = 1}
IsIpPrefix(n, s, strict) ==
  /\ PrefixLength(s) # -1
  /\ strict => BitsAnd(n, HostMask(PrefixLength(s))) = {}

\* is_zone_id: what is left, after one character or percent-encoded octet.
IsZoneId(s) ==
  LET ok[i \in 1..(Len(s) + 1)] ==
        \/ i > Len(s)
        \/ /\ i <= Len(s) /\ s[i] = "%" /\ i + 2 <= Len(s)
           /\ {s[i + 1], s[i + 2]} \subseteq HexDigits /\ ok[i + 3]
        \/ i <= Len(s) /\ s[i] # "%" /\ s[i] \in Unreserved /\ ok[i + 1]
  IN s # <<>> /\ ok[1] /\ s \notin NotUtf8

\* without_zone_id: the text without the zone id of its IPv6 literal, in the
\* first brackets from the first `%25'; no text if that is no zone id.
Escapes(s) ==
  {i \in Spots(s, "%") : i + 2 <= Len(s) /\ SubSeq(s, i, i + 2) = <<"%", "2", "5">>}
WithoutZoneId(s) ==
  LET open == FirstSpot(s, "[")
      ends == {i \in Spots(s, "]") : open < i}
      close == CHOOSE i \in ends : \A j \in ends : i <= j
      escapes == {i \in Escapes(s) : open < i /\ i + 2 < close}
      cut == CHOOSE i \in escapes : \A j \in escapes : i <= j
  IN IF Spots(s, "[") = {} THEN {s}
     ELSE IF ends = {} THEN {}
     ELSE IF escapes = {} THEN {s}
     ELSE IF IsZoneId(SubSeq(s, cut + 3, close - 1))
     THEN {TextUpto(s, cut - 1) \o TextFrom(s, close)} ELSE {}
IsHostUtf8(host) == host = NoHost \/ IsPrefix(<<"[">>, host) \/ host \notin NotUtf8
IsUri(s) ==
  \E t \in WithoutZoneId(s) : t \in DOMAIN UriHosts /\ IsHostUtf8(UriHosts[t])

----------------------------------------------------------------------------
FormatsInit ==
  /\ text \in Texts /\ address \in 0..((2 ^ Bits) - 1) /\ answers = {}
  /\ PrefixLength(text) # -1 \/ address = 0

Answers(s, n) ==
  {[format |-> "hostname", flag |-> FALSE, is |-> IsHostname(s)],
   [format |-> "zone_id", flag |-> FALSE, is |-> IsZoneId(s)],
   [format |-> "uri", flag |-> FALSE, is |-> IsUri(s)],
   [format |-> "ipv6", flag |-> FALSE, is |-> IsIpv6(s)]}
  \cup {[format |-> "host_and_port", flag |-> f, is |-> IsHostAndPort(s, f)] : f \in BOOLEAN}
  \cup {[format |-> "prefix", flag |-> f, is |-> IsIpPrefix(n, s, f)] : f \in BOOLEAN}

JudgeText ==
  /\ answers = {} /\ answers' = Answers(text, address)
  /\ UNCHANGED <<text, address>>
FormatsSpec == FormatsInit /\ [][JudgeText]_formatVars

----------------------------------------------------------------------------
(* The formats as their comments describe them. *)

\* "one or more labels, separated by a dot": character by character.
Hostname(s) ==
  LET n == IF s # <<>> /\ Last(s) = "." THEN Len(s) - 1 ELSE Len(s)
      dot(i) == i \in {0, n + 1} \/ s[i] = "."
      label(i, j) == i < j /\ dot(i) /\ dot(j) /\ \A k \in (i + 1)..(j - 1) : ~dot(k)
  IN /\ n \in 1..MaxName
     /\ \A k \in 1..n : s[k] \in Alphanumeric \cup {"-", "."}
     /\ \A k \in 1..n : s[k] = "-" => ~dot(k - 1) /\ ~dot(k + 1)
     /\ \A i, j \in 0..(n + 1) : label(i, j) => j - i - 1 \in 1..MaxLabel
     /\ \E k \in 1..n : s[k] \notin Digits /\ \A j \in k..n : ~dot(j)

\* Decimal digits without a leading zero.
Decimal(s, max) ==
  \E n \in 0..max :
    /\ \A k \in DOMAIN s : s[k] \in Digits
    /\ \A k \in DOMAIN s : DigitValue[s[k]] = (n \div (10 ^ (Len(s) - k))) % 10
    /\ Len(s) = Cardinality({k \in 0..Len(s) : k = 0 \/ 10 ^ k <= n})

Ipv6(s) ==
  \/ s \in Ipv6Texts
  \/ \E i \in DOMAIN s :
       /\ s[i] = "%" /\ SubSeq(s, 1, i - 1) \in Ipv6Texts
       /\ i # Len(s) /\ \A k \in (i + 1)..Len(s) : s[k] # Nul

HostAndPort(s, portRequired) ==
  \E n \in 1..Len(s) :
    LET host == SubSeq(s, 1, n)
        rest == SubSeq(s, n + 1, Len(s))
    IN /\ \/ Hostname(host) \/ host \in Ipv4Texts
          \/ n > 2 /\ host[1] = "[" /\ host[n] = "]" /\ Ipv6(SubSeq(host, 2, n - 1))
       /\ \/ rest = <<>> /\ ~portRequired
          \/ rest # <<>> /\ rest[1] = ":" /\ Decimal(SubSeq(rest, 2, Len(rest)), MaxPort)

Prefix(n, s, strict) ==
  \E length \in 0..Bits :
    /\ Decimal(s, Bits) /\ NumberOf(s) = length
    /\ strict => n % (2 ^ (Bits - length)) = 0

ZoneId(s) ==
  /\ s # <<>>
  /\ s \notin NotUtf8
  /\ \A k \in DOMAIN s :
       IF s[k] = "%" THEN k + 2 <= Len(s) /\ {s[k + 1], s[k + 2]} \subseteq HexDigits
       ELSE s[k] \in Unreserved

\* RFC 6874's literal is RFC 3986's with `%25' and a zone id at its end.
Uri(s) ==
  LET valid(t) ==
        /\ t \in DOMAIN UriHosts
        /\ UriHosts[t] = NoHost \/ UriHosts[t] \notin NotUtf8 \/ UriHosts[t][1] = "["
  IN \/ valid(s)
     \/ \E i, j, k \in DOMAIN s :
          /\ i < j /\ j + 2 < k /\ s[i] = "[" /\ s[k] = "]"
          /\ SubSeq(s, j, j + 2) = <<"%", "2", "5">> /\ ZoneId(SubSeq(s, j + 3, k - 1))
          /\ valid(SubSeq(s, 1, j - 1) \o SubSeq(s, k, Len(s)))

Described(format, flag) ==
  CASE format = "hostname" -> Hostname(text)
    [] format = "zone_id" -> ZoneId(text)
    [] format = "uri" -> Uri(text)
    [] format = "ipv6" -> Ipv6(text)
    [] format = "host_and_port" -> HostAndPort(text, flag)
    [] format = "prefix" -> Prefix(address, text, flag)

\* Every scanner accepts exactly the texts its comment describes: however many
\* dots, colons, brackets and percent signs there are and wherever they stand,
\* at the limits of lengths and numbers, and for a prefix as long as the
\* address, whose mask a shift cannot make.
FormatsAgree == \A a \in answers : a.is = Described(a.format, a.flag)
=============================================================================
