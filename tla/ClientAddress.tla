--------------------------- MODULE ClientAddress ----------------------------
(***************************************************************************)
(* The key under which the rate limiter counts a client                    *)
(* (common/client-ip.ts).                                                  *)
(*                                                                         *)
(* An address is a record: kind "none", "other" (an IPv4 address or no     *)
(* address at all, by its text) or "v6".  A text of IPv6 has groups to the *)
(* left and right of a "::" (double says whether there is one), possibly   *)
(* four numbers at the end (dotted), and possibly a zone.  A group is its  *)
(* value and whether it is written with zeros before it; capitals are gone *)
(* once the text is in lower case.  IsIPv6 is node's isIP, external: the   *)
(* texts that it takes for IPv6 are those of eight groups in all.          *)
(***************************************************************************)
EXTENDS Naturals, Sequences

Byte == 256

Group(value) == [value |-> value, padded |-> FALSE]

\* The groups for the numbers at the end, rendered without zeros before them.
Tail4(dotted) ==
    IF dotted = <<>> THEN <<>>
    ELSE <<Group(dotted[1] * Byte + dotted[2]), Group(dotted[3] * Byte + dotted[4])>>

\* The text after the last colon is replaced, to the right of the "::" if any.
RightGroups(a) == a.right \o Tail4(a.dotted)

IsIPv6(a) ==
    /\ a.kind = "v6"
    /\ LET given == Len(a.left) + Len(RightGroups(a))
       IN  IF a.double THEN given < 8 ELSE given = 8

\* Mutant of ExpandIpv6: the groups that "::" stands for are put at the end.
FilledAtEnd(a) ==
    LET right == RightGroups(a)
        missing == 8 - Len(a.left) - Len(right)
    IN  a.left \o right \o [i \in 1..missing |-> Group(0)]

\* "::" stands for as many zero groups as are missing.
ExpandIpv6(a) ==
    LET right == RightGroups(a)
        missing == 8 - Len(a.left) - Len(right)
    IN  a.left \o [i \in 1..missing |-> Group(0)] \o right

\* The five groups of zero are compared as texts, so they must be plain.
IsMapped(groups) ==
    /\ \A i \in 1..5 : groups[i] = Group(0)
    /\ groups[6] = Group(Byte * Byte - 1)

Bytes(groups) ==
    <<groups[7].value \div Byte, groups[7].value % Byte,
      groups[8].value \div Byte, groups[8].value % Byte>>

\* The key: unknown, a text, an IPv4 address, or the first four groups.
ClientIpKey(a) ==
    IF a.kind = "none" THEN <<"unknown">>
    ELSE IF ~IsIPv6(a) THEN <<"text", a.text>>
    ELSE LET groups == ExpandIpv6(a)
         IN  IF IsMapped(groups) THEN <<"text", Bytes(groups)>>
             ELSE <<"/64", [i \in 1..4 |-> groups[i].value]>>

-----------------------------------------------------------------------------
(* What an address means, for the properties.                              *)

\* The i-th of the eight numbers of an IPv6 address: those before "::" count from
\* the left, those after it from the right, and all others are zero.
NumberAt(a, i) ==
    LET tail  == IF a.dotted = <<>> THEN 0 ELSE 2
        place == Len(a.right) + tail - (8 - i)
    IN  IF i <= Len(a.left) THEN a.left[i].value
        ELSE IF i > 8 - tail
             THEN a.dotted[2 * (i - 6) - 1] * Byte + a.dotted[2 * (i - 6)]
        ELSE IF place > 0 THEN a.right[place].value
        ELSE 0

\* The IPv4 address within an IPv6 address.
MapsIPv4(a) == (\A i \in 1..5 : NumberAt(a, i) = 0) /\ NumberAt(a, 6) = Byte * Byte - 1

\* Who an address belongs to: an IPv4 address, mapped or not, to one client, and
\* the IPv6 addresses with the same first four numbers to one.
Network(a) ==
    CASE a.kind = "none"  -> <<"unknown">>
      [] a.kind = "other" -> <<"text", a.text>>
      [] a.kind = "v6" /\ MapsIPv4(a) ->
            <<"text", <<NumberAt(a, 7) \div Byte, NumberAt(a, 7) % Byte,
                        NumberAt(a, 8) \div Byte, NumberAt(a, 8) % Byte>>>>
      [] a.kind = "v6" /\ ~MapsIPv4(a) -> <<"/64", [i \in 1..4 |-> NumberAt(a, i)]>>

\* An address as node gives it: one that maps IPv4 has no group with zeros before it.
IsAddress(a) ==
    LET groups == [value : 0 .. Byte * Byte - 1, padded : BOOLEAN]
    IN  /\ a.kind \in {"none", "other", "v6"}
        /\ a.kind = "v6" =>
              /\ a.left \in Seq(groups) /\ a.right \in Seq(groups)
              /\ a.dotted = <<>> \/ a.dotted \in [1..4 -> 0 .. Byte - 1]
              /\ a.double \in BOOLEAN /\ IsIPv6(a)
              /\ MapsIPv4(a) => /\ \A i \in DOMAIN a.left : ~a.left[i].padded
                                /\ \A i \in DOMAIN a.right : ~a.right[i].padded
=============================================================================
