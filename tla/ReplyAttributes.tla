-------------------------- MODULE ReplyAttributes ---------------------------
(***************************************************************************)
(* What an authorization policy renders to (reply_attributes.py): the same *)
(* attributes are written to radreply and radgroupreply for the next       *)
(* authentication and pushed to a NAS by a CoA-Request.                    *)
(*                                                                         *)
(* An attribute is a name and a value.  Names are compared without regard  *)
(* to case; texts that differ otherwise are different strings here.        *)
(***************************************************************************)
EXTENDS SequencesExt

CONSTANTS
    Names,      \* attribute names, in the spellings that are used
    Lower,      \* Lower[n]: the name n without regard to case
    Values,     \* attribute values
    EmptyValue, \* the value of a raw pair that was left empty
    Unset       \* "no VLAN", "no role"

\* The names that Simple mode sets.
PlainNames == {"Tunnel-Type", "Tunnel-Medium-Type", "Tunnel-Private-Group-Id", "Filter-Id"}

ASSUME AttributesAssumption ==
    /\ Lower \in [Names -> Names]
    /\ PlainNames \subseteq Names
    /\ \A m, n \in PlainNames : Lower[m] = Lower[n] => m = n
    /\ {"VLAN", "IEEE-802"} \subseteq Values
    /\ Unset \notin Values \cup {EmptyValue}

Attribute(name, value) == [name |-> name, value |-> value]

\* What Simple mode edits: the VLAN, in three attributes, and the role.
Simple(vlan, role) ==
    (IF vlan = Unset THEN <<>>
     ELSE << Attribute("Tunnel-Type", "VLAN"),
             Attribute("Tunnel-Medium-Type", "IEEE-802"),
             Attribute("Tunnel-Private-Group-Id", vlan) >>)
    \o (IF role = Unset THEN <<>> ELSE << Attribute("Filter-Id", role) >>)

\* Positions of a name, whatever its spelling.
Positions(attrs, name) == {i \in DOMAIN attrs : Lower[attrs[i].name] = Lower[name]}

\* Wrong on purpose (only the same spelling counts as a repetition).
With_SameSpelling(attrs, a) ==
    LET same == {i \in DOMAIN attrs : attrs[i].name = a.name}
    IN  IF same = {} THEN Append(attrs, a) ELSE [attrs EXCEPT ![Min(same)] = a]

\* A raw pair replaces in place the attribute it repeats, or is added at the end;
\* an empty one is left out.
With(attrs, a) ==
    LET same == Positions(attrs, a.name)
    IN  CASE a.value = EmptyValue -> attrs
          [] a.value # EmptyValue /\ same = {} -> Append(attrs, a)
          [] OTHER -> [attrs EXCEPT ![Min(same)] = a]

\* The loop over the raw pairs: what is rendered after the first k of them.
Rendering(p) ==
    LET upto[k \in 0..Len(p.extra)] ==
            IF k = 0 THEN Simple(p.vlan, p.role) ELSE With(upto[k - 1], p.extra[k])
    IN  upto

\* render_policy_attributes
RenderedPolicy(p) == Rendering(p)[Len(p.extra)]

\* A dict of the attributes, by name: the last of one name stays.
AsDict(attrs) ==
    [n \in {attrs[i].name : i \in DOMAIN attrs} |->
        attrs[Max({i \in DOMAIN attrs : attrs[i].name = n})].value]

\* The reference: under each name, whatever its spelling, there is one attribute,
\* and it is the last raw pair of that name that has a value, or else what Simple
\* mode stands for.
Wanted(p, name) ==
    LET raw == {i \in Positions(p.extra, name) : p.extra[i].value # EmptyValue}
        plain == Positions(Simple(p.vlan, p.role), name)
    IN  CASE raw # {} -> {p.extra[Max(raw)]}
          [] raw = {} /\ plain # {} -> {Simple(p.vlan, p.role)[Min(plain)]}
          [] OTHER -> {}

RendersWhatIsWanted(p) ==
    \A n \in Names :
        LET places == Positions(RenderedPolicy(p), n) IN
        /\ Cardinality(places) <= 1
        /\ {RenderedPolicy(p)[i] : i \in places} = Wanted(p, n)

=============================================================================
