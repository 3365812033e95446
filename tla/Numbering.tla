------------------------------ MODULE Numbering -----------------------------
(***************************************************************************)
(* How a method gets the number it crosses under.  The attributes of a     *)
(* method say whether it is there at all; of what is left, the generated   *)
(* enums and the description that the JavaScript end is made from each     *)
(* make a list of their own.                                               *)
(***************************************************************************)
EXTENDS Descriptions

(* An attribute, and the flags of the cfg_attrs it is written in: with any *)
(* flag missing it is not there.                                           *)
Cfg(flag) == [attr |-> "cfg", flag |-> flag, inside |-> {}]
CfgAttr(flag, attr) == [attr EXCEPT !.inside = @ \cup {flag}]

(* rustc keeps an item if all its cfgs hold under the flags of the build.  *)
Survives(attrs, flags) ==
  \A a \in attrs : a.attr = "cfg" /\ a.inside \subseteq flags => a.flag \in flags

cfg_attrs(attrs) == {a \in ToSet(attrs) : a.attr = "cfg" \/ a.inside # {}}
cfg_predicates(attrs) == {a.flag : a \in {b \in ToSet(attrs) : b.attr = "cfg" /\ b.inside = {}}}

(* The items made for a method carry its cfg and cfg_attr attributes, and  *)
(* so vanish with it: what is left is numbered from 0.  The response enum  *)
(* and the arms of the server come from the same list.                     *)
enum_request(trait, flags) ==
  FlattenSeq([i \in DOMAIN trait.methods |->
    IF Survives(cfg_attrs(trait.methods[i].attrs), flags) THEN <<trait.methods[i]>> ELSE <<>>])

(* Mistake: one cfg that holds is enough.                                  *)
EnabledByAny(m, flags) ==
  cfg_predicates(m.attrs) = {} \/ cfg_predicates(m.attrs) \cap flags # {}

(* The const of a method is filled under #[cfg(all(..))] of its predicates *)
(* and empty under their negation.                                         *)
Enabled(m, flags) == cfg_predicates(m.attrs) \subseteq flags

(* const_description, of methods that are described so: a service of       *)
(* describe.rs.                                                            *)
ServiceDescription(trait, described, flags) ==
  [name |-> trait.ident,
   methods |-> [i \in DOMAIN trait.methods |->
                 IF Enabled(trait.methods[i], flags) THEN <<described[i]>> ELSE <<>>]]
=============================================================================
