------------------------------ MODULE Binding ------------------------------
(***************************************************************************)
(* From a catalogue to byte ranges: the binder that gives every slot of a  *)
(* graph a checkpoint parameter, the schema fingerprint, and the provider  *)
(* plan that names the file range behind every component of a binding.     *)
(*                                                                         *)
(* A parameter is [name, aliases, role, shape, elem, enc, comps]; a        *)
(* component is [name, key, file, shape, store, align, ranges], a range    *)
(* <<offset, length>>; an encoding a record whose kind is "plain", "block" *)
(* or "group". The digest of a value is that value.                        *)
(***************************************************************************)
EXTENDS Integers, Sequences, SequencesExt, FiniteSets, Functions, TLC

Failure == [ok |-> FALSE]

Product(dims) == FoldLeft(LAMBDA a, b : a * b, 1, dims)
SizeBytes(t) == CASE t \in {"f32", "i32", "u32"} -> 4
                  [] t \in {"f16", "bf16", "i16", "u16"} -> 2
                  [] t \in {"f64", "i64", "u64"} -> 8
                  [] t \in {"i8", "u8", "bool"} -> 1
                  [] OTHER -> 0
RangeBytes(comp) == FoldLeft(LAMBDA n, r : n + r[2], 0, comp.ranges)
StorageBytes(p) == FoldLeft(LAMBDA n, c : n + RangeBytes(c), 0, p.comps)

----------------------------------------------------------------------------
(* Binder::bind *)

\* by_name: the last parameter of a canonical name, then the first alias for
\* a name that has none.
ByName(params) ==
  LET canonical == FoldLeft(LAMBDA f, p : (p.name :> p) @@ f, <<>>, params)
      alias(f, p) == FoldLeft(LAMBDA g, a : g @@ (a :> p), f, p.aliases)
  IN FoldLeft(alias, canonical, params)

RolesCompatible(slot, param) == "Other" \in {slot, param} \/ slot = param

\* bind_slot's refusals: rank, role, element type, the size of plain storage,
\* and the alignment of every range with the first component's.
SlotAccepts(slot, p) ==
  LET align == IF p.comps = <<>> THEN 1 ELSE p.comps[1].align
  IN /\ Len(p.shape) = slot.rank
     /\ RolesCompatible(slot.role, p.role)
     /\ p.elem \in {"bf16", "f16", "f32"}
     /\ (p.enc.kind = "plain" /\ p.comps # <<>>) =>
          StorageBytes(p) = Product(p.shape) * SizeBytes(p.enc.type)
     /\ align # 0
     /\ \A i \in DOMAIN p.comps : \A j \in DOMAIN p.comps[i].ranges :
          p.comps[i].ranges[j][1] % align = 0

\* A component of a binding. The key the program asks for is made of the
\* parameter's canonical name and the component's.
BoundComponent(p, c) ==
  [name |-> c.name, external |-> <<p.name, c.name>>, key |-> c.key, file |-> c.file,
   shape |-> c.shape, store |-> c.store, lengths |-> [i \in DOMAIN c.ranges |-> c.ranges[i][2]]]

Bound(slot, p) ==
  [slot |-> slot.name, name |-> slot.name, enc |-> p.enc, shape |-> p.shape,
   elem |-> p.elem, comps |-> [i \in DOMAIN p.comps |-> BoundComponent(p, p.comps[i])]]

\* bind: every slot the builder declares is required.
Bind(slots, params) ==
  LET names == ByName(params)
  IN IF \A i \in DOMAIN slots : /\ slots[i].name \in DOMAIN names
                                /\ SlotAccepts(slots[i], names[slots[i].name])
     THEN [ok |-> TRUE,
           bindings |-> [i \in DOMAIN slots |-> Bound(slots[i], names[slots[i].name])]]
     ELSE Failure

----------------------------------------------------------------------------
(* schema_fingerprint_from_parameters *)

Identity(c) == <<c.file, c.key, c.ranges>>

\* Keys, files and offsets are left out; only that two components share their
\* storage is kept, as the set of the names that do.
SharedWith(params, c) ==
  LET same == {s \in (DOMAIN params) \X (1..3) :
                 /\ s[2] \in DOMAIN params[s[1]].comps
                 /\ Identity(params[s[1]].comps[s[2]]) = Identity(c)}
  IN IF Cardinality(same) < 2 THEN {}
     ELSE {<<params[s[1]].name, params[s[1]].comps[s[2]].name>> : s \in same}

FingerprintComponent(params, c) ==
  [name |-> c.name, shape |-> c.shape, store |-> c.store, align |-> c.align,
   lengths |-> [i \in DOMAIN c.ranges |-> c.ranges[i][2]], shared |-> SharedWith(params, c)]

FingerprintEntry(params, p) ==
  [name |-> p.name, role |-> p.role, shape |-> p.shape, elem |-> p.elem, enc |-> p.enc,
   comps |-> [i \in DOMAIN p.comps |-> FingerprintComponent(params, p.comps[i])]]

\* The entries are sorted by name, so the order of the parameters is lost.
SchemaFingerprint(params) ==
  [entries |-> {FingerprintEntry(params, params[i]) : i \in DOMAIN params},
   count |-> Len(params),
   bytes |-> FoldLeft(LAMBDA n, p : n + StorageBytes(p), 0, params)]

----------------------------------------------------------------------------
(* build_runtime_provider_plan *)

\* The catalogue component a bound component names.
ProviderComponent(param, b) ==
  Head(SelectSeq(param.comps, LAMBDA c : c.name = b.name /\ c.key = b.key))

\* What has to hold of one bound component. The parameter is the first of its
\* name, while the binder took the last: with two of a name the keys differ.
ProviderAccepts(params, sizes, bound, b) ==
  LET named == SelectSeq(params, LAMBDA p : p.name = bound.name)
      found == SelectSeq(Head(named).comps, LAMBDA c : c.name = b.name /\ c.key = b.key)
      c == ProviderComponent(Head(named), b)
  IN /\ named # <<>> /\ found # <<>>
     /\ c.file = b.file
     /\ Len(c.ranges) = 1
     /\ b.lengths = <<c.ranges[1][2]>>
     /\ c.file \in DOMAIN sizes
     /\ c.ranges[1][2] # 0
     /\ c.ranges[1][1] + c.ranges[1][2] <= sizes[c.file]

\* The plan: what file range is behind every external key, which are distinct.
ProviderPlan(params, sizes, bindings) ==
  LET pairs == FlattenSeq([i \in DOMAIN bindings |->
                 [j \in DOMAIN bindings[i].comps |-> <<bindings[i], bindings[i].comps[j]>>]])
      keys == {pairs[i][2].external : i \in DOMAIN pairs}
      range(i) ==
        LET named == SelectSeq(params, LAMBDA p : p.name = pairs[i][1].name)
            c == ProviderComponent(Head(named), pairs[i][2])
        IN [file |-> c.file, offset |-> c.ranges[1][1], length |-> c.ranges[1][2]]
  IN IF /\ DOMAIN sizes # {}
        /\ \A i \in DOMAIN pairs : ProviderAccepts(params, sizes, pairs[i][1], pairs[i][2])
        /\ Cardinality(keys) = Len(pairs)
     THEN [ok |-> TRUE,
           ranges |-> [k \in keys |-> range(CHOOSE i \in DOMAIN pairs :
                                              pairs[i][2].external = k)]]
     ELSE Failure
=============================================================================
