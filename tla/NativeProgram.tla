---------------------------- MODULE NativeProgram ----------------------------
(***************************************************************************)
(* The compiled operation of the native VM (src/vm_runtime.h): how a       *)
(* program is parsed from its descriptor and written back to one, cloned,  *)
(* specialized to one set of variables, and prepared as the bundle a       *)
(* runtime executes, and what each of these allocates and frees.           *)
(*                                                                         *)
(* A program has variable definitions, payload catalogs and blocks of      *)
(* slots and ops.  An op owns up to five allocations; own gives the        *)
(* address of each, <<generation, block, op, field>>, or NoAddress.        *)
(* A descriptor holds Perl values where a program holds native ones.       *)
(* A runtime is the sequence of its slots' argument definitions.           *)
(***************************************************************************)
EXTENDS InputCoercion

CONSTANT FoldPlan(_, _, _, _, _, _, _)    \* Sweep, a constant as those of InputCoercion are

Fields == {"abstract_names", "abstract_indexes", "args", "guards", "runtime_directives"}
NoAddress == <<>>
OwnsNothing == [f \in Fields |-> NoAddress]

\* The allocations an op needs for what it holds.
HeldFields(op) ==
    {f \in Fields :
        CASE f \in {"abstract_names", "abstract_indexes"} -> op.abstract_children # <<>>
          [] f = "args" -> op.args.present
          [] f = "guards" -> op.guards_present
          [] OTHER -> op.has_runtime_directives}

Allocate(op, generation, b, o) ==
    [op EXCEPT !.own = [f \in Fields |->
        IF f \in HeldFields(op) THEN <<generation, b, o, f>> ELSE NoAddress]]

Addresses(op) == {op.own[f] : f \in Fields} \ {NoAddress}
BlockAddresses(block) == UNION {Addresses(block.ops[o]) : o \in DOMAIN block.ops}
AllAddresses(blocks) == UNION {BlockAddresses(blocks[b]) : b \in DOMAIN blocks}

\* The slot of the schema stands for the operation's own where there is one.
effective_slot(runtime, slot) ==
    IF slot.schema_slot_index \in DOMAIN runtime THEN runtime[slot.schema_slot_index] ELSE slot

\* How a resolver without an explicit calling convention is called.
infer_callback_abi_code(shape, mode) ==
    CASE mode = 4 -> "EXPLICIT_NATIVE_ONE_ARG"
      [] mode = 3 -> "EXPLICIT_NATIVE_NO_ARGS"
      [] mode = 2 -> "EXPLICIT_NATIVE"
      [] shape = "EXPLICIT" -> "EXPLICIT_GENERIC"
      [] OTHER -> "DEFAULT"
-----------------------------------------------------------------------------
(* From a descriptor. *)

parse_native_arg_defs(defs) ==
    [i \in DOMAIN defs |->
        parse_native_arg_def(defs[i].name, defs[i].type,
                             IF defs[i].has_default THEN defs[i].default ELSE NoSv)]

parse_native_slot(slot) ==
    [schema_slot_index |-> slot.schema_slot_index,
     shape |-> slot.shape, mode |-> slot.mode,
     arg_defs |-> parse_native_arg_defs(slot.arg_defs),
     abi |-> IF slot.abi = "none" THEN infer_callback_abi_code(slot.shape, slot.mode) ELSE slot.abi]

\* Of the payloads, the op's own comes before the one of the catalog.
parse_native_op(op) ==
    [slot_index |-> op.slot_index,
     child_block |-> op.child_block,
     abstract_children |-> op.abstract_children,
     args_mode |-> op.args_mode, has_args |-> op.has_args,
     args_index |-> op.args_index,
     args |-> IF IsHash(op.args) THEN args_payload_from_hv(op.args.hash) ELSE NoPayload,
     guards_mode |-> op.guards_mode, has_guards |-> op.has_guards,
     guards_index |-> op.guards_index,
     guards |-> directives_payload_from_sv(op.guards), guards_present |-> IsArray(op.guards),
     has_runtime_directives |-> op.has_runtime_directives,
     own |-> OwnsNothing]

parse_native_block(block) ==
    [slots |-> [i \in DOMAIN block.slots |-> parse_native_slot(block.slots[i])],
     ops |-> [i \in DOMAIN block.ops |-> parse_native_op(block.ops[i])]]

parse_native_payload_catalogs(d) ==
    [args |-> [i \in DOMAIN d.args_payloads |->
        IF IsHash(d.args_payloads[i]) THEN args_payload_from_hv(d.args_payloads[i].hash) ELSE NoPayload],
     guards |-> [i \in DOMAIN d.guards_payloads |-> d.guards_payloads[i]]]

\* Each op that has no payload of its own takes a copy of the catalog's.
WithPayloads(op, catalogs) ==
    LET fromArgs == ~op.args.present /\ op.args_index > 0
        fromGuards == ~op.guards_present /\ op.guards_index > 0
    IN  [op EXCEPT
            !.args = IF fromArgs THEN args_payload_clone(catalogs.args[op.args_index]) ELSE @,
            !.guards = IF fromGuards
                       THEN directives_payload_clone(
                                directives_payload_from_sv(catalogs.guards[op.guards_index]))
                       ELSE @,
            !.guards_present = @ \/ fromGuards]

PayloadsExist(op, catalogs) ==
    /\ ~op.args.present /\ op.args_index > 0 =>
            op.args_index \in DOMAIN catalogs.args /\ catalogs.args[op.args_index].present
    /\ ~op.guards_present /\ op.guards_index > 0 =>
            op.guards_index \in DOMAIN catalogs.guards /\ IsArray(catalogs.guards[op.guards_index])

NoBundle == [for |-> "none", blocks |-> <<>>]

BindOp(op, defs) ==
    [op EXCEPT !.args.values = [i \in DOMAIN @ |-> bind_dynamic_value_variables(@[i], defs)],
               !.guards = [i \in DOMAIN @ |->
                              [@[i] EXCEPT !.expr = bind_dynamic_value_variables(@, defs)]]]

native_program_from_sv(d, generation) ==
    LET defs == parse_native_arg_defs(d.variable_defs)
        catalogs == parse_native_payload_catalogs(d)
        parsed == [b \in DOMAIN d.blocks |-> parse_native_block(d.blocks[b])]
        Bound(b, o) == Allocate(BindOp(WithPayloads(parsed[b].ops[o], catalogs), defs), generation, b, o)
    IN  IF \E b \in DOMAIN parsed : \E o \in DOMAIN parsed[b].ops : ~PayloadsExist(parsed[b].ops[o], catalogs)
        THEN [ok |-> FALSE, error |-> "payload index is invalid"]
        ELSE [ok |-> TRUE,
              program |-> [variable_defs |-> defs,
                           catalogs |-> catalogs, cached |-> NoBundle,
                           blocks |-> [b \in DOMAIN parsed |->
                               [parsed[b] EXCEPT !.ops = [o \in DOMAIN @ |-> Bound(b, o)]]]]]
-----------------------------------------------------------------------------
(* Back to a descriptor.  A default is written as it was coerced, an op's  *)
(* payload in place of its index, and a variable in a payload as null.     *)

CompactDefs(defs) ==
    [i \in DOMAIN defs |->
        [name |-> defs[i].name, type |-> defs[i].type, has_default |-> defs[i].has_default,
         default |-> CASE defs[i].native # NoNative -> native_value_materialize_sv(defs[i].native)
                       [] defs[i].default.t # "NULL" -> defs[i].default
                       [] OTHER -> Undef]]

native_slot_to_compact_sv(slot) ==
    [slot EXCEPT !.arg_defs = CompactDefs(@)]

native_op_to_compact_sv(op) ==
    [slot_index |-> op.slot_index, child_block |-> op.child_block,
     abstract_children |-> op.abstract_children,
     args_mode |-> op.args_mode, has_args |-> op.has_args, args_index |-> 0,
     args |-> IF op.args.present THEN args_payload_materialize_sv(op.args) ELSE Undef,
     guards_mode |-> op.guards_mode, has_guards |-> op.has_guards, guards_index |-> 0,
     guards |-> IF op.guards_present THEN directives_payload_materialize_sv(op.guards) ELSE Undef,
     has_runtime_directives |-> op.has_runtime_directives]

native_block_to_compact_sv(block) ==
    [slots |-> [i \in DOMAIN block.slots |-> native_slot_to_compact_sv(block.slots[i])],
     ops |-> [i \in DOMAIN block.ops |-> native_op_to_compact_sv(block.ops[i])]]

native_program_to_compact_sv(program) ==
    [variable_defs |-> CompactDefs(program.variable_defs),
     args_payloads |-> [i \in DOMAIN program.catalogs.args |->
        IF program.catalogs.args[i].present
        THEN args_payload_materialize_sv(program.catalogs.args[i]) ELSE Undef],
     guards_payloads |-> [i \in DOMAIN program.catalogs.guards |->
        IF IsArray(program.catalogs.guards[i])
        THEN directives_payload_materialize_sv(directives_payload_from_sv(program.catalogs.guards[i]))
        ELSE Undef],
     blocks |-> [b \in DOMAIN program.blocks |-> native_block_to_compact_sv(program.blocks[b])]]

\* Whether a descriptor's fields can all run natively without variables.  Of the directives it
\* reads the payload's index (-1, here 0, is true for Perl; the first index is not).
program_is_native_eligible_sv(d) ==
    /\ d.variable_defs = <<>>
    /\ \A b \in DOMAIN d.blocks :
          /\ \A i \in DOMAIN d.blocks[b].slots :
                d.blocks[b].slots[i].shape \in {"DEFAULT", "EXPLICIT"}
          /\ \A o \in DOMAIN d.blocks[b].ops :
                /\ d.blocks[b].ops[o].args_mode \in {"NONE", "STATIC"}
                /\ d.blocks[b].ops[o].guards_index = 1
-----------------------------------------------------------------------------
(* Copies. *)

clone_native_arg_defs(defs) ==
    [i \in DOMAIN defs |->
        [defs[i] EXCEPT !.native = IF @ = NoNative THEN @ ELSE native_value_clone(@)]]

clone_native_slot(slot) == [slot EXCEPT !.arg_defs = clone_native_arg_defs(@)]

clone_native_op(op, generation, b, o) ==
    Allocate([op EXCEPT !.args = args_payload_clone(@), !.guards = directives_payload_clone(@)],
             generation, b, o)

clone_native_block(block, generation, b) ==
    [slots |-> [i \in DOMAIN block.slots |-> clone_native_slot(block.slots[i])],
     ops |-> [o \in DOMAIN block.ops |-> clone_native_op(block.ops[o], generation, b, o)]]

clone_native_program(program, generation) ==
    [variable_defs |-> clone_native_arg_defs(program.variable_defs),
     catalogs |-> program.catalogs, cached |-> NoBundle,
     blocks |-> [b \in DOMAIN program.blocks |-> clone_native_block(program.blocks[b], generation, b)]]

\* Decided once per program: only custom directives need the variables in the plan.
program_needs_variable_specialization(program) ==
    \E b \in DOMAIN program.blocks : \E o \in DOMAIN program.blocks[b].ops :
        program.blocks[b].ops[o].has_runtime_directives
-----------------------------------------------------------------------------
(* The two passes that fold what is known into a plan, in place.  A fold   *)
(* of one op says whether the op stays, what it becomes, and which         *)
(* addresses it frees; a payload specialized anew gets an address of its   *)
(* own.                                                                    *)

FoldGuardsOfAnyMode(op, mode, variables) ==
    IF op.has_guards /\ ~evaluate_runtime_guards_native(op.guards, variables, <<>>)
    THEN [keep |-> FALSE, op |-> op, freed |-> {}]
    ELSE [keep |-> TRUE, op |-> op, freed |-> {}]

FoldGuards(op, mode, variables) ==
    LET decided == op.has_guards /\ op.guards_mode = mode
        keep == decided => evaluate_runtime_guards_native(op.guards, variables, <<>>)
    IN  IF ~decided \/ ~keep
        THEN [keep |-> keep, op |-> op, freed |-> {}]
        ELSE [keep |-> TRUE, freed |-> {op.own["guards"]} \ {NoAddress},
              op |-> [op EXCEPT !.has_guards = FALSE, !.guards_mode = "NONE", !.guards = <<>>,
                                !.guards_present = FALSE, !.own["guards"] = NoAddress]]

FoldArgs(runtime, block, op, variables, address) ==
    LET slot == block.slots[op.slot_index]
        result == specialize_arg_payload_native(effective_slot(runtime, slot).arg_defs,
                                                op.args_mode, op.args, variables)
    IN  IF ~result.ok THEN result
        ELSE [ok |-> TRUE, freed |-> {op.own["args"]} \ {NoAddress},
              op |-> [op EXCEPT
                        !.args = result.payload,
                        !.args_mode = IF result.payload.present THEN "STATIC" ELSE "NONE",
                        !.has_args = result.payload.present,
                        !.own["args"] = IF result.payload.present THEN address ELSE NoAddress]]

HasArgs(block, op) ==
    /\ op.slot_index \in DOMAIN block.slots
    /\ block.slots[op.slot_index].arg_defs # <<>> \/ op.has_args

\* What a dropped op frees: the pass over a bundle forgets the table of abstract children.
DroppedInBundle == {"args", "guards", "runtime_directives"}
DroppedInProgram == Fields

FoldOp(runtime, block, op, guardsMode, argModes, dropped, variables, address) ==
    LET guarded == FoldGuards(op, guardsMode, variables)
        argued == FoldArgs(runtime, block, guarded.op, variables, address)
    IN  CASE ~guarded.keep ->
                [ok |-> TRUE, keep |-> FALSE, op |-> op,
                 freed |-> {op.own[f] : f \in dropped} \ {NoAddress}]
          [] op.args_mode \in argModes /\ HasArgs(block, op) ->
                IF argued.ok THEN [ok |-> TRUE, keep |-> TRUE, op |-> argued.op,
                                   freed |-> guarded.freed \cup argued.freed]
                ELSE argued
          [] OTHER -> [ok |-> TRUE, keep |-> TRUE, op |-> guarded.op, freed |-> guarded.freed]

Sweep(runtime, blocks, guardsMode, argModes, dropped, variables, generation) ==
    LET folds == [b \in DOMAIN blocks |-> [o \in DOMAIN blocks[b].ops |->
            FoldOp(runtime, blocks[b], blocks[b].ops[o], guardsMode, argModes, dropped, variables,
                   <<generation, b, o, "specialized args">>)]]
        all == UNION {{folds[b][o] : o \in DOMAIN folds[b]} : b \in DOMAIN blocks}
        Kept(b) == SelectSeq(folds[b], LAMBDA fold : fold.keep)
    IN  IF \E fold \in all : ~fold.ok THEN CHOOSE fold \in all : ~fold.ok
        ELSE [ok |-> TRUE,
              blocks |-> [b \in DOMAIN blocks |->
                            [blocks[b] EXCEPT !.ops = [o \in DOMAIN Kept(b) |-> Kept(b)[o].op]]],
              freed |-> UNION {fold.freed : fold \in all}]

specialize_native_program_in_place(runtime, blocks, variables, generation) ==
    FoldPlan(runtime, blocks, "DYNAMIC", {"NONE", "STATIC", "DYNAMIC"}, DroppedInProgram, variables, generation)

prepare_cached_bundle_in_place(runtime, blocks, generation) ==
    FoldPlan(runtime, blocks, "STATIC", {"STATIC"}, DroppedInBundle, NoVariables, generation)

\* The plan of a program on a runtime.
native_bundle_from_handles(program, generation) ==
    [b \in DOMAIN program.blocks |-> clone_native_block(program.blocks[b], generation, b)]

native_bundle_destroy(blocks) == AllAddresses(blocks)
native_program_destroy(program) ==
    AllAddresses(program.blocks) \cup native_bundle_destroy(program.cached.blocks)
=============================================================================
