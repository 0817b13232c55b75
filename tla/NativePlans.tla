---------------------------- MODULE NativePlans ----------------------------
(***************************************************************************)
(* The life of a compiled operation: it is lowered and loaded, prepared as *)
(* the bundle of a runtime, specialized to the variables of a request when *)
(* it has custom directives, executed from its bundle, and evicted.        *)
(*                                                                         *)
(* A document is a sequence of fields, each with its literal arguments,    *)
(* its skip and include directives and whether it has a custom directive.  *)
(*                                                                         *)
(* A resolver gets its arguments in a hash, which Perl lets it edit.  Some *)
(* of these hashes outlive the call: emptyArgs is the empty one that all   *)
(* executions of the process share, and staticArgs the ones that payloads  *)
(* of the native calling convention keep, by the payload's address.        *)
(***************************************************************************)
EXTENDS NativeProgram, OperationCompiler

CONSTANTS
    Documents,        \* [fields, defs]: the operations, with their variable definitions
    Schema,           \* each slot: [arg_defs, shape, mode], the last two of its resolver
    Runtimes,         \* handles of runtimes built for the schema
    Variables(_),     \* the variables a request may give a document
    EditingSlots,     \* the slots whose resolvers edit the hash they are given
    MaxGeneration     \* bound on the plans loaded or cloned

VARIABLES
    document, plain, special, specializedFor, allocated, freed, twice, generation,
    emptyArgs, staticArgs

planVars == <<document, plain, special, specializedFor, allocated, freed, twice, generation,
              emptyArgs, staticArgs>>

NoProgram == [blocks |-> <<>>, cached |-> NoBundle]

\* The runtime coerces the defaults of its slots when it is built.
Runtime == [s \in DOMAIN Schema |->
              [arg_defs |-> [a \in DOMAIN Schema[s].arg_defs |->
                                finalize_native_arg_def(Schema[s].arg_defs[a]).def],
               abi |-> infer_callback_abi_code(Schema[s].shape, Schema[s].mode)]]
-----------------------------------------------------------------------------
(* Lowering a document to a descriptor. *)

KeptFields(doc) ==
    SelectSeq(doc.fields, LAMBDA field : _partition_runtime_guards(field.directives).keep)

Catalog(payloads) ==
    FoldLeft(LAMBDA acc, p : _intern_compact_payload(acc, p).payloads, <<>>, payloads)

LoweredArgs(field) == _lower_arguments(field.arguments)
LoweredGuards(field) == _lower_directives(_partition_runtime_guards(field.directives).dynamic)

LoweredOp(field, args, guards, n) ==
    [slot_index |-> n, child_block |-> 0,
     abstract_children |-> field.abstract_children,
     args_mode |-> LoweredArgs(field).mode, has_args |-> Schema[field.slot].arg_defs # <<>>,
     args_index |-> _intern_compact_payload(args, LoweredArgs(field).payload).index,
     args |-> Undef,
     guards_mode |-> LoweredGuards(field).mode, has_guards |-> LoweredGuards(field).mode # "NONE",
     guards_index |-> _intern_compact_payload(guards, LoweredGuards(field).payload).index,
     guards |-> Undef,
     has_runtime_directives |-> field.custom]

LoweredSlot(field) ==
    [schema_slot_index |-> field.slot, shape |-> Schema[field.slot].shape,
     mode |-> Schema[field.slot].mode, abi |-> "none", arg_defs |-> Schema[field.slot].arg_defs]

compile_operation(doc) ==
    LET kept == KeptFields(doc)
        args == Catalog([i \in DOMAIN kept |-> LoweredArgs(kept[i]).payload])
        guards == Catalog([i \in DOMAIN kept |-> LoweredGuards(kept[i]).payload])
    IN  [variable_defs |-> doc.defs, args_payloads |-> args, guards_payloads |-> guards,
         blocks |-> <<[slots |-> [i \in DOMAIN kept |-> LoweredSlot(kept[i])],
                       ops |-> [i \in DOMAIN kept |-> LoweredOp(kept[i], args, guards, i)]]>>]
-----------------------------------------------------------------------------
(* Executing a bundle: the fields it resolves, each with the result of     *)
(* coercing its arguments and, at, the hash that outlives the call and is  *)
(* handed out: emptyArgs, the one of a payload's address, or OwnHash.      *)

HasAnExplicitResolver(slot) == slot.abi # "DEFAULT"

slot_uses_native_fast_abi(slot) ==
    slot.abi \in {"EXPLICIT_NATIVE", "EXPLICIT_NATIVE_NO_ARGS", "EXPLICIT_NATIVE_ONE_ARG"}

SharedEmpty == <<"empty">>
OwnHash == <<"own">>

native_args_payload_materialize_cached_sv(op) ==
    IF op.own["args"] \in DOMAIN staticArgs THEN staticArgs[op.own["args"]]
    ELSE args_payload_materialize_sv(op.args)

\* What is handed out when the arguments were made for the call: a hash without keys is shared.
EmptyIsShared(made) ==
    IF made.ok /\ DOMAIN made.sv.hash = {} THEN [at |-> SharedEmpty, args |-> Ok(emptyArgs)]
    ELSE [at |-> OwnHash, args |-> made]

build_current_args_sv(blockSlots, op, prepared) ==
    LET slot == effective_slot(Runtime, blockSlots[op.slot_index])
        hash == IF args_payload_needs_variables_hv(op.args) THEN prepared.hash ELSE NoVariables
        static == op.args_mode = "STATIC" /\ op.args.present
    IN  CASE ~op.has_args /\ slot.arg_defs = <<>> -> EmptyIsShared(Ok(Hash(<<>>)))
          [] static /\ slot_uses_native_fast_abi(slot) ->
                [at |-> op.own["args"], args |-> Ok(native_args_payload_materialize_cached_sv(op))]
          [] static -> [at |-> OwnHash, args |-> Ok(args_payload_materialize_sv(op.args))]
          [] OTHER -> EmptyIsShared(specialize_arg_payload_sv(
                          slot.arg_defs, op.args_mode, op.args, hash, prepared.slots))

Executed(block, prepared) ==
    LET passing == SelectSeq(block.ops, LAMBDA op :
            op.has_guards => evaluate_runtime_guards_native(op.guards, prepared.hash, prepared.slots))
        Call(op) == [slot |-> block.slots[op.slot_index].schema_slot_index]
                        @@ build_current_args_sv(block.slots, op, prepared)
    IN  [i \in DOMAIN passing |-> Call(passing[i])]

ExecutedBy(program, provided) ==
    Executed(program.cached.blocks[1],
             prepare_program_variables_into_slots_sv(Documents[document].defs, provided))
-----------------------------------------------------------------------------
(* The steps.  Freeing an address that is free already is remembered. *)

Use(addresses) == allocated' = allocated \cup addresses
Free(addresses) ==
    /\ freed' = freed \cup addresses
    /\ twice' = twice \cup (freed \cap addresses)
    /\ staticArgs' = [a \in DOMAIN staticArgs \ addresses |-> staticArgs[a]]

PlanInit ==
    /\ document \in 1..Len(Documents)
    /\ plain = native_program_from_sv(compile_operation(Documents[document]), 1).program
    /\ special = NoProgram /\ specializedFor = NoVariables
    /\ allocated = AllAddresses(plain.blocks)
    /\ freed = {} /\ twice = {} /\ generation = 1
    /\ emptyArgs = Hash(<<>>) /\ staticArgs = <<>>

\* The bundle of a program: the one it has, or, for another runtime, a new one.
CachedBundle(program, gen) ==
    LET made == native_bundle_from_handles(program, gen)
    IN  [made |-> AllAddresses(made), swept |-> prepare_cached_bundle_in_place(Runtime, made, gen)]

native_program_cached_bundle(rt) ==
    /\ generation < MaxGeneration
    /\ \E which \in {"plain", "special"} :
        LET program == IF which = "plain" THEN plain ELSE special
            built == CachedBundle(program, generation + 1)
            prepared == [program EXCEPT !.cached = [for |-> rt, blocks |-> built.swept.blocks]]
        IN  /\ program # NoProgram /\ program.cached.for # rt
            /\ Use(built.made \cup AllAddresses(built.swept.blocks))
            /\ Free(native_bundle_destroy(program.cached.blocks) \cup built.swept.freed)
            /\ plain' = IF which = "plain" THEN prepared ELSE plain
            /\ special' = IF which = "special" THEN prepared ELSE special
            /\ generation' = generation + 1
            /\ UNCHANGED <<document, specializedFor, emptyArgs>>

\* A copy is specialized in place, written to a descriptor and loaded again; the copy dies.
specialize_program(provided) ==
    LET prepared == prepare_program_variables_into_slots_sv(plain.variable_defs, provided)
        copy == clone_native_program(plain, generation + 1)
        swept == specialize_native_program_in_place(Runtime, copy.blocks, prepared.hash, generation + 1)
        reduced == [copy EXCEPT !.blocks = swept.blocks]
    IN  /\ plain # NoProgram /\ special = NoProgram /\ generation + 1 < MaxGeneration
        /\ provided # NoVariables
        /\ program_needs_variable_specialization(plain)
        /\ prepared.ok /\ swept.ok
        /\ special' = native_program_from_sv(native_program_to_compact_sv(reduced), generation + 2).program
        /\ specializedFor' = provided
        /\ Use(AllAddresses(copy.blocks) \cup AllAddresses(swept.blocks) \cup AllAddresses(special'.blocks))
        /\ Free(swept.freed \cup native_program_destroy(reduced))
        /\ generation' = generation + 2
        /\ UNCHANGED <<document, plain, emptyArgs>>

EvictSpecialized ==
    /\ special # NoProgram
    /\ Free(native_program_destroy(special))
    /\ special' = NoProgram /\ specializedFor' = NoVariables
    /\ UNCHANGED <<document, plain, allocated, generation, emptyArgs>>

EvictProgram ==
    /\ plain # NoProgram
    /\ Free(native_program_destroy(plain))
    /\ plain' = NoProgram
    /\ UNCHANGED <<document, special, specializedFor, allocated, generation, emptyArgs>>

\* A request is executed, and the resolver of one field edits the hash of its arguments.
Edited(sv) == Hash([k \in DOMAIN sv.hash \cup {"edited"} |->
                       IF k = "edited" THEN Undef ELSE sv.hash[k]])

ExecuteAndEdit(program, provided) ==
    /\ program.cached.for \in Runtimes
    /\ LET calls == ExecutedBy(program, provided)
       IN  \E i \in DOMAIN calls :
            /\ calls[i].slot \in EditingSlots /\ calls[i].args.ok
            /\ emptyArgs' = IF calls[i].at = SharedEmpty THEN Edited(calls[i].args.sv) ELSE emptyArgs
            /\ staticArgs' = IF calls[i].at \in {SharedEmpty, OwnHash} THEN staticArgs
                             ELSE (calls[i].at :> Edited(calls[i].args.sv)) @@ staticArgs
    /\ UNCHANGED <<document, plain, special, specializedFor, allocated, freed, twice, generation>>

PlanNext ==
    \/ \E rt \in Runtimes : native_program_cached_bundle(rt)
    \/ \E provided \in Variables(document) : specialize_program(provided)
    \/ EvictSpecialized
    \/ EvictProgram
    \/ \E provided \in Variables(document) : ExecuteAndEdit(plain, provided)
    \/ ExecuteAndEdit(special, specializedFor)
=============================================================================
