------------------------------ MODULE Loading -------------------------------
(***************************************************************************)
(* The models of the voice loop: src/s2s-models.cpp loads the five in      *)
(* order and frees them in reverse, and each of sv_init, st_init,          *)
(* pipeline_asr_load, tts_bridge_load and lv_init acquires what its        *)
(* context stands on, step by step, over src/gguf-weights.h,               *)
(* src/weight-ctx.h and src/graph-arena.h.  Any step may fail, each with a *)
(* cleanup of its own, and a tensor or a key that is missing throws into   *)
(* the catch of the loader.  A recognition acquires and fails alike        *)
(* (pipeline_asr_run).                                                     *)
(***************************************************************************)
EXTENDS Integers, Sequences

CONSTANTS MaxRecognitions   \* bound: recognitions

VARIABLES
  doing,      \* the plan that runs, or None
  step,       \* of the plan
  cleanup,    \* what is left to release of a failure or an ending
  failed,     \* the plan failed
  thrown,     \* ... by an exception
  held,       \* {<<plan, thing>>}, what was acquired and not released
  stage,      \* "loading", "serving", "stopping", "refused" or "over"
  left,       \* {<<plan, thing, thrown>>}, what a plan that ended left behind
  early,      \* a thing was released under another that stands on it
  recognized  \* recognitions so far

loading == <<doing, step, cleanup, failed, thrown, held, stage, left, early, recognized>>

(* ------------------------------- the plans ----------------------------- *)

\* A step acquires a thing, lets others go whether it succeeds or not, and
\* may fail with a cleanup, or throw.
Making(gets, closes, mayFail, fails, throws) ==
  [gets |-> gets, closes |-> closes, mayFail |-> mayFail, fails |-> fails, throws |-> throws]
Get(thing, fails) == Making({thing}, {}, TRUE, fails, FALSE)
Has(thing) == Making({thing}, {}, FALSE, <<>>, FALSE)
Check(fails) == Making({}, {}, TRUE, fails, FALSE)
Read == Making({}, {}, FALSE, <<>>, TRUE)
Run(fails) == Making({}, {}, TRUE, fails, TRUE)
\* The weights go to the backend, then the file is closed, uploaded or not.
Upload(fails) == Making({"buffer"}, {"file"}, TRUE, fails, FALSE)

\* What every context is freed by.
Free ==
  [vad  |-> <<"allocator", "arena", "buffer", "weights", "backend", "context">>,
   turn |-> <<"worker", "mel_allocator", "allocator", "mel_arena", "arena", "buffer", "weights",
              "constants_buffer", "constants", "backend", "context">>,
   asr  |-> <<"predict_allocator", "joint_allocator", "run_allocator", "arena", "buffer",
              "weights", "constants_buffer", "constants", "backend", "context">>,
   tts  |-> <<"talker", "context">>,
   aec  |-> <<"worker", "allocator", "states_buffer", "states", "arena", "buffer", "weights",
              "backend", "context">>,
   call |-> <<"nodes", "inputs_buffer", "inputs">>]

Vad ==
  <<Has("context"), Get("file", <<"context">>), Get("backend", <<"file", "context">>),
    Has("weights"), Read, Upload(Free.vad), Get("arena", Free.vad), Get("allocator", Free.vad),
    Check(Free.vad)>>

\* Variant: a failure to place the constants drops the context alone.
TurnDrops ==
  <<Has("context"), Get("file", <<"context">>), Get("backend", <<"file", "context">>),
    Has("weights"), Read, Upload(Free.turn), Has("constants"),
    Get("constants_buffer", <<"context">>), Get("mel_arena", Free.turn), Get("arena", Free.turn),
    Has("mel_allocator"), Get("allocator", Free.turn), Check(Free.turn), Has("worker")>>
Turn ==
  <<Has("context"), Get("file", <<"context">>), Get("backend", <<"file", "context">>),
    Has("weights"), Read, Upload(Free.turn), Has("constants"),
    Get("constants_buffer", Free.turn), Get("mel_arena", Free.turn), Get("arena", Free.turn),
    Has("mel_allocator"), Get("allocator", Free.turn), Check(Free.turn), Has("worker")>>

Asr ==
  <<Has("context"), Get("file", Free.asr), Get("backend", <<"file">> \o Free.asr),
    Has("weights"), Read, Upload(Free.asr), Has("constants"),
    Get("constants_buffer", Free.asr), Get("arena", Free.asr),
    Has("predict_allocator"), Has("joint_allocator"), Get("run_allocator", Free.asr),
    Check(Free.asr)>>

\* The talker is external; it must be a base one, and the voices whole.
Tts == <<Get("talker", <<>>), Check(<<"talker">>), Has("context"), Check(Free.tts)>>

Aec ==
  <<Has("context"), Get("file", <<"context">>), Get("backend", <<"file", "context">>),
    Has("weights"), Read, Upload(Free.aec), Has("allocator"), Get("arena", Free.aec),
    Get("states", Free.aec), Get("states_buffer", Free.aec), Check(Free.aec), Has("worker")>>

\* One recognition: the audio, its inputs, the two graphs with what is read
\* back of each, which may find no memory, and the transducer once both are
\* let go.
Call ==
  <<Check(<<>>), Has("inputs"), Get("inputs_buffer", <<>>), Has("nodes"), Run(Free.call),
    Run(Free.call), Making({}, {"nodes", "inputs_buffer", "inputs"}, FALSE, <<>>, TRUE)>>

Models == <<"vad", "turn", "asr", "tts", "aec">>
Plan == [vad |-> Vad, turn |-> Turn, asr |-> Asr, tts |-> Tts, aec |-> Aec, call |-> Call]
None == "none"

\* What must stand as long as a thing does: its context, the backend its
\* memory is of, the tensors a buffer is of, everything a worker uses.
StandsOn(thing) ==
  CASE thing \in {"backend", "weights", "constants", "arena", "mel_arena", "states"} ->
         {"context"}
    [] thing = "buffer" -> {"context", "backend", "weights"}
    [] thing = "constants_buffer" -> {"context", "backend", "constants"}
    [] thing = "states_buffer" -> {"context", "backend", "states"}
    [] thing = "worker" -> {"context", "backend", "arena", "buffer", "allocator"}
    [] thing \in {"allocator", "mel_allocator", "predict_allocator", "joint_allocator",
                  "run_allocator"} -> {"context", "backend"}
    [] thing = "inputs_buffer" -> {"inputs"}
    [] OTHER -> {}

(* -------------------------------- the steps ---------------------------- *)

Init ==
  /\ doing = Models[1] /\ step = 1 /\ cleanup = <<>> /\ failed = FALSE /\ thrown = FALSE
  /\ held = {} /\ stage = "loading" /\ left = {} /\ early = FALSE /\ recognized = 0

Now == Plan[doing][step]
Works == doing # None /\ cleanup = <<>> /\ ~failed /\ stage # "stopping"
                      /\ step <= Len(Plan[doing])
Own(things) == {<<doing, thing>> : thing \in things}

\* A step succeeds.
Acquire ==
  /\ Works
  /\ held' = (held \union Own(Now.gets)) \ Own(Now.closes)
  /\ step' = step + 1
  /\ UNCHANGED <<doing, cleanup, failed, thrown, stage, left, early, recognized>>

Fail ==
  /\ Works /\ Now.mayFail /\ failed' = TRUE
  /\ cleanup' = Now.fails
  /\ held' = held \ Own(Now.closes)
  /\ UNCHANGED <<doing, step, thrown, stage, left, early, recognized>>

\* The exception goes to the catch of the loader, which knows the context and
\* not the file; the catch of a recognition knows nothing of what it holds.
Throw ==
  /\ Works /\ Now.throws /\ failed' = TRUE /\ thrown' = TRUE
  /\ cleanup' = IF doing = "call" THEN <<>> ELSE Free[doing]
  /\ held' = held \ Own(Now.closes)
  /\ UNCHANGED <<doing, step, stage, left, early, recognized>>

\* What is held of the list is released, in its order.
Release ==
  /\ cleanup # <<>> /\ cleanup' = Tail(cleanup)
  /\ LET thing == Head(cleanup) IN
       /\ held' = held \ {<<doing, thing>>}
       /\ early' = (early \/ /\ <<doing, thing>> \in held
                             /\ \E x \in held : x[1] = doing /\ thing \in StandsOn(x[2]))
  /\ UNCHANGED <<doing, step, failed, thrown, stage, left, recognized>>

Left == {<<x[1], x[2], thrown>> : x \in {y \in held : y[1] = doing}}
Index(m) == CHOOSE i \in DOMAIN Models : Models[i] = m

\* A model is loaded, and the next one follows.
Loaded ==
  /\ stage = "loading" /\ ~failed /\ step > Len(Plan[doing])
  /\ LET i == Index(doing) IN
       IF i = Len(Models) THEN doing' = None /\ stage' = "serving"
                          ELSE doing' = Models[i + 1] /\ UNCHANGED stage
  /\ step' = 1
  /\ UNCHANGED <<cleanup, failed, thrown, held, left, early, recognized>>

\* models_load gives up: the program ends, with the models before this one.
Refuse ==
  /\ stage = "loading" /\ failed /\ cleanup = <<>>
  /\ stage' = "refused" /\ left' = left \union Left
  /\ doing' = None
  /\ UNCHANGED <<step, cleanup, failed, thrown, held, early, recognized>>

Recognize ==
  /\ stage = "serving" /\ doing = None /\ recognized < MaxRecognitions
  /\ recognized' = recognized + 1
  /\ doing' = "call" /\ step' = 1 /\ failed' = FALSE /\ thrown' = FALSE
  /\ UNCHANGED <<cleanup, held, stage, left, early>>

Recognized ==
  /\ doing = "call" /\ cleanup = <<>> /\ (failed \/ step > Len(Call))
  /\ left' = left \union Left
  /\ held' = {x \in held : x[1] # "call"}
  /\ doing' = None /\ failed' = FALSE
  /\ UNCHANGED <<step, cleanup, thrown, stage, early, recognized>>

\* models_free, the last loaded first.
Stop ==
  /\ stage = "serving" /\ doing = None
  /\ stage' = "stopping" /\ doing' = Models[Len(Models)] /\ cleanup' = Free[doing']
  /\ thrown' = FALSE
  /\ UNCHANGED <<step, failed, held, left, early, recognized>>
Freed ==
  /\ stage = "stopping" /\ cleanup = <<>>
  /\ left' = left \union Left
  /\ LET i == Index(doing) IN
       IF i = 1 THEN stage' = "over" /\ doing' = None /\ UNCHANGED cleanup
       ELSE doing' = Models[i - 1] /\ cleanup' = Free[doing'] /\ UNCHANGED stage
  /\ UNCHANGED <<step, failed, thrown, held, early, recognized>>

Next ==
  \/ Acquire \/ Fail \/ Throw \/ Release
  \/ Loaded \/ Refuse \/ Recognize \/ Recognized \/ Stop \/ Freed
Spec == Init /\ [][Next]_loading

(* ------------------------------ properties ----------------------------- *)

\* Whatever step fails, a context that is not handed over is released whole,
\* and so is one that was used and a recognition: nothing under what stands
\* on it, and nothing left but what a catch does not know, the file of a
\* loader or the inputs and the graph of a recognition that threw, and the
\* inputs a recognition could not place.
NothingLeft ==
  /\ ~early
  /\ \A x \in left : \/ x[2] = "file" /\ x[3]
                     \/ x[1] = "call" /\ (x[2] = "inputs" \/ x[3])
  /\ stage = "over" => held = {}
=============================================================================
