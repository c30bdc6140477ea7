------------------------------ MODULE FfiProofs ------------------------------
(***************************************************************************)
(* Theorems about the C ABI, for any number of threads and handles: who    *)
(* owns a handle, what messages, statuses and label numbers mean, and that *)
(* everything behind the handles behaves as the library promises its Rust  *)
(* callers.                                                                *)
(***************************************************************************)
EXTENDS Ffi, FiniteSetTheorems, TLAPS

(* The theorems about trampolines, for the trampolines behind the handles. *)
Building == INSTANCE TrampolineProofs WITH
    labels <- inner_labels, ForeignLabels <- FALSE

Boxes == {"none", "live", "freed"}
GivenLabel == [number : Nat, label : Nat]

HandleTypes ==
    /\ session \in [Threads -> Sessions \cup {NULL}]
    /\ trampoline \in [Threads -> Trampolines \cup {NULL}]
    /\ installing \in [Threads -> Sessions \cup {NULL}]
    /\ box \in [Handles -> Boxes]

Refers(t, h) == session[t] = h \/ trampoline[t] = h \/ installing[t] = h

(* HandlesHaveOneOwner, thread by thread. *)
OwnerInv ==
    /\ \A h \in Handles : box[h] = "live" <=> \E t \in Threads : Refers(t, h)
    /\ \A h \in Handles, t, u \in Threads :
         Refers(t, h) /\ Refers(u, h) => t = u
    /\ \A t \in Threads : ~Idle(t) => session[t] = NULL

PhaseInv ==
    /\ DOMAIN phase = Sessions /\ DOMAIN result = Sessions
    /\ HeldSessionsAreOpen
    /\ \A h \in Sessions : box[h] = "none" => phase[h] = "open"

HandleInv == HandleTypes /\ OwnerInv /\ PhaseInv

AnswerInv ==
    /\ DOMAIN status = Threads
    /\ DOMAIN last_error = Threads
    /\ MessageMatchesStatus

(* The table of a trampoline lists all its labels. *)
LabelInv ==
    /\ label_table \in [Trampolines -> Seq(Nat)]
    /\ given \in [Trampolines -> SUBSET GivenLabel]
    /\ NumbersNameTheirLabels
    /\ \A h \in Trampolines :
         /\ Len(label_table[h]) = Len(inner_labels[h])
         /\ Len(inner_labels[h]) <= MaxLabels
         /\ \A i \in DOMAIN label_table[h] : label_table[h][i] = i

IInv == HandleInv /\ AnswerInv /\ LabelInv /\ Building!IInv
-----------------------------------------------------------------------------
(* What the calls change.                                                  *)

SessionCall(t) ==
    session_overwrite(t) \/ session_detour(t) \/ session_detour_trampoline(t)

TrampolineCall(t) ==
    \/ trampoline_length(t) \/ trampoline_append(t)
    \/ trampoline_preserved_call(t) \/ trampoline_new_label(t)
    \/ trampoline_bind(t) \/ trampoline_jump(t)

HandleCall(t) ==
    \/ session_create(t) \/ session_destroy(t)
    \/ trampoline_create(t) \/ trampoline_destroy(t)

InstallCall(t) ==
    session_install_permanently(t) \/ InstallStep(t) \/ InstallReturn(t)

LEMMA Steps ==
    Next <=> \E t \in Threads :
        \/ SessionCall(t) \/ TrampolineCall(t) \/ HandleCall(t)
        \/ InstallCall(t) \/ module_query(t)
        \/ \E u \in Threads : HandOver(t, u)
BY DEF Next, SessionCall, TrampolineCall, HandleCall, InstallCall

LEMMA InvalidCall ==
    ASSUME NEW t, Invalid(t)
    PROVE  /\ Idle(t) /\ Return(t, "Invalid")
           /\ UNCHANGED <<handleVars, labelVars, coreVars, innerVars>>
BY DEF Invalid, Fail

(* A preparing call answers, and prepares a patch exactly when all is well. *)
LEMMA SessionCallEffect ==
    ASSUME NEW t, SessionCall(t)
    PROVE  /\ Idle(t)
           /\ UNCHANGED <<handleVars, labelVars, innerVars>>
           /\ \/ UNCHANGED coreVars /\ \E error : Return(t, error)
              \/ /\ session[t] # NULL
                 /\ Core!Prepare(session[t])
                 /\ Return(t, "Ok")
<1>. DEFINE Effect ==
       /\ UNCHANGED <<handleVars, labelVars, innerVars>>
       /\ \/ UNCHANGED coreVars /\ \E error : Return(t, error)
          \/ session[t] # NULL /\ Core!Prepare(session[t]) /\ Return(t, "Ok")
<1>1. ASSUME NEW error, Fail(t, error)
      PROVE  Effect
  BY <1>1 DEF Fail
<1>2. ASSUME NEW errors, session[t] # NULL,
             Prepares(t, errors) \/ Refuses(t, errors)
      PROVE  Effect
  BY <1>1, <1>2 DEF Prepares, Refuses
<1>3. ASSUME Invalid(t)
      PROVE  Effect /\ Idle(t)
  BY <1>1, <1>3 DEF Invalid
<1>. HIDE DEF Effect
<1>4. session_overwrite(t) => Effect /\ Idle(t)
  BY <1>2, <1>3 DEF session_overwrite
<1>5. session_detour(t) => Effect /\ Idle(t)
  BY <1>2, <1>3 DEF session_detour
<1>6. ASSUME session_detour_trampoline(t)
      PROVE  Effect /\ Idle(t)
  <2>. DEFINE h == trampoline[t]
              built == {Inner!build(h, a).error : a \in Address}
              errors == (PreparationErrors \cup built) \
                            {"Ok", "EmptyPatch", "EmptyTrampoline",
                             "RelativeJumpOutOfRange"}
  <2>1. \/ Invalid(t)
        \/ /\ Idle(t) /\ session[t] # NULL
           /\ \/ Fail(t, "EmptyTrampoline")
              \/ Prepares(t, errors)
              \/ Refuses(t, errors)
    BY <1>6 DEF session_detour_trampoline
  <2>. HIDE DEF built, errors
  <2>. QED  BY <1>1, <1>2, <1>3, <2>1
<1>7. Effect /\ Idle(t)
  BY <1>4, <1>5, <1>6 DEF SessionCall
<1>. QED  BY <1>7 DEF Effect

(* Two functions change labels; the others extend the code or nothing.     *)
Extends(t) ==
    LET h == trampoline[t] IN
    \/ Inner!bytes(h) \/ Inner!preserved_call(h)
    \/ Inner!absolute_call(h) \/ Inner!absolute_jump(h)
    \/ \E destination \in Destinations : Inner!relative_jump(h, destination)
    \/ \E label \in {l \in 0 .. MaxLabels : lookup_label(h, l)} :
         Inner!jump_to(h, InnerLabel(h, label))
         \/ Inner!jump_if(h, InnerLabel(h, label))

NewLabel(t) ==
    LET h == trampoline[t]
        label == Len(inner_labels[h]) + 1
    IN /\ Inner!new_label(h)
       /\ label_table' = [label_table EXCEPT ![h] = Append(@, label)]
       /\ \/ UNCHANGED given
          \/ given' = [given EXCEPT ![h] = @ \cup
               {[number |-> next_number(h), label |-> label]}]

Binds(t) ==
    LET h == trampoline[t] IN
    \E label \in {l \in 0 .. MaxLabels : lookup_label(h, l)} :
        Inner!bind(h, InnerLabel(h, label))

LEMMA TrampolineCallEffect ==
    ASSUME NEW t, TrampolineCall(t) \/ module_query(t)
    PROVE  /\ Idle(t) /\ UNCHANGED <<handleVars, coreVars>>
           /\ \/ UNCHANGED <<labelVars, innerVars>> /\ \E e : Return(t, e)
              \/ /\ trampoline[t] # NULL
                 /\ \/ Extends(t) /\ UNCHANGED labelVars /\ Return(t, "Ok")
                    \/ Binds(t) /\ UNCHANGED labelVars /\ Return(t, "Ok")
                    \/ NewLabel(t) /\ \E e : Return(t, e)
<1>. DEFINE Effect ==
       /\ Idle(t) /\ UNCHANGED <<handleVars, coreVars>>
       /\ \/ UNCHANGED <<labelVars, innerVars>> /\ \E e : Return(t, e)
          \/ /\ trampoline[t] # NULL
             /\ \/ Extends(t) /\ UNCHANGED labelVars /\ Return(t, "Ok")
                \/ Binds(t) /\ UNCHANGED labelVars /\ Return(t, "Ok")
                \/ NewLabel(t) /\ \E e : Return(t, e)
<1>1. ASSUME NEW error, Idle(t), Fail(t, error)
      PROVE  Effect
  BY <1>1 DEF Fail
<1>2. ASSUME Invalid(t)
      PROVE  Effect
  BY <1>1, <1>2 DEF Invalid
<1>3. ASSUME Builds(t), UNCHANGED <<labelVars, innerVars>>
      PROVE  Effect
  BY <1>3 DEF Builds
<1>4. ASSUME Builds(t), Extends(t), UNCHANGED labelVars
      PROVE  Effect
  BY <1>4 DEF Builds
<1>5. ASSUME Builds(t), Binds(t), UNCHANGED labelVars
      PROVE  Effect
  BY <1>5 DEF Builds
<1>6. ASSUME trampoline_new_label(t)
      PROVE  Effect
  <2>1. CASE Invalid(t)
    BY <1>2, <2>1
  <2>2. CASE ~Invalid(t)
    <3>1. /\ Idle(t) /\ trampoline[t] # NULL
          /\ UNCHANGED <<handleVars, coreVars>>
      BY <1>6, <2>2 DEF trampoline_new_label
    <3>2. NewLabel(t) /\ \E e : Return(t, e)
      BY <1>6, <2>2 DEF trampoline_new_label, NewLabel
    <3>. QED  BY <3>1, <3>2
  <2>. QED  BY <2>1, <2>2
<1>. HIDE DEF Effect
<1>7. trampoline_length(t) => Effect
  BY <1>2, <1>3 DEF trampoline_length
<1>8. trampoline_append(t) => Effect
  BY <1>2, <1>4 DEF trampoline_append, Extends
<1>9. trampoline_preserved_call(t) => Effect
  BY <1>2, <1>4 DEF trampoline_preserved_call, Extends
<1>10. ASSUME trampoline_bind(t)
       PROVE  Effect
  <2>1. \/ Invalid(t)
        \/ Idle(t) /\ Fail(t, "LabelAlreadyBound")
        \/ Builds(t) /\ Binds(t) /\ UNCHANGED labelVars
    BY <1>10 DEF trampoline_bind, Binds
  <2>. QED  BY <1>1, <1>2, <1>5, <2>1
<1>11. ASSUME trampoline_jump(t)
       PROVE  Effect
  <2>1. \/ Invalid(t)
        \/ Builds(t) /\ Extends(t) /\ UNCHANGED labelVars
    BY <1>11 DEF trampoline_jump, Extends
  <2>. QED  BY <1>2, <1>4, <2>1
<1>12. module_query(t) => Effect
  BY <1>1 DEF module_query
<1>13. Effect
  BY <1>6, <1>7, <1>8, <1>9, <1>10, <1>11, <1>12 DEF TrampolineCall
<1>. QED  BY <1>13 DEF Effect

LEMMA InstallCallEffect ==
    ASSUME NEW t, InstallCall(t)
    PROVE  /\ UNCHANGED <<trampoline, labelVars, innerVars>>
           /\ \/ /\ Idle(t) /\ Return(t, "Invalid")
                 /\ UNCHANGED <<handleVars, coreVars>>
              \/ /\ Idle(t) /\ session[t] # NULL
                 /\ installing' = [installing EXCEPT ![t] = session[t]]
                 /\ session' = [session EXCEPT ![t] = NULL]
                 /\ Core!Call(session[t])
                 /\ set_last_error(t, "Ok")
                 /\ UNCHANGED <<box, status>>
              \/ /\ ~Idle(t)
                 /\ Core!Commit(installing[t]) \/ Core!Write(installing[t])
                 /\ UNCHANGED <<handleVars, answerVars>>
              \/ /\ ~Idle(t)
                 /\ Core!Refuse(installing[t]) \/ Core!Complete(installing[t])
                 /\ box' = [box EXCEPT ![installing[t]] = "freed"]
                 /\ installing' = [installing EXCEPT ![t] = NULL]
                 /\ Return(t, result'[installing[t]])
                 /\ UNCHANGED session
<1>1. CASE session_install_permanently(t)
  <2>1. CASE Invalid(t)
    BY <2>1, InvalidCall DEF handleVars
  <2>2. CASE ~Invalid(t)
    BY <1>1, <2>2 DEF session_install_permanently, take_session
  <2>. QED  BY <2>1, <2>2
<1>2. CASE InstallStep(t)
  BY <1>2 DEF InstallStep, handleVars
<1>3. CASE InstallReturn(t)
  BY <1>3 DEF InstallReturn
<1>. QED  BY <1>1, <1>2, <1>3 DEF InstallCall
-----------------------------------------------------------------------------
(* Handles.                                                                *)

LEMMA KeepsHandles ==
    ASSUME HandleInv, UNCHANGED <<handleVars, phase, result>>
    PROVE  HandleInv'
BY DEF HandleInv, HandleTypes, OwnerInv, PhaseInv, HeldSessionsAreOpen,
       handleVars, Refers, Idle

(* What a step of the core does to the phases of sessions. *)
LEMMA CorePhase ==
    ASSUME NEW s \in Sessions, DOMAIN phase = Sessions, DOMAIN result = Sessions,
           \/ Core!Prepare(s) \/ Core!Drop(s) \/ Core!Call(s) \/ Core!Refuse(s)
           \/ Core!Commit(s) \/ Core!Write(s) \/ Core!Complete(s)
    PROVE  /\ DOMAIN phase' = Sessions /\ DOMAIN result' = Sessions
           /\ \A h \in Sessions : h # s => phase'[h] = phase[h]
           /\ Core!Prepare(s) => phase' = phase /\ result' = result
BY DEF Core!Prepare, Core!Drop, Core!Call, Core!Refuse, Core!Commit,
       Core!Write, Core!Complete, Core!End

LEMMA CreateHandles ==
    ASSUME HandleInv, NEW t \in Threads,
           session_create(t) \/ trampoline_create(t)
    PROVE  HandleInv'
<1>1. phase' = phase /\ result' = result /\ installing' = installing
      /\ Idle(t)
  BY DEF session_create, trampoline_create, coreVars
<1>2. PICK h \in Handles, output_is_null \in BOOLEAN :
        /\ box[h] = "none"
        /\ new_box(t, h, output_is_null)
        /\ \/ /\ h \in Sessions /\ trampoline' = trampoline
              /\ session[t] = NULL
              /\ session' = IF output_is_null THEN session
                            ELSE [session EXCEPT ![t] = h]
           \/ /\ h \in Trampolines /\ session' = session
              /\ trampoline[t] = NULL
              /\ trampoline' = IF output_is_null THEN trampoline
                               ELSE [trampoline EXCEPT ![t] = h]
  BY DEF session_create, trampoline_create, Handles
<1>3. CASE output_is_null
  <2>1. UNCHANGED handleVars
    BY <1>1, <1>2, <1>3 DEF new_box, handleVars
  <2>. QED  BY <1>1, <2>1, KeepsHandles
<1>4. CASE ~output_is_null
  <2>1. /\ box' = [box EXCEPT ![h] = "live"]
        /\ box' \in [Handles -> Boxes]
        /\ \A g \in Handles : g # h => box'[g] = box[g]
        /\ box'[h] = "live"
    BY <1>2, <1>4 DEF new_box, HandleInv, HandleTypes, Boxes
  <2>2. HandleTypes'
    BY <1>1, <1>2, <1>4, <2>1 DEF HandleInv, HandleTypes
  <2>3. /\ \A u \in Threads, g \in Handles :
             Refers(u, g)' <=> Refers(u, g) \/ (u = t /\ g = h)
        /\ \A u \in Threads : ~Refers(u, h)
    <3>1. h # NULL
      BY HandleAssumption
    <3>2. \A u \in Threads : ~Refers(u, h)
      BY <1>2 DEF HandleInv, OwnerInv
    <3>3. CASE h \in Sessions /\ session' = [session EXCEPT ![t] = h]
               /\ session[t] = NULL /\ trampoline' = trampoline
      <4>1. \A u \in Threads :
              session'[u] = IF u = t THEN h ELSE session[u]
        BY <3>3 DEF HandleInv, HandleTypes
      <4>2. \A g \in Handles : session[t] # g
        BY <3>3, HandleAssumption
      <4>. QED  BY <1>1, <3>2, <3>3, <4>1, <4>2 DEF Refers
    <3>4. CASE h \in Trampolines /\ trampoline' = [trampoline EXCEPT ![t] = h]
               /\ trampoline[t] = NULL /\ session' = session
      <4>1. \A u \in Threads :
              trampoline'[u] = IF u = t THEN h ELSE trampoline[u]
        BY <3>4 DEF HandleInv, HandleTypes
      <4>2. \A g \in Handles : trampoline[t] # g
        BY <3>4, HandleAssumption
      <4>. QED  BY <1>1, <3>2, <3>4, <4>1, <4>2 DEF Refers
    <3>. QED  BY <1>2, <1>4, <3>3, <3>4
  <2>4. OwnerInv'
    <3>1. \A g \in Handles :
            box'[g] = "live" <=> \E u \in Threads : Refers(u, g)'
      BY <2>1, <2>3 DEF HandleInv, OwnerInv
    <3>2. \A g \in Handles, u, v \in Threads :
            Refers(u, g)' /\ Refers(v, g)' => u = v
      BY <2>3 DEF HandleInv, OwnerInv
    <3>3. \A u \in Threads : ~Idle(u)' => session'[u] = NULL
      BY <1>1, <1>2 DEF HandleInv, HandleTypes, OwnerInv, Idle
    <3>. QED  BY <3>1, <3>2, <3>3 DEF OwnerInv
  <2>5. PhaseInv'
    <3>1. \A u \in Threads : session'[u] # NULL => phase[session'[u]] = "open"
      <4>1. \A u \in Threads :
              \/ session'[u] = session[u]
              \/ h \in Sessions /\ session'[u] = h
        BY <1>2, <1>4 DEF HandleInv, HandleTypes
      <4>2. h \in Sessions => phase[h] = "open"
        BY <1>2 DEF HandleInv, PhaseInv
      <4>. QED  BY <4>1, <4>2 DEF HandleInv, PhaseInv, HeldSessionsAreOpen
    <3>2. \A g \in Sessions : box'[g] = "none" => phase[g] = "open"
      BY <2>1 DEF HandleInv, PhaseInv, Handles
    <3>. QED  BY <1>1, <3>1, <3>2 DEF HandleInv, PhaseInv, HeldSessionsAreOpen
  <2>. QED  BY <2>2, <2>4, <2>5 DEF HandleInv
<1>. QED  BY <1>2, <1>3, <1>4

(* One thread gives up its handle, which is freed. *)
LEMMA FreesHandle ==
    ASSUME HandleInv, NEW t \in Threads, NEW h \in Handles, Refers(t, h),
           box' = [box EXCEPT ![h] = "freed"],
           HandleTypes', DOMAIN phase' = Sessions, DOMAIN result' = Sessions,
           \A g \in Sessions : g # h => phase'[g] = phase[g],
           \A u \in Threads : session'[u] \in {session[u], NULL},
           \A u \in Threads : ~Idle(u)' => ~Idle(u),
           \A u \in Threads, g \in Handles :
               Refers(u, g)' <=> Refers(u, g) /\ g # h
    PROVE  HandleInv'
<1>1. /\ \A g \in Handles : g # h => box'[g] = box[g]
      /\ box'[h] = "freed"
  BY DEF HandleInv, HandleTypes
<1>2. OwnerInv'
  <2>1. \A g \in Handles : box'[g] = "live" <=> \E u \in Threads : Refers(u, g)'
    <3>. SUFFICES ASSUME NEW g \in Handles
         PROVE  box'[g] = "live" <=> \E u \in Threads : Refers(u, g)'
      OBVIOUS
    <3>1. CASE g = h
      BY <1>1, <3>1
    <3>2. CASE g # h
      BY <1>1, <3>2 DEF HandleInv, OwnerInv
    <3>. QED  BY <3>1, <3>2
  <2>2. \A g \in Handles, u, v \in Threads :
          Refers(u, g)' /\ Refers(v, g)' => u = v
    BY DEF HandleInv, OwnerInv
  <2>3. \A u \in Threads : ~Idle(u)' => session'[u] = NULL
    BY DEF HandleInv, OwnerInv
  <2>. QED  BY <2>1, <2>2, <2>3 DEF OwnerInv
<1>3. PhaseInv'
  <2>1. ASSUME NEW u \in Threads, session'[u] # NULL
        PROVE  phase'[session'[u]] = "open"
    <3>1. session'[u] = session[u] /\ session[u] \in Sessions
      BY <2>1 DEF HandleInv, HandleTypes
    <3>2. Refers(u, session[u])'
      BY <3>1 DEF Refers
    <3>3. session[u] # h
      BY <3>1, <3>2 DEF Handles
    <3>. QED  BY <2>1, <3>1, <3>3
           DEF HandleInv, PhaseInv, HeldSessionsAreOpen
  <2>2. \A g \in Sessions : box'[g] = "none" => phase'[g] = "open"
    BY <1>1 DEF HandleInv, PhaseInv, Handles
  <2>. QED  BY <2>1, <2>2 DEF PhaseInv, HeldSessionsAreOpen
<1>. QED  BY <1>2, <1>3 DEF HandleInv

LEMMA DestroyHandles ==
    ASSUME HandleInv, NEW t \in Threads,
           session_destroy(t) \/ trampoline_destroy(t)
    PROVE  HandleInv'
<1>1. installing' = installing /\ Idle(t)
  BY DEF session_destroy, trampoline_destroy
<1>2. CASE UNCHANGED <<session, trampoline, box, phase, result>>
  BY <1>1, <1>2, KeepsHandles DEF handleVars
<1>3. CASE /\ session[t] # NULL
           /\ box' = [box EXCEPT ![session[t]] = "freed"]
           /\ Core!Drop(session[t])
           /\ session' = [session EXCEPT ![t] = NULL]
           /\ trampoline' = trampoline
  <2>. DEFINE h == session[t]
  <2>1. h \in Sessions /\ h \in Handles /\ Refers(t, h)
    BY <1>3 DEF HandleInv, HandleTypes, Handles, Refers
  <2>2. HandleTypes'
    BY <1>1, <1>3 DEF HandleInv, HandleTypes, Boxes
  <2>3. /\ DOMAIN phase' = Sessions /\ DOMAIN result' = Sessions
        /\ \A g \in Sessions : g # h => phase'[g] = phase[g]
    BY <1>3, <2>1, CorePhase DEF HandleInv, PhaseInv
  <2>4. \A u \in Threads : session'[u] = IF u = t THEN NULL ELSE session[u]
    BY <1>3 DEF HandleInv, HandleTypes
  <2>5. \A u \in Threads, g \in Handles :
          Refers(u, g)' <=> Refers(u, g) /\ g # h
    <3>. SUFFICES ASSUME NEW u \in Threads, NEW g \in Handles
         PROVE  Refers(u, g)' <=> Refers(u, g) /\ g # h
      OBVIOUS
    <3>1. /\ Refers(t, h) /\ g # NULL
          /\ trampoline[u] # h
          /\ installing[u] # NULL => u # t
          /\ (Refers(u, h) => u = t)
          /\ Refers(u, g)' <=> session'[u] = g \/ trampoline[u] = g
                                \/ installing[u] = g
      BY <1>1, <1>3, <2>1, HandleAssumption
         DEF HandleInv, HandleTypes, OwnerInv, Refers, Idle
    <3>. QED  BY <2>1, <2>4, <3>1, HandleAssumption DEF Refers
  <2>6. /\ \A u \in Threads : session'[u] \in {session[u], NULL}
        /\ \A u \in Threads : ~Idle(u)' => ~Idle(u)
        /\ box' = [box EXCEPT ![h] = "freed"]
    BY <1>1, <1>3, <2>4 DEF Idle
  <2>. HIDE DEF h
  <2>. QED  BY <2>1, <2>2, <2>3, <2>5, <2>6, FreesHandle
<1>4. CASE /\ trampoline[t] # NULL
           /\ box' = [box EXCEPT ![trampoline[t]] = "freed"]
           /\ trampoline' = [trampoline EXCEPT ![t] = NULL]
           /\ session' = session /\ phase' = phase /\ result' = result
  <2>. DEFINE h == trampoline[t]
  <2>1. h \in Trampolines /\ h \in Handles /\ Refers(t, h)
    BY <1>4 DEF HandleInv, HandleTypes, Handles, Refers
  <2>2. HandleTypes'
    BY <1>1, <1>4 DEF HandleInv, HandleTypes, Boxes
  <2>4. \A u \in Threads :
          trampoline'[u] = IF u = t THEN NULL ELSE trampoline[u]
    BY <1>4 DEF HandleInv, HandleTypes
  <2>5. \A u \in Threads, g \in Handles :
          Refers(u, g)' <=> Refers(u, g) /\ g # h
    <3>. SUFFICES ASSUME NEW u \in Threads, NEW g \in Handles
         PROVE  Refers(u, g)' <=> Refers(u, g) /\ g # h
      OBVIOUS
    <3>1. /\ g # NULL /\ session[u] # h /\ installing[u] # h
          /\ (Refers(u, h) => u = t)
          /\ Refers(u, g)' <=> session[u] = g \/ trampoline'[u] = g
                                \/ installing[u] = g
      BY <1>1, <1>4, <2>1, HandleAssumption
         DEF HandleInv, HandleTypes, OwnerInv, Refers, Handles
    <3>. QED  BY <2>1, <2>4, <3>1 DEF Refers
  <2>6. DOMAIN phase' = Sessions /\ DOMAIN result' = Sessions
    BY <1>4 DEF HandleInv, PhaseInv
  <2>. HIDE DEF h
  <2>. QED  BY <1>1, <1>4, <2>1, <2>2, <2>5, <2>6, FreesHandle DEF h, Idle
<1>. QED  BY <1>2, <1>3, <1>4 DEF session_destroy, trampoline_destroy, coreVars

(* A session changes hands: from the caller's variable to another's, or    *)
(* into an installation.                                                   *)
LEMMA HandOverHandles ==
    ASSUME HandleInv, NEW t \in Threads, NEW u \in Threads, HandOver(t, u)
    PROVE  HandleInv'
<1>1. /\ Idle(t) /\ Idle(u) /\ t # u
      /\ session[t] # NULL /\ session[u] = NULL
      /\ session' = [session EXCEPT ![t] = NULL, ![u] = session[t]]
      /\ UNCHANGED <<trampoline, box, installing, phase, result>>
  BY DEF HandOver, coreVars
<1>2. \A v \in Threads : session'[v] = IF v = t THEN NULL
                                       ELSE IF v = u THEN session[t]
                                       ELSE session[v]
  BY <1>1 DEF HandleInv, HandleTypes
<1>3. HandleTypes'
  BY <1>1 DEF HandleInv, HandleTypes
<1>4. \A v \in Threads, g \in Handles :
        Refers(v, g)' <=>
          IF session[t] = g THEN v = u ELSE Refers(v, g)
  <2>. SUFFICES ASSUME NEW v \in Threads, NEW g \in Handles
       PROVE  Refers(v, g)' <=> IF session[t] = g THEN v = u ELSE Refers(v, g)
    OBVIOUS
  <2>1. g # NULL
    BY HandleAssumption
  <2>2. CASE session[t] = g
    <3>1. Refers(t, g) /\ (Refers(v, g) => v = t)
      BY <2>2 DEF HandleInv, OwnerInv, Refers
    <3>2. trampoline[t] # g /\ installing[t] # g
      BY <1>1, <2>1, <2>2, HandleAssumption DEF HandleInv, HandleTypes, Idle
    <3>. QED  BY <1>1, <1>2, <2>1, <2>2, <3>1, <3>2 DEF Refers
  <2>3. CASE session[t] # g
    BY <1>1, <1>2, <2>1, <2>3 DEF Refers
  <2>. QED  BY <2>2, <2>3
<1>5. OwnerInv'
  <2>1. \A g \in Handles : box'[g] = "live" <=> \E v \in Threads : Refers(v, g)'
    <3>1. \A g \in Handles : session[t] = g => Refers(t, g)
      BY DEF Refers
    <3>. QED  BY <1>1, <1>4, <3>1 DEF HandleInv, OwnerInv
  <2>2. \A g \in Handles, v, w \in Threads :
          Refers(v, g)' /\ Refers(w, g)' => v = w
    BY <1>4 DEF HandleInv, OwnerInv
  <2>3. \A v \in Threads : ~Idle(v)' => session'[v] = NULL
    BY <1>1, <1>2 DEF HandleInv, OwnerInv, Idle
  <2>. QED  BY <2>1, <2>2, <2>3 DEF OwnerInv
<1>6. PhaseInv'
  <2>1. ASSUME NEW v \in Threads, session'[v] # NULL
        PROVE  phase[session'[v]] = "open"
    <3>1. PICK w \in Threads : session'[v] = session[w]
      BY <1>2, <2>1
    <3>. QED  BY <2>1, <3>1 DEF HandleInv, PhaseInv, HeldSessionsAreOpen
  <2>. QED  BY <1>1, <2>1 DEF HandleInv, PhaseInv, HeldSessionsAreOpen
<1>. QED  BY <1>3, <1>5, <1>6 DEF HandleInv

LEMMA TakeHandles ==
    ASSUME HandleInv, NEW t \in Threads, Idle(t), session[t] # NULL,
           installing' = [installing EXCEPT ![t] = session[t]],
           session' = [session EXCEPT ![t] = NULL],
           Core!Call(session[t]), UNCHANGED <<trampoline, box>>
    PROVE  HandleInv'
<1>. DEFINE h == session[t]
<1>1. h \in Sessions /\ h \in Handles /\ Refers(t, h) /\ h # NULL
  BY HandleAssumption DEF HandleInv, HandleTypes, Handles, Refers
<1>2. /\ \A v \in Threads : session'[v] = IF v = t THEN NULL ELSE session[v]
      /\ \A v \in Threads : installing'[v] = IF v = t THEN h ELSE installing[v]
  BY DEF HandleInv, HandleTypes
<1>3. HandleTypes'
  BY DEF HandleInv, HandleTypes
<1>4. \A v \in Threads, g \in Handles : Refers(v, g)' <=> Refers(v, g)
  <2>. SUFFICES ASSUME NEW v \in Threads, NEW g \in Handles
       PROVE  Refers(v, g)' <=> Refers(v, g)
    OBVIOUS
  <2>1. g # NULL /\ installing[t] = NULL
    BY HandleAssumption DEF Idle
  <2>. QED  BY <1>2, <2>1 DEF Refers
<1>5. OwnerInv'
  BY <1>2, <1>4 DEF HandleInv, OwnerInv, Idle
<1>6. PhaseInv'
  <2>1. /\ DOMAIN phase' = Sessions /\ DOMAIN result' = Sessions
        /\ \A g \in Sessions : g # h => phase'[g] = phase[g]
    BY <1>1, CorePhase DEF HandleInv, PhaseInv
  <2>2. ASSUME NEW v \in Threads, session'[v] # NULL
        PROVE  phase'[session'[v]] = "open"
    <3>1. v # t /\ session'[v] = session[v] /\ session[v] \in Sessions
      BY <1>2, <2>2 DEF HandleInv, HandleTypes
    <3>2. session[v] # h
      <4>1. Refers(v, session[v])
        BY DEF Refers
      <4>. QED  BY <1>1, <3>1, <4>1 DEF HandleInv, OwnerInv
    <3>. QED  BY <2>1, <2>2, <3>1, <3>2
           DEF HandleInv, PhaseInv, HeldSessionsAreOpen
  <2>3. \A g \in Sessions : box'[g] = "none" => phase'[g] = "open"
    <3>1. box[h] = "live"
      BY <1>1 DEF HandleInv, OwnerInv
    <3>. QED  BY <2>1, <3>1 DEF HandleInv, PhaseInv
  <2>. QED  BY <2>1, <2>2, <2>3 DEF PhaseInv, HeldSessionsAreOpen
<1>. QED  BY <1>3, <1>5, <1>6 DEF HandleInv

(* The session of a running installation is no caller's. *)
LEMMA InstallingApart ==
    ASSUME HandleInv, NEW t \in Threads, ~Idle(t)
    PROVE  LET h == installing[t] IN
           /\ h \in Sessions /\ h \in Handles /\ Refers(t, h)
           /\ box[h] = "live"
           /\ \A u \in Threads : session[u] # h /\ trampoline[u] # h
           /\ \A u \in Threads : installing[u] = h => u = t
<1>. DEFINE h == installing[t]
<1>1. h \in Sessions /\ h \in Handles /\ Refers(t, h) /\ session[t] = NULL
  BY DEF HandleInv, HandleTypes, OwnerInv, Handles, Refers, Idle
<1>2. h # NULL /\ \A u \in Threads : trampoline[u] # h
  BY <1>1, HandleAssumption DEF HandleInv, HandleTypes
<1>3. \A u \in Threads : Refers(u, h) => u = t
  BY <1>1 DEF HandleInv, OwnerInv
<1>4. box[h] = "live"
  BY <1>1 DEF HandleInv, OwnerInv
<1>. QED  BY <1>1, <1>2, <1>3, <1>4 DEF Refers

LEMMA InstallHandles ==
    ASSUME HandleInv, NEW t \in Threads, InstallCall(t)
    PROVE  HandleInv'
<1>1. CASE UNCHANGED <<handleVars, coreVars>>
  BY <1>1, KeepsHandles DEF coreVars
<1>2. CASE /\ Idle(t) /\ session[t] # NULL
           /\ installing' = [installing EXCEPT ![t] = session[t]]
           /\ session' = [session EXCEPT ![t] = NULL]
           /\ Core!Call(session[t])
           /\ UNCHANGED <<box, trampoline>>
  BY <1>2, TakeHandles
<1>3. CASE /\ ~Idle(t)
           /\ Core!Commit(installing[t]) \/ Core!Write(installing[t])
           /\ UNCHANGED handleVars
  <2>. DEFINE h == installing[t]
  <2>1. /\ h \in Sessions /\ box[h] = "live"
        /\ \A u \in Threads : session[u] # h
    BY <1>3, InstallingApart
  <2>2. /\ DOMAIN phase' = Sessions /\ DOMAIN result' = Sessions
        /\ \A g \in Sessions : g # h => phase'[g] = phase[g]
    BY <1>3, <2>1, CorePhase DEF HandleInv, PhaseInv
  <2>3. PhaseInv'
    BY <1>3, <2>1, <2>2 DEF HandleInv, HandleTypes, PhaseInv,
       HeldSessionsAreOpen, handleVars
  <2>4. HandleTypes' /\ OwnerInv'
    BY <1>3 DEF HandleInv, HandleTypes, OwnerInv, Refers, Idle, handleVars
  <2>. QED  BY <2>3, <2>4 DEF HandleInv
<1>4. CASE /\ ~Idle(t)
           /\ Core!Refuse(installing[t]) \/ Core!Complete(installing[t])
           /\ box' = [box EXCEPT ![installing[t]] = "freed"]
           /\ installing' = [installing EXCEPT ![t] = NULL]
           /\ UNCHANGED <<session, trampoline>>
  <2>. DEFINE h == installing[t]
  <2>1. /\ h \in Sessions /\ h \in Handles /\ Refers(t, h)
        /\ \A u \in Threads : session[u] # h /\ trampoline[u] # h
        /\ \A u \in Threads : installing[u] = h => u = t
    BY <1>4, InstallingApart
  <2>2. /\ DOMAIN phase' = Sessions /\ DOMAIN result' = Sessions
        /\ \A g \in Sessions : g # h => phase'[g] = phase[g]
    BY <1>4, <2>1, CorePhase DEF HandleInv, PhaseInv
  <2>3. HandleTypes'
    BY <1>4 DEF HandleInv, HandleTypes, Boxes
  <2>4. \A u \in Threads :
          installing'[u] = IF u = t THEN NULL ELSE installing[u]
    BY <1>4 DEF HandleInv, HandleTypes
  <2>5. \A u \in Threads, g \in Handles :
          Refers(u, g)' <=> Refers(u, g) /\ g # h
    BY <1>4, <2>1, <2>4, HandleAssumption DEF Refers
  <2>6. /\ \A u \in Threads : session'[u] \in {session[u], NULL}
        /\ \A u \in Threads : ~Idle(u)' => ~Idle(u)
        /\ box' = [box EXCEPT ![h] = "freed"]
    BY <1>4, <2>4 DEF Idle
  <2>. HIDE DEF h
  <2>. QED  BY <2>1, <2>2, <2>3, <2>5, <2>6, FreesHandle
<1>. QED  BY <1>1, <1>2, <1>3, <1>4, InstallCallEffect

LEMMA HandlesStep ==
    ASSUME HandleInv, Next
    PROVE  HandleInv'
<1>1. ASSUME NEW t \in Threads, SessionCall(t)
      PROVE  HandleInv'
  <2>1. UNCHANGED handleVars
    BY <1>1, SessionCallEffect
  <2>2. phase' = phase /\ result' = result
    <3>1. CASE UNCHANGED coreVars
      BY <3>1 DEF coreVars
    <3>2. CASE session[t] # NULL /\ Core!Prepare(session[t])
      <4>1. session[t] \in Sessions
        BY <3>2 DEF HandleInv, HandleTypes
      <4>. QED  BY <3>2, <4>1, CorePhase DEF HandleInv, PhaseInv
    <3>. QED  BY <1>1, <3>1, <3>2, SessionCallEffect
  <2>. QED  BY <2>1, <2>2, KeepsHandles
<1>2. ASSUME NEW t \in Threads, TrampolineCall(t) \/ module_query(t)
      PROVE  HandleInv'
  <2>1. UNCHANGED <<handleVars, coreVars>>
    BY <1>2, TrampolineCallEffect
  <2>. QED  BY <2>1, KeepsHandles DEF coreVars
<1>. QED  BY <1>1, <1>2, Steps, CreateHandles, DestroyHandles, InstallHandles,
             HandOverHandles DEF HandleCall
-----------------------------------------------------------------------------
(* Statuses and messages.                                                  *)

LEMMA Returned ==
    ASSUME AnswerInv, NEW t \in Threads, NEW error, Return(t, error),
           \A u \in Threads : u # t => (Idle(u)' => Idle(u))
    PROVE  AnswerInv' /\ status'[t] = status_of(error)
<1>1. /\ DOMAIN status' = Threads /\ DOMAIN last_error' = Threads
      /\ status'[t] = status_of(error) /\ last_error'[t] = error
      /\ \A u \in Threads : u # t =>
           status'[u] = status[u] /\ last_error'[u] = last_error[u]
  BY DEF Return, set_last_error, AnswerInv
<1>2. \A u \in Threads : Idle(u)' => status_of(last_error'[u]) = status'[u]
  BY <1>1 DEF AnswerInv, MessageMatchesStatus
<1>. QED  BY <1>1, <1>2 DEF AnswerInv, MessageMatchesStatus, status_of

LEMMA AnswersStep ==
    ASSUME HandleInv, AnswerInv, Next
    PROVE  AnswerInv'
<1>1. ASSUME NEW t \in Threads, NEW error, Return(t, error),
             installing' = installing
      PROVE  AnswerInv'
  BY <1>1, Returned DEF Idle
<1>2. ASSUME UNCHANGED <<installing, answerVars>>
      PROVE  AnswerInv'
  BY <1>2 DEF AnswerInv, MessageMatchesStatus, Idle, answerVars, status_of
<1>3. ASSUME NEW t \in Threads, SessionCall(t)
      PROVE  AnswerInv'
  BY <1>1, <1>3, SessionCallEffect DEF handleVars
<1>4. ASSUME NEW t \in Threads, TrampolineCall(t) \/ module_query(t)
      PROVE  AnswerInv'
  BY <1>1, <1>4, TrampolineCallEffect DEF handleVars
<1>5. ASSUME NEW t \in Threads, HandleCall(t)
      PROVE  AnswerInv'
  <2>1. installing' = installing /\ \E error : Return(t, error)
    BY <1>5 DEF HandleCall, session_create, trampoline_create, new_box,
       session_destroy, trampoline_destroy
  <2>. QED  BY <1>1, <2>1
<1>6. ASSUME NEW t \in Threads, NEW u \in Threads, HandOver(t, u)
      PROVE  AnswerInv'
  BY <1>2, <1>6 DEF HandOver
<1>7. ASSUME NEW t \in Threads, InstallCall(t)
      PROVE  AnswerInv'
  <2>1. CASE Return(t, "Invalid") /\ UNCHANGED handleVars
    BY <1>1, <2>1 DEF handleVars
  <2>2. CASE /\ session[t] # NULL
             /\ installing' = [installing EXCEPT ![t] = session[t]]
             /\ set_last_error(t, "Ok") /\ status' = status
    <3>1. /\ DOMAIN last_error' = Threads
          /\ \A u \in Threads : u # t => /\ last_error'[u] = last_error[u]
                                         /\ installing'[u] = installing[u]
          /\ installing'[t] # NULL
      BY <2>2 DEF set_last_error, AnswerInv, HandleInv, HandleTypes
    <3>2. \A u \in Threads : Idle(u)' => status_of(last_error'[u]) = status'[u]
      BY <2>2, <3>1 DEF AnswerInv, MessageMatchesStatus, Idle
    <3>. QED  BY <2>2, <3>1, <3>2 DEF AnswerInv, MessageMatchesStatus, status_of
  <2>3. CASE UNCHANGED <<handleVars, answerVars>>
    BY <1>2, <2>3 DEF handleVars
  <2>4. CASE /\ installing' = [installing EXCEPT ![t] = NULL]
             /\ Return(t, result'[installing[t]])
    <3>1. \A u \in Threads : u # t => (Idle(u)' => Idle(u))
      BY <2>4 DEF Idle, HandleInv, HandleTypes
    <3>. QED  BY <2>4, <3>1, Returned
  <2>. QED  BY <1>7, <2>1, <2>2, <2>3, <2>4, InstallCallEffect
<1>. QED  BY <1>3, <1>4, <1>5, <1>6, <1>7, Steps
-----------------------------------------------------------------------------
(* Labels, and the trampolines behind the handles.                         *)

LEMMA BuildingAssumptions ==
    /\ Building!UsizeMaxAssumption
    /\ Building!RelativeJumpAssumption
    /\ Building!TrampolineAssumption
BY UsizeMaxAssumption, RelativeJumpAssumption, BuilderAssumption
   DEF Building!UsizeMaxAssumption, Building!RelativeJumpAssumption,
       Building!TrampolineAssumption, Building!Address, Address,
       Building!I32Min, I32Min

LEMMA LabelShapes ==
    ASSUME LabelInv, Building!IInv, NEW h \in Trampolines
    PROVE  /\ inner_labels[h] \in Seq(Nat \cup {None})
           /\ label_table[h] \in Seq(Nat)
           /\ Len(label_table[h]) = Len(inner_labels[h])
           /\ Len(inner_labels[h]) \in 0 .. MaxLabels
           /\ DOMAIN label_table[h] = DOMAIN inner_labels[h]
<1>1. inner_labels \in [Trampolines -> Seq(Nat \cup {None})]
  BY DEF Building!IInv, Building!TypeOK, Building!None, None
<1>. QED  BY <1>1, BuilderAssumption DEF LabelInv

(* Every label a caller can name is one of its own trampoline. *)
LEMMA LooksUpOwnLabel ==
    ASSUME LabelInv, Building!IInv, NEW h \in Trampolines,
           NEW number \in Nat, lookup_label(h, number)
    PROVE  LET label == InnerLabel(h, number) IN
           /\ label \in Building!Label
           /\ Building!Usable(label, h)
<1>1. number + 1 \in DOMAIN label_table[h]
  BY DEF lookup_label
<1>2. label_table[h][number + 1] = number + 1
  BY <1>1 DEF LabelInv
<1>3. number + 1 \in 1 .. MaxLabels /\ number + 1 \in DOMAIN inner_labels[h]
  <2>1. /\ Len(inner_labels[h]) \in 0 .. MaxLabels
        /\ DOMAIN label_table[h] = DOMAIN inner_labels[h]
        /\ DOMAIN inner_labels[h] = 1 .. Len(inner_labels[h])
    BY LabelShapes
  <2>. QED  BY <1>1, <2>1, BuilderAssumption
<1>. QED  BY <1>2, <1>3 DEF InnerLabel, Building!Label, Building!Usable

LEMMA ExtendsBuilds ==
    ASSUME LabelInv, Building!IInv, NEW t \in Threads,
           trampoline[t] \in Trampolines, Extends(t)
    PROVE  Building!Next /\ inner_labels' = inner_labels
<1>. DEFINE h == trampoline[t]
<1>1. CASE \/ Inner!bytes(h) \/ Inner!preserved_call(h)
           \/ Inner!absolute_call(h) \/ Inner!absolute_jump(h)
  <2>1. \/ Building!bytes(h) \/ Building!preserved_call(h)
        \/ Building!absolute_call(h) \/ Building!absolute_jump(h)
    BY <1>1 DEF Inner!bytes, Inner!preserved_call, Inner!absolute_call,
       Inner!absolute_jump, Inner!Extend, Inner!Data, Building!bytes,
       Building!preserved_call, Building!absolute_call,
       Building!absolute_jump, Building!Extend, Building!Data
  <2>2. inner_labels' = inner_labels
    BY <1>1 DEF Inner!bytes, Inner!preserved_call, Inner!absolute_call,
       Inner!absolute_jump, Inner!Extend
  <2>. QED  BY <2>1, <2>2 DEF Building!Next
<1>2. ASSUME NEW n, NEW target, NEW meant,
             Inner!push_branch(h, n, target, meant)
      PROVE  /\ Building!push_branch(h, n, target, meant)
             /\ inner_labels' = inner_labels
  BY <1>2 DEF Inner!push_branch, Building!push_branch, Inner!Opcode,
     Building!Opcode, Inner!Encoding, Building!Encoding, Inner!fixup,
     Building!fixup
<1>3. CASE \E destination \in Destinations : Inner!relative_jump(h, destination)
  <2>1. PICK destination \in Destinations : Inner!relative_jump(h, destination)
    BY <1>3
  <2>2. Building!relative_jump(h, destination) /\ inner_labels' = inner_labels
    BY <1>2, <2>1 DEF Inner!relative_jump, Building!relative_jump,
       Inner!ToAddress, Building!ToAddress
  <2>. QED  BY <2>2 DEF Building!Next
<1>4. CASE \E label \in {l \in 0 .. MaxLabels : lookup_label(h, l)} :
             \/ Inner!jump_to(h, InnerLabel(h, label))
             \/ Inner!jump_if(h, InnerLabel(h, label))
  <2>1. PICK number \in {l \in 0 .. MaxLabels : lookup_label(h, l)} :
             \/ Inner!jump_to(h, InnerLabel(h, number))
             \/ Inner!jump_if(h, InnerLabel(h, number))
    BY <1>4
  <2>. DEFINE label == InnerLabel(h, number)
  <2>2. label \in Building!Label /\ Building!Usable(label, h)
    BY <2>1, BuilderAssumption, LooksUpOwnLabel
  <2>. HIDE DEF label
  <2>3. /\ Building!jump_to(h, label) \/ Building!jump_if(h, label)
        /\ inner_labels' = inner_labels
    BY <1>2, <2>1 DEF Inner!jump_to, Inner!jump_if, Building!jump_to,
       Building!jump_if, Inner!ToLabel, Building!ToLabel, label
  <2>. QED  BY <2>2, <2>3 DEF Building!Next
<1>. QED  BY <1>1, <1>3, <1>4 DEF Extends

LEMMA BindsBuilds ==
    ASSUME LabelInv, Building!IInv, NEW t \in Threads,
           trampoline[t] \in Trampolines, Binds(t)
    PROVE  /\ Building!Next
           /\ \A h \in Trampolines : Len(inner_labels'[h]) = Len(inner_labels[h])
<1>. DEFINE h == trampoline[t]
<1>1. PICK number \in {l \in 0 .. MaxLabels : lookup_label(h, l)} :
        Inner!bind(h, InnerLabel(h, number))
  BY DEF Binds
<1>. DEFINE label == InnerLabel(h, number)
<1>2. label \in Building!Label /\ Building!Usable(label, h)
  BY <1>1, BuilderAssumption, LooksUpOwnLabel
<1>. HIDE DEF label
<1>3. Building!bind(h, label)
  BY <1>1 DEF Inner!bind, Building!bind, Inner!None, Building!None, label
<1>4. Building!Next
  BY <1>2, <1>3 DEF Building!Next
<1>5. \A g \in Trampolines : Len(inner_labels'[g]) = Len(inner_labels[g])
  <2>. SUFFICES ASSUME NEW g \in Trampolines
       PROVE  Len(inner_labels'[g]) = Len(inner_labels[g])
    OBVIOUS
  <2>1. inner_labels' =
          [inner_labels EXCEPT ![h] =
             [inner_labels[h] EXCEPT ![label.index] = Len(code[h])]]
    BY <1>3 DEF Building!bind
  <2>2. inner_labels \in [Trampolines -> Seq(Nat \cup {None})]
    BY DEF Building!IInv, Building!TypeOK, Building!None, None
  <2>3. CASE g # h
    BY <2>1, <2>2, <2>3
  <2>4. CASE g = h
    <3>1. inner_labels'[g] =
            [inner_labels[g] EXCEPT ![label.index] = Len(code[h])]
      BY <2>1, <2>2, <2>4
    <3>2. inner_labels[g] \in Seq(Nat \cup {None})
      BY <2>2
    <3>3. Len(code[h]) \in Nat
      BY DEF Building!IInv, Building!TypeOK
    <3>. QED  BY <3>1, <3>2, <3>3
  <2>. QED  BY <2>3, <2>4
<1>. QED  BY <1>4, <1>5

LEMMA NewLabelBuilds ==
    ASSUME LabelInv, Building!IInv, NEW t \in Threads,
           trampoline[t] \in Trampolines, NewLabel(t)
    PROVE  Building!Next /\ LabelInv'
<1>. DEFINE h == trampoline[t]
            n == Len(inner_labels[h])
<1>1. /\ n < MaxLabels
      /\ inner_labels' = [inner_labels EXCEPT ![h] = Append(@, None)]
      /\ label_table' = [label_table EXCEPT ![h] = Append(@, n + 1)]
      /\ \/ given' = given
         \/ given' = [given EXCEPT ![h] = @ \cup
              {[number |-> n, label |-> n + 1]}]
  BY DEF NewLabel, Inner!new_label, Inner!None, None, next_number, LabelInv
<1>2. Building!Next
  <2>1. Building!new_label(h)
    BY DEF NewLabel, Inner!new_label, Building!new_label, Inner!None,
       Building!None
  <2>. QED  BY <2>1 DEF Building!Next
<1>3. /\ inner_labels[h] \in Seq(Nat \cup {None}) /\ label_table[h] \in Seq(Nat)
      /\ Len(label_table[h]) = n /\ n \in Nat /\ MaxLabels \in Nat
  BY LabelShapes, BuilderAssumption
<1>4. /\ inner_labels \in [Trampolines -> Seq(Nat \cup {None})]
      /\ label_table \in [Trampolines -> Seq(Nat)]
      /\ given \in [Trampolines -> SUBSET GivenLabel]
  BY DEF LabelInv, Building!IInv, Building!TypeOK, Building!None, None
<1>5. /\ inner_labels'[h] = Append(inner_labels[h], None)
      /\ label_table'[h] = Append(label_table[h], n + 1)
      /\ \A g \in Trampolines : g # h =>
           /\ inner_labels'[g] = inner_labels[g]
           /\ label_table'[g] = label_table[g]
           /\ given'[g] = given[g]
      /\ given'[h] \subseteq given[h] \cup {[number |-> n, label |-> n + 1]}
  BY <1>1, <1>4
<1>11. h \in Trampolines
  OBVIOUS
<1>. HIDE DEF h, n
<1>6. /\ Len(inner_labels'[h]) = n + 1 /\ Len(label_table'[h]) = n + 1
      /\ DOMAIN label_table'[h] = 1 .. n + 1
      /\ label_table'[h][n + 1] = n + 1
      /\ DOMAIN label_table[h] = 1 .. n
      /\ \A i \in 1 .. n : label_table'[h][i] = label_table[h][i]
  BY <1>3, <1>5 DEF n
<1>7. label_table' \in [Trampolines -> Seq(Nat)]
  <2>1. Append(label_table[h], n + 1) \in Seq(Nat)
    BY <1>3
  <2>. QED  BY <1>1, <1>4, <1>11, <2>1
<1>8. given' \in [Trampolines -> SUBSET GivenLabel]
  <2>1. [number |-> n, label |-> n + 1] \in GivenLabel
    BY <1>3 DEF GivenLabel
  <2>. HIDE DEF GivenLabel
  <2>2. given[h] \cup {[number |-> n, label |-> n + 1]} \in SUBSET GivenLabel
    BY <1>4, <1>11, <2>1
  <2>3. CASE given' = given
    BY <1>4, <2>3
  <2>4. CASE given' = [given EXCEPT ![h] = @ \cup
               {[number |-> n, label |-> n + 1]}]
    BY <1>4, <1>11, <2>2, <2>4
  <2>. QED  BY <1>1, <2>3, <2>4
<1>9. NumbersNameTheirLabels'
  <2>. SUFFICES ASSUME NEW g \in Trampolines, NEW x \in given'[g]
       PROVE  /\ lookup_label(g, x.number)'
              /\ InnerLabel(g, x.number)'.index = x.label
              /\ \A f \in given'[g] : f.number = x.number => f = x
    BY DEF NumbersNameTheirLabels
  <2>1. CASE g # h
    BY <1>5, <2>1 DEF LabelInv, NumbersNameTheirLabels, lookup_label, InnerLabel
  <2>2. CASE g = h
    <3>1. \A f \in given[h] :
            /\ f \in GivenLabel /\ f.number + 1 \in DOMAIN label_table[h]
            /\ label_table[h][f.number + 1] = f.label
      BY <1>4, <2>2 DEF LabelInv, NumbersNameTheirLabels, lookup_label,
         InnerLabel
    <3>2. ASSUME NEW f \in given'[h]
          PROVE  /\ f \in GivenLabel
                 /\ f.number + 1 \in 1 .. n + 1
                 /\ label_table'[h][f.number + 1] = f.label
      <4>1. CASE f \in given[h]
        BY <1>3, <1>6, <3>1, <4>1
      <4>2. CASE f = [number |-> n, label |-> n + 1]
        BY <1>3, <1>6, <4>2 DEF GivenLabel
      <4>. QED  BY <1>5, <3>2, <4>1, <4>2
    <3>3. \A f \in given'[h] : f.number = x.number => f = x
      BY <2>2, <3>2 DEF GivenLabel
    <3>. QED  BY <1>6, <2>2, <3>2, <3>3 DEF lookup_label, InnerLabel
  <2>. QED  BY <2>1, <2>2
<1>10. \A g \in Trampolines :
         /\ Len(label_table'[g]) = Len(inner_labels'[g])
         /\ Len(inner_labels'[g]) <= MaxLabels
         /\ \A i \in DOMAIN label_table'[g] : label_table'[g][i] = i
  <2>. SUFFICES ASSUME NEW g \in Trampolines
       PROVE  /\ Len(label_table'[g]) = Len(inner_labels'[g])
              /\ Len(inner_labels'[g]) <= MaxLabels
              /\ \A i \in DOMAIN label_table'[g] : label_table'[g][i] = i
    OBVIOUS
  <2>1. CASE g # h
    BY <1>5, <2>1 DEF LabelInv
  <2>2. CASE g = h
    <3>1. \A i \in 1 .. n : label_table[h][i] = i
      BY <1>6, <1>11 DEF LabelInv
    <3>2. n + 1 <= MaxLabels
      BY <1>1, <1>3
    <3>3. \A i \in DOMAIN label_table'[h] : label_table'[h][i] = i
      <4>. SUFFICES ASSUME NEW i \in 1 .. n + 1
           PROVE  label_table'[h][i] = i
        BY <1>6
      <4>1. i = n + 1 \/ i \in 1 .. n
        BY <1>3
      <4>. QED  BY <1>6, <3>1, <4>1
    <3>. QED  BY <1>6, <2>2, <3>2, <3>3
  <2>. QED  BY <2>1, <2>2
<1>. QED  BY <1>2, <1>7, <1>8, <1>9, <1>10 DEF LabelInv

LEMMA KeepsLabels ==
    ASSUME LabelInv, UNCHANGED labelVars,
           \A h \in Trampolines : Len(inner_labels'[h]) = Len(inner_labels[h])
    PROVE  LabelInv'
BY DEF LabelInv, labelVars, NumbersNameTheirLabels, lookup_label, InnerLabel

LEMMA KeepsTrampolines ==
    ASSUME LabelInv, UNCHANGED <<labelVars, innerVars>>
    PROVE  UNCHANGED Building!vars /\ LabelInv'
BY KeepsLabels DEF innerVars, Building!vars

(* A step of the C ABI is a step of the trampolines' builder, or none.     *)
LEMMA TrampolinesStep ==
    ASSUME HandleInv, LabelInv, Building!IInv, Next
    PROVE  [Building!Next]_Building!vars /\ LabelInv'
<1>1. ASSUME UNCHANGED <<labelVars, innerVars>>
      PROVE  [Building!Next]_Building!vars /\ LabelInv'
  BY <1>1, KeepsTrampolines
<1>2. ASSUME NEW t \in Threads, TrampolineCall(t) \/ module_query(t)
      PROVE  [Building!Next]_Building!vars /\ LabelInv'
  <2>1. \/ UNCHANGED <<labelVars, innerVars>>
        \/ /\ trampoline[t] # NULL
           /\ \/ Extends(t) /\ UNCHANGED labelVars
              \/ Binds(t) /\ UNCHANGED labelVars
              \/ NewLabel(t)
    BY <1>2, TrampolineCallEffect
  <2>2. trampoline[t] # NULL => trampoline[t] \in Trampolines
    BY DEF HandleInv, HandleTypes
  <2>3. CASE trampoline[t] # NULL /\ Extends(t) /\ UNCHANGED labelVars
    <3>1. Building!Next /\ inner_labels' = inner_labels
      BY <2>2, <2>3, ExtendsBuilds
    <3>. QED  BY <2>3, <3>1, KeepsLabels
  <2>4. CASE trampoline[t] # NULL /\ Binds(t) /\ UNCHANGED labelVars
    <3>1. /\ Building!Next
          /\ \A h \in Trampolines :
               Len(inner_labels'[h]) = Len(inner_labels[h])
      BY <2>2, <2>4, BindsBuilds
    <3>. QED  BY <2>4, <3>1, KeepsLabels
  <2>5. CASE trampoline[t] # NULL /\ NewLabel(t)
    BY <2>2, <2>5, NewLabelBuilds
  <2>. QED  BY <1>1, <2>1, <2>3, <2>4, <2>5
<1>3. ASSUME NEW t \in Threads, SessionCall(t) \/ HandleCall(t) \/ InstallCall(t)
      PROVE  UNCHANGED <<labelVars, innerVars>>
  <2>1. CASE SessionCall(t)
    BY <2>1, SessionCallEffect
  <2>2. CASE HandleCall(t)
    BY <2>2 DEF HandleCall, session_create, trampoline_create,
       session_destroy, trampoline_destroy
  <2>3. CASE InstallCall(t)
    BY <2>3, InstallCallEffect
  <2>. QED  BY <1>3, <2>1, <2>2, <2>3
<1>4. ASSUME NEW t \in Threads, NEW u \in Threads, HandOver(t, u)
      PROVE  UNCHANGED <<labelVars, innerVars>>
  BY <1>4 DEF HandOver
<1>. QED  BY <1>1, <1>2, <1>3, <1>4, Steps
-----------------------------------------------------------------------------
(* Results.                                                                *)

LEMMA InitIInv == Init => IInv
<1>. SUFFICES ASSUME Init PROVE IInv
  OBVIOUS
<1>1. HandleInv
  BY HandleAssumption DEF Init, HandleInv, HandleTypes, Boxes, OwnerInv,
     Refers, PhaseInv, HeldSessionsAreOpen, Idle, Core!Init, Handles
<1>2. AnswerInv
  BY DEF Init, AnswerInv, MessageMatchesStatus, status_of
<1>3. LabelInv
  BY BuilderAssumption DEF Init, LabelInv, NumbersNameTheirLabels, Inner!Init
<1>4. Building!IInv
  <2>1. Building!Init
    BY DEF Init, Inner!Init, Building!Init
  <2>. QED  BY <2>1, BuildingAssumptions, Building!InitIInv
<1>. QED  BY <1>1, <1>2, <1>3, <1>4 DEF IInv

LEMMA NextIInv ==
    ASSUME IInv, [Next]_vars
    PROVE  IInv' /\ [Building!Next]_Building!vars
<1>1. CASE Next
  <2>1. HandleInv' /\ AnswerInv'
    BY <1>1, HandlesStep, AnswersStep DEF IInv
  <2>2. [Building!Next]_Building!vars /\ LabelInv'
    BY <1>1, TrampolinesStep DEF IInv
  <2>3. Building!IInv'
    BY <2>2, BuildingAssumptions, Building!NextIInv DEF IInv
  <2>. QED  BY <2>1, <2>2, <2>3 DEF IInv
<1>2. CASE UNCHANGED vars
  <2>1. HandleInv'
    BY <1>2, KeepsHandles DEF vars, coreVars, IInv
  <2>2. AnswerInv'
    BY <1>2 DEF vars, IInv, AnswerInv, MessageMatchesStatus, Idle,
       handleVars, answerVars, status_of
  <2>3. UNCHANGED Building!vars /\ LabelInv'
    BY <1>2, KeepsTrampolines DEF vars, IInv
  <2>4. Building!IInv'
    BY <2>3, BuildingAssumptions, Building!NextIInv DEF IInv
  <2>. QED  BY <2>1, <2>2, <2>3, <2>4 DEF IInv
<1>. QED  BY <1>1, <1>2

(***************************************************************************)
(* The inductive invariant: who owns each handle, which sessions are open, *)
(* what messages stand for, what the label tables list, and that of the    *)
(* trampolines behind the handles (lib.rs 109-143, 252-283, 437-460 and    *)
(* 581-640).                                                               *)
(***************************************************************************)
THEOREM Invariance == Spec => []IInv
<1>1. Init => IInv
  BY InitIInv
<1>2. IInv /\ [Next]_vars => IInv'
  BY NextIInv
<1>. QED  BY <1>1, <1>2, PTL DEF Spec

(***************************************************************************)
(* A live handle has one owner, a freed one none (lib.rs 252-283, 437-460  *)
(* and 500-534).                                                           *)
(***************************************************************************)
THEOREM OneOwner == Spec => []HandlesHaveOneOwner
<1>1. ASSUME IInv, NEW h \in Handles
      PROVE  Cardinality(Owners(h)) = IF box[h] = "live" THEN 1 ELSE 0
  <2>1. CASE box[h] # "live"
    <3>1. \A t \in Threads : ~Refers(t, h)
      BY <1>1, <2>1 DEF IInv, HandleInv, OwnerInv
    <3>2. Owners(h) = {}
      BY <3>1 DEF Owners, Refers
    <3>. QED  BY <2>1, <3>2, FS_EmptySet
  <2>2. CASE box[h] = "live"
    <3>1. PICK t \in Threads : Refers(t, h)
      BY <1>1, <2>2 DEF IInv, HandleInv, OwnerInv
    <3>2. \A u \in Threads : Refers(u, h) => u = t
      BY <1>1, <3>1 DEF IInv, HandleInv, OwnerInv
    <3>3. h # NULL /\ ~(h \in Sessions /\ h \in Trampolines)
      BY HandleAssumption
    <3>4. \E kind \in {"session", "trampoline", "install"} :
            Owners(h) = {<<kind, t>>}
      <4>1. CASE session[t] = h
        <5>1. trampoline[t] # h /\ installing[t] # h
          BY <1>1, <3>3, <4>1
             DEF IInv, HandleInv, HandleTypes, OwnerInv, Idle
        <5>2. Owners(h) = {<<"session", t>>}
          BY <3>2, <4>1, <5>1 DEF Owners, Refers
        <5>. QED  BY <5>2
      <4>2. CASE trampoline[t] = h
        <5>1. session[t] # h /\ installing[t] # h
          BY <1>1, <3>3, <4>2 DEF IInv, HandleInv, HandleTypes
        <5>2. Owners(h) = {<<"trampoline", t>>}
          BY <3>2, <4>2, <5>1 DEF Owners, Refers
        <5>. QED  BY <5>2
      <4>3. CASE installing[t] = h
        <5>1. session[t] # h /\ trampoline[t] # h
          BY <1>1, <3>3, <4>3
             DEF IInv, HandleInv, HandleTypes, OwnerInv, Idle
        <5>2. Owners(h) = {<<"install", t>>}
          BY <3>2, <4>3, <5>1 DEF Owners, Refers
        <5>. QED  BY <5>2
      <4>. QED  BY <3>1, <4>1, <4>2, <4>3 DEF Refers
    <3>. QED  BY <2>2, <3>4, FS_Singleton
  <2>. QED  BY <2>1, <2>2
<1>2. IInv => HandlesHaveOneOwner
  BY <1>1 DEF HandlesHaveOneOwner
<1>. QED  BY <1>2, Invariance, PTL

(***************************************************************************)
(* The session behind a caller's pointer can be used (lib.rs 447-458).     *)
(***************************************************************************)
THEOREM HeldAreOpen == Spec => []HeldSessionsAreOpen
<1>1. IInv => HeldSessionsAreOpen
  BY DEF IInv, HandleInv, PhaseInv
<1>. QED  BY <1>1, Invariance, PTL

(***************************************************************************)
(* A thread's message is that of its own latest call (lib.rs 109-143).     *)
(***************************************************************************)
THEOREM MessagesAreOwn == Spec => []MessageMatchesStatus
<1>1. IInv => MessageMatchesStatus
  BY DEF IInv, AnswerInv
<1>. QED  BY <1>1, Invariance, PTL

(***************************************************************************)
(* A label's number names that label (lib.rs 581-595).                     *)
(***************************************************************************)
THEOREM NumbersAreTrue == Spec => []NumbersNameTheirLabels
<1>1. IInv => NumbersNameTheirLabels
  BY DEF IInv, LabelInv
<1>. QED  BY <1>1, Invariance, PTL

(***************************************************************************)
(* What a C caller builds is what a Rust caller could: every call is a     *)
(* step of the builder with the caller's own label, or leaves it alone.    *)
(* So branches of trampolines built through the C ABI lead where they were *)
(* meant to (lib.rs 400-424 and 536-740).                                  *)
(***************************************************************************)
THEOREM BranchesLead == Spec => []Inner!BranchesLeadToTargets
<1>1. IInv => Building!BranchesLeadToTargets
  BY BuildingAssumptions, Building!BuildLeads DEF IInv
<1>2. Building!BranchesLeadToTargets <=> Inner!BranchesLeadToTargets
  BY DEF Building!BranchesLeadToTargets, Inner!BranchesLeadToTargets,
     Building!build, Inner!build, Building!displacement, Inner!displacement,
     Building!resolve, Inner!resolve, Building!Decodes, Inner!Decodes,
     Building!MeantAddress, Inner!MeantAddress, Building!Encoding,
     Inner!Encoding, Building!Address, Inner!Address, Building!I32Min,
     Inner!I32Min, Building!Value, Inner!Value, Building!Error, Inner!Error,
     Building!checked_add, Inner!checked_add, Building!None, Inner!None,
     Building!relative_offset_fits, Inner!relative_offset_fits
<1>. QED  BY <1>1, <1>2, Invariance, PTL

(* What a step of the C ABI does to the installations that are running.    *)
LEMMA InstallingStep ==
    ASSUME HandleInv, Next
    PROVE  \/ installing' = installing
           \/ \E t \in Threads :
                /\ session[t] # NULL
                /\ installing' = [installing EXCEPT ![t] = session[t]]
           \/ \E t \in Threads :
                /\ InstallCall(t) /\ ~Idle(t)
                /\ Core!Refuse(installing[t]) \/ Core!Complete(installing[t])
                /\ installing' = [installing EXCEPT ![t] = NULL]
                /\ Return(t, result'[installing[t]])
<1>1. ASSUME NEW t \in Threads,
             SessionCall(t) \/ TrampolineCall(t) \/ module_query(t)
      PROVE  installing' = installing
  BY <1>1, SessionCallEffect, TrampolineCallEffect DEF handleVars
<1>2. ASSUME NEW t \in Threads, HandleCall(t)
      PROVE  installing' = installing
  BY <1>2 DEF HandleCall, session_create, trampoline_create,
     session_destroy, trampoline_destroy
<1>3. ASSUME NEW t \in Threads, NEW u \in Threads, HandOver(t, u)
      PROVE  installing' = installing
  BY <1>3 DEF HandOver
<1>4. ASSUME NEW t \in Threads, InstallCall(t)
      PROVE  \/ installing' = installing
             \/ /\ session[t] # NULL
                /\ installing' = [installing EXCEPT ![t] = session[t]]
             \/ /\ InstallCall(t) /\ ~Idle(t)
                /\ Core!Refuse(installing[t]) \/ Core!Complete(installing[t])
                /\ installing' = [installing EXCEPT ![t] = NULL]
                /\ Return(t, result'[installing[t]])
  BY <1>4, InstallCallEffect DEF handleVars
<1>. QED  BY <1>1, <1>2, <1>3, <1>4, Steps

(***************************************************************************)
(* What a caller may conclude from the status of an installation           *)
(* (lib.rs 80-107).                                                        *)
(***************************************************************************)
THEOREM StatusIsTrue == Spec => StatusTellsInstalled
<1>. DEFINE Told(t) ==
       LET s == installing[t] IN
       ~Idle(t) /\ installing'[t] = NULL =>
         /\ status'[t] \in {"Ok", "Panic"} => phase'[s] = "installed"
         /\ status'[t] \in {"AllocationFailed", "SourceChanged",
                            "OverlappingPatch"} =>
              phase'[s] = "refused"
<1>1. ASSUME IInv, Next, NEW t \in Threads
      PROVE  Told(t)
  <2>. DEFINE s == installing[t]
  <2>. SUFFICES ASSUME ~Idle(t), installing'[t] = NULL
       PROVE  /\ status'[t] \in {"Ok", "Panic"} => phase'[s] = "installed"
              /\ status'[t] \in {"AllocationFailed", "SourceChanged",
                                 "OverlappingPatch"} =>
                   phase'[s] = "refused"
    OBVIOUS
  <2>1. installing \in [Threads -> Sessions \cup {NULL}] /\ s # NULL
        /\ s \in Sessions
    BY <1>1 DEF IInv, HandleInv, HandleTypes, Idle
  <2>2. \E u \in Threads :
          /\ Core!Refuse(installing[u]) \/ Core!Complete(installing[u])
          /\ installing' = [installing EXCEPT ![u] = NULL]
          /\ Return(u, result'[installing[u]])
    <3>1. installing' # installing
      BY <2>1
    <3>2. ASSUME NEW u \in Threads, session[u] # NULL,
                 installing' = [installing EXCEPT ![u] = session[u]]
          PROVE  FALSE
      BY <2>1, <3>2
    <3>. QED  BY <1>1, <3>1, <3>2, InstallingStep DEF IInv
  <2>3. /\ Core!Refuse(s) \/ Core!Complete(s)
        /\ Return(t, result'[s])
    <3>1. PICK u \in Threads :
            /\ Core!Refuse(installing[u]) \/ Core!Complete(installing[u])
            /\ installing' = [installing EXCEPT ![u] = NULL]
            /\ Return(u, result'[installing[u]])
      BY <2>2
    <3>2. u = t
      BY <2>1, <3>1
    <3>. QED  BY <3>1, <3>2
  <2>4. status'[t] = status_of(result'[s])
    BY <1>1, <2>3 DEF Return, IInv, AnswerInv
  <2>5. DOMAIN phase = Sessions /\ DOMAIN result = Sessions
    BY <1>1 DEF IInv, HandleInv, PhaseInv
  <2>. HIDE DEF s
  <2>6. CASE Core!Refuse(s)
    <3>1. phase'[s] = "refused"
      BY <2>1, <2>5, <2>6 DEF Core!Refuse, Core!End
    <3>2. PICK error \in Core!Refusals :
            result' = [result EXCEPT ![s] = error]
      BY <2>6 DEF Core!Refuse, Core!End
    <3>3. s \in DOMAIN result => result'[s] = error
      BY <3>2
    <3>. QED  BY <2>1, <2>4, <2>5, <3>1, <3>2, <3>3
             DEF Core!Refusals, status_of
  <2>7. CASE Core!Complete(s)
    <3>1. phase'[s] = "installed"
      BY <2>1, <2>5, <2>7 DEF Core!Complete, Core!End
    <3>2. PICK outcome \in Core!Completions :
            result' = [result EXCEPT ![s] = outcome]
      BY <2>7 DEF Core!Complete, Core!End
    <3>3. s \in DOMAIN result => result'[s] = outcome
      BY <3>2
    <3>. QED  BY <2>1, <2>4, <2>5, <3>1, <3>2, <3>3
             DEF Core!Completions, status_of
  <2>. QED  BY <2>3, <2>6, <2>7
<1>. DEFINE Step == \A t \in Threads : Told(t)
<1>2. IInv /\ [Next]_vars => [Step]_vars
  BY <1>1
<1>3. Step <=> \A t \in Threads :
         LET s == installing[t] IN
         ~Idle(t) /\ installing'[t] = NULL =>
            /\ status'[t] \in {"Ok", "Panic"} => phase'[s] = "installed"
            /\ status'[t] \in {"AllocationFailed", "SourceChanged",
                               "OverlappingPatch"} =>
                 phase'[s] = "refused"
  OBVIOUS
<1>. HIDE DEF Told, Step
<1>. QED  BY <1>2, <1>3, Invariance, PTL DEF Spec, StatusTellsInstalled

(***************************************************************************)
(* What a C caller does with sessions is what Rust callers could do: every *)
(* call is a step of AtomicInstall or leaves the sessions alone, also when *)
(* calls of several threads interleave with an installation (lib.rs        *)
(* 285-460).  PatchInstall implements AtomicInstall.                       *)
(***************************************************************************)
THEOREM SessionsBehave == Spec => Core!Spec
<1>1. Init => Core!Init
  BY DEF Init
<1>2. IInv /\ [Next]_vars => [Core!Next]_(Core!vars)
  <2>. SUFFICES ASSUME IInv, [Next]_vars PROVE [Core!Next]_(Core!vars)
    OBVIOUS
  <2>1. ASSUME UNCHANGED coreVars
        PROVE  [Core!Next]_(Core!vars)
    BY <2>1 DEF coreVars, Core!vars
  <2>2. ASSUME NEW s \in Sessions,
               \/ Core!Prepare(s) \/ Core!Drop(s) \/ Core!Call(s)
               \/ Core!Refuse(s) \/ Core!Commit(s) \/ Core!Write(s)
               \/ Core!Complete(s)
        PROVE  Core!Next
    BY <2>2 DEF Core!Next
  <2>3. /\ \A t \in Threads : session[t] # NULL => session[t] \in Sessions
        /\ \A t \in Threads : ~Idle(t) => installing[t] \in Sessions
    BY DEF IInv, HandleInv, HandleTypes, Idle
  <2>4. CASE UNCHANGED vars
    BY <2>1, <2>4 DEF vars
  <2>5. ASSUME NEW t \in Threads, SessionCall(t)
        PROVE  [Core!Next]_(Core!vars)
    BY <2>1, <2>2, <2>3, <2>5, SessionCallEffect
  <2>6. ASSUME NEW t \in Threads, TrampolineCall(t) \/ module_query(t)
        PROVE  [Core!Next]_(Core!vars)
    BY <2>1, <2>6, TrampolineCallEffect
  <2>7. ASSUME NEW t \in Threads, HandleCall(t)
        PROVE  [Core!Next]_(Core!vars)
    <3>1. UNCHANGED coreVars \/ (session[t] # NULL /\ Core!Drop(session[t]))
      BY <2>7 DEF HandleCall, session_create, trampoline_create,
         session_destroy, trampoline_destroy
    <3>. QED  BY <2>1, <2>2, <2>3, <3>1
  <2>8. ASSUME NEW t \in Threads, InstallCall(t)
        PROVE  [Core!Next]_(Core!vars)
    <3>1. \/ UNCHANGED coreVars
          \/ session[t] # NULL /\ Core!Call(session[t])
          \/ /\ ~Idle(t)
             /\ \/ Core!Commit(installing[t]) \/ Core!Write(installing[t])
                \/ Core!Refuse(installing[t]) \/ Core!Complete(installing[t])
      BY <2>8, InstallCallEffect
    <3>. QED  BY <2>1, <2>2, <2>3, <3>1
  <2>9. ASSUME NEW t \in Threads, NEW u \in Threads, HandOver(t, u)
        PROVE  [Core!Next]_(Core!vars)
    BY <2>1, <2>9 DEF HandOver
  <2>. QED  BY <2>4, <2>5, <2>6, <2>7, <2>8, <2>9, Steps
<1>. QED  BY <1>1, <1>2, Invariance, PTL DEF Spec, Core!Spec

-----------------------------------------------------------------------------
(* Failed calls.                                                           *)

(* The instructions, branches and positions of h stay as they are. *)
Kept(h) ==
    /\ UNCHANGED <<code[h], relative_fixups[h]>>
    /\ \A i \in DOMAIN inner_labels[h] :
         inner_labels'[h][i] = inner_labels[h][i]

(* FailedCallsChangeNothing says this of every thread. *)
Unharmed(t) ==
    /\ session[t] # NULL /\ status'[t] # "Ok" =>
         patches'[session[t]] = patches[session[t]]
    /\ trampoline[t] # NULL /\ (status'[t] # "Ok" \/ patches' # patches) =>
         Kept(trampoline[t])

LEMMA PatchesOfSessions == Spec => [](DOMAIN patches = Sessions)
<1>1. Core!Init => DOMAIN patches = Sessions
  BY DEF Core!Init
<1>2. DOMAIN patches = Sessions /\ [Core!Next]_(Core!vars)
        => (DOMAIN patches = Sessions)'
  BY DEF Core!Next, Core!vars, Core!Prepare, Core!Drop, Core!Call,
     Core!Refuse, Core!Commit, Core!Write, Core!Complete, Core!HostWrite,
     Core!End
<1>. QED  BY <1>1, <1>2, SessionsBehave, PTL DEF Core!Spec

LEMMA KeptWhenUnchanged ==
    ASSUME NEW h, UNCHANGED innerVars
    PROVE  Kept(h)
<1>1. code' = code /\ relative_fixups' = relative_fixups
      /\ inner_labels' = inner_labels
  BY DEF innerVars
<1>. QED  BY <1>1 DEF Kept

(* Creating a label moves none; a call leaves other trampolines alone. *)
LEMMA KeptByCall ==
    ASSUME IInv, NEW u, NEW g \in Trampolines, trampoline[u] \in Trampolines,
           \/ NewLabel(u)
           \/ g # trampoline[u] /\ (Extends(u) \/ Binds(u))
    PROVE  Kept(g)
<1>. DEFINE h == trampoline[u]
<1>1. /\ DOMAIN code = Trampolines /\ DOMAIN relative_fixups = Trampolines
      /\ inner_labels \in [Trampolines -> Seq(Nat \cup {None})]
  BY DEF IInv, Building!IInv, Building!TypeOK, Building!None, None
<1>. HIDE DEF h
<1>2. ASSUME g # h, NEW n, Inner!Extend(h, n)
      PROVE  Kept(g)
  BY <1>1, <1>2 DEF Inner!Extend, Kept
<1>3. ASSUME g # h, NEW n, NEW target, NEW meant,
             Inner!push_branch(h, n, target, meant)
      PROVE  Kept(g)
  BY <1>1, <1>3 DEF Inner!push_branch, Kept
<1>4. ASSUME g # h, Extends(u)
      PROVE  Kept(g)
  <2>1. \/ \E n : Inner!Extend(h, n)
        \/ \E n, target, meant : Inner!push_branch(h, n, target, meant)
    BY <1>4 DEF Extends, h, Inner!bytes, Inner!preserved_call,
       Inner!absolute_call, Inner!absolute_jump, Inner!relative_jump,
       Inner!jump_to, Inner!jump_if
  <2>. QED  BY <1>2, <1>3, <1>4, <2>1
<1>5. ASSUME g # h, Binds(u)
      PROVE  Kept(g)
  BY <1>1, <1>5 DEF Binds, h, Inner!bind, Kept
<1>6. ASSUME NewLabel(u)
      PROVE  Kept(g)
  <2>1. /\ inner_labels' = [inner_labels EXCEPT ![h] = Append(@, None)]
        /\ UNCHANGED <<code, relative_fixups>>
    BY <1>6 DEF NewLabel, h, Inner!new_label, Inner!None, None
  <2>2. inner_labels[g] \in Seq(Nat \cup {None})
    BY <1>1
  <2>3. \/ inner_labels'[g] = inner_labels[g]
        \/ inner_labels'[g] = Append(inner_labels[g], None)
    BY <1>1, <2>1
  <2>4. \A i \in DOMAIN inner_labels[g] :
          inner_labels'[g][i] = inner_labels[g][i]
    BY <2>2, <2>3
  <2>. QED  BY <2>1, <2>4 DEF Kept
<1>. QED  BY <1>4, <1>5, <1>6 DEF h

(***************************************************************************)
(* A call that fails leaves the caller's session and trampoline as they    *)
(* were, and no call touches what another thread holds.                    *)
(***************************************************************************)
THEOREM FailuresAreHarmless == Spec => FailedCallsChangeNothing
<1>. DEFINE Sane == IInv /\ DOMAIN patches = Sessions
            Step == \A t \in Threads : Unharmed(t)
<1>1. ASSUME Sane, [Next]_vars, NEW t \in Threads
      PROVE  Unharmed(t)
  <2>1. /\ \A u \in Threads : session[u] # NULL => session[u] \in Sessions
        /\ \A u \in Threads :
             trampoline[u] # NULL => trampoline[u] \in Trampolines
        /\ \A u \in Threads : session[u] # NULL /\ session[u] = session[t]
             => u = t
        /\ \A u \in Threads :
             trampoline[u] # NULL /\ trampoline[u] = trampoline[t] => u = t
    BY <1>1 DEF IInv, HandleInv, HandleTypes, OwnerInv, Refers, Handles
  <2>2. DOMAIN status = Threads
    BY <1>1 DEF IInv, AnswerInv
  <2>3. ASSUME UNCHANGED patches, UNCHANGED innerVars
        PROVE  Unharmed(t)
    BY <2>3, KeptWhenUnchanged DEF Unharmed
  <2>4. CASE UNCHANGED vars
    BY <2>3, <2>4 DEF vars, coreVars
  <2>5. ASSUME NEW u \in Threads, SessionCall(u)
        PROVE  Unharmed(t)
    <3>1. CASE UNCHANGED coreVars
      BY <2>3, <2>5, <3>1, SessionCallEffect DEF coreVars
    <3>2. CASE /\ session[u] # NULL
               /\ Core!Prepare(session[u])
               /\ Return(u, "Ok")
      <4>1. u = t => status'[t] = "Ok"
        BY <2>2, <3>2 DEF Return, status_of
      <4>2. PICK new : patches' = [patches EXCEPT ![session[u]] = new]
        BY <3>2 DEF Core!Prepare
      <4>3. u # t /\ session[t] # NULL =>
              patches'[session[t]] = patches[session[t]]
        BY <1>1, <2>1, <4>2
      <4>4. Kept(trampoline[t])
        BY <2>5, SessionCallEffect, KeptWhenUnchanged
      <4>. QED  BY <4>1, <4>3, <4>4 DEF Unharmed
    <3>. QED  BY <2>5, <3>1, <3>2, SessionCallEffect
  <2>6. ASSUME NEW u \in Threads, TrampolineCall(u) \/ module_query(u)
        PROVE  Unharmed(t)
    <3>1. UNCHANGED patches
      BY <2>6, TrampolineCallEffect DEF coreVars
    <3>2. CASE UNCHANGED innerVars
      BY <2>3, <3>1, <3>2
    <3>3. CASE /\ trampoline[u] # NULL
               /\ (Extends(u) \/ Binds(u)) /\ Return(u, "Ok")
      <4>1. u = t => status'[t] = "Ok"
        BY <2>2, <3>3 DEF Return, status_of
      <4>2. u # t /\ trampoline[t] # NULL => Kept(trampoline[t])
        BY <1>1, <2>1, <3>3, KeptByCall
      <4>. QED  BY <3>1, <4>1, <4>2 DEF Unharmed
    <3>4. CASE trampoline[u] # NULL /\ NewLabel(u)
      <4>1. trampoline[t] # NULL => Kept(trampoline[t])
        BY <1>1, <2>1, <3>4, KeptByCall
      <4>. QED  BY <3>1, <4>1 DEF Unharmed
    <3>. QED  BY <2>6, <3>2, <3>3, <3>4, TrampolineCallEffect
  <2>7. ASSUME NEW u \in Threads, HandleCall(u)
        PROVE  Unharmed(t)
    <3>1. UNCHANGED innerVars
          /\ (UNCHANGED coreVars \/ Core!Drop(session[u]))
      BY <2>7 DEF HandleCall, session_create, trampoline_create,
         session_destroy, trampoline_destroy
    <3>2. UNCHANGED patches
      BY <3>1 DEF coreVars, Core!Drop, Core!End
    <3>. QED  BY <2>3, <3>1, <3>2
  <2>8. ASSUME NEW u \in Threads, InstallCall(u)
        PROVE  Unharmed(t)
    <3>1. UNCHANGED innerVars
      BY <2>8, InstallCallEffect
    <3>2. \/ UNCHANGED coreVars
          \/ \E s : \/ Core!Call(s) \/ Core!Commit(s) \/ Core!Write(s)
                    \/ Core!Refuse(s) \/ Core!Complete(s)
      BY <2>8, InstallCallEffect
    <3>3. UNCHANGED patches
      BY <3>2 DEF coreVars, Core!Call, Core!Commit, Core!Write, Core!Refuse,
         Core!Complete, Core!End
    <3>. QED  BY <2>3, <3>1, <3>3
  <2>9. ASSUME NEW u \in Threads, NEW v \in Threads, HandOver(u, v)
        PROVE  Unharmed(t)
    BY <2>3, <2>9 DEF HandOver, coreVars
  <2>. QED  BY <1>1, <2>4, <2>5, <2>6, <2>7, <2>8, <2>9, Steps
<1>2. Sane /\ [Next]_vars => [Step]_vars
  BY <1>1
<1>3. Step <=> \A t \in Threads :
         /\ session[t] # NULL /\ status'[t] # "Ok" =>
              patches'[session[t]] = patches[session[t]]
         /\ LET h == trampoline[t] IN
            h # NULL /\ (status'[t] # "Ok" \/ patches' # patches) =>
              /\ UNCHANGED <<code[h], relative_fixups[h]>>
              /\ \A i \in DOMAIN inner_labels[h] :
                   inner_labels'[h][i] = inner_labels[h][i]
  BY DEF Unharmed, Kept
<1>. HIDE DEF Step
<1>4. Spec => []Sane
  BY Invariance, PatchesOfSessions, PTL
<1>. QED  BY <1>2, <1>3, <1>4, PTL DEF Spec, FailedCallsChangeNothing
=============================================================================
