----------------------------- MODULE TraceProofs -----------------------------
(***************************************************************************)
(* Proofs about Trace, for any number of clients, foreign handlers and     *)
(* manual resets.                                                          *)
(*                                                                         *)
(* None of the properties is inductive alone: that off restores what was   *)
(* there depends on what the state remembered when the handlers were still *)
(* the ones on had trapped, and on what a tool that has displaced a        *)
(* handler will put back.  The conjuncts of Inv say what is known of each  *)
(* slot while nobody, and while q-cli, owns the state.                     *)
(***************************************************************************)
EXTENDS Trace, TLAPS

\* What the state remembers belongs together.
StateSound ==
  owner = "q-cli" => \A s \in Slots :
    /\ wrapped[s] = Trapped(saved[s])
    /\ ~present[s] => saved[s] = Default

KeptPolicy ==
  \A s \in Slots : kept[s].held => Policy(kept[s].handler) = Policy(kept[s].installed)

Untouched == owner = "q-cli" /\ ~touched => Ours

\* q-cli's trap is not, or no longer, around the handler in the slot.
OutOfHand(s) == owner # "q-cli" \/ handler[s] = wrapped[s]

TrapCount ==
  \A s \in Slots :
    /\ handler[s].traps <= resets + 1
    /\ owner # "q-cli" => handler[s].traps <= resets
    /\ kept[s].held =>
         /\ kept[s].handler.traps <= resets + 1
         /\ OutOfHand(s) => kept[s].handler.traps <= resets

Restoring ==
  resets = 0 => \A s \in Slots :
    /\ owner # "q-cli" => handler[s] = installed[s]
    /\ owner = "q-cli" /\ handler[s] = wrapped[s] => Restored(s) = installed[s]
    /\ kept[s].held =>
         /\ OutOfHand(s) => kept[s].handler = kept[s].installed
         /\ owner = "q-cli" /\ kept[s].handler = wrapped[s] =>
              Restored(s) = kept[s].installed

Inv == TypeOK /\ StateSound /\ PolicyIsKept /\ KeptPolicy /\ Untouched
         /\ TrapCount /\ Restoring
------------------------------------------------------------------------------
\* A trap is around a handler that can be called, and does not change it.
LEMMA Trapping ==
  ASSUME NEW h \in Handlers \ {Absent}
  PROVE  /\ Trapped(h) \in Handlers \ {Absent}
         /\ Trapped(h).traps = h.traps + 1
         /\ Trapped(h).core = h.core
         /\ Policy(Trapped(h)) = Policy(h)
         /\ Trapped(h) \notin Installable
<1>1. h.core \in Foreign \cup {"value", "absent"} /\ h.traps \in Nat
  BY DEF Handlers
<1>2. Trapped(h) = [core |-> h.core, traps |-> h.traps + 1]
  BY DEF Handlers, Trapped
<1>3. Absent.traps = 0 /\ \A g \in Installable : g.traps = 0
  BY DEF Absent, Plain, Installable
<1>4. Trapped(h).traps = h.traps + 1 /\ Trapped(h).core = h.core
  BY <1>2
<1>5. Trapped(h) # Absent /\ Trapped(h) \notin Installable
  BY <1>1, <1>3, <1>4
<1>6. Trapped(h) \in Handlers
  BY <1>1, <1>2 DEF Handlers
<1> QED BY <1>4, <1>5, <1>6 DEF Policy

\* Handlers of others are handlers, without a trap.
LEMMA Installing ==
  ASSUME NEW h \in Installable
  PROVE  h \in Handlers /\ h.traps = 0
BY DEF Installable, Handlers, Plain

LEMMA Defaults ==
  /\ Default \in Handlers \ {Absent}
  /\ Absent \in Installable
  /\ Policy(Default) = Policy(Absent)
BY ForeignAssumption DEF Default, Absent, Plain, Handlers, Installable, Policy

\* The types of what is in one slot.
LEMMA SlotTypes ==
  ASSUME TypeOK, NEW s \in Slots
  PROVE  /\ handler[s] \in Handlers /\ handler[s].traps \in Nat
         /\ saved[s] \in Handlers \ {Absent} /\ saved[s].traps \in Nat
         /\ wrapped[s] \in Handlers
         /\ present[s] \in BOOLEAN
         /\ installed[s] \in Installable
         /\ kept[s] \in [handler : Handlers, installed : Installable, held : BOOLEAN]
         /\ kept[s].handler \in Handlers /\ kept[s].handler.traps \in Nat
         /\ kept[s].installed \in Installable
         /\ resets \in Nat
<1>1. /\ handler[s] \in Handlers /\ saved[s] \in Handlers \ {Absent}
      /\ wrapped[s] \in Handlers /\ present[s] \in BOOLEAN /\ installed[s] \in Installable
      /\ kept[s] \in [handler : Handlers, installed : Installable, held : BOOLEAN]
  BY DEF TypeOK
<1>2. kept[s].handler \in Handlers /\ kept[s].installed \in Installable
  BY <1>1
<1>3. \A h \in Handlers : h.traps \in Nat
  BY DEF Handlers
<1>4. resets \in 0 .. MaxResets
  BY DEF TypeOK
<1>5. resets \in Nat
  BY <1>4, ResetsAssumption
<1> QED BY <1>1, <1>2, <1>3, <1>5

LEMMA InitInv == Init => Inv
<1> SUFFICES ASSUME Init PROVE Inv
  OBVIOUS
<1>1. \A s \in Slots : handler[s] \in Installable /\ handler[s] = installed[s]
  BY DEF Init
<1>2. \A s \in Slots : handler[s] \in Handlers /\ handler[s].traps = 0
  BY <1>1, Installing
<1>3. Nothing \in [handler : Handlers, installed : Installable, held : BOOLEAN] /\ ~Nothing.held
  BY Defaults, Installing DEF Nothing
<1>4. TypeOK
  <2>1. handler \in [Slots -> Handlers] /\ installed \in [Slots -> Installable]
    BY Installing DEF Init
  <2>2. present \in [Slots -> BOOLEAN] /\ saved \in [Slots -> Handlers \ {Absent}]
        /\ wrapped \in [Slots -> Handlers]
    BY Defaults DEF Init
  <2>3. kept \in [Slots -> [handler : Handlers, installed : Installable, held : BOOLEAN]]
    BY <1>3 DEF Init
  <2>4. req \in [Clients -> {"none", "on", "off"}]
        /\ answer \in [Clients -> {"none", "awaited", "trace: on", "trace: off",
                                   "name in use", "handlers changed"}]
    BY DEF Init
  <2>5. owner \in {"nobody", "q-cli", "other"} /\ touched \in BOOLEAN /\ resets \in 0 .. MaxResets
    <3>1. 0 \in 0 .. MaxResets
      BY ResetsAssumption
    <3>2. owner = "nobody" /\ touched = FALSE /\ resets = 0
      BY DEF Init
    <3> QED BY <3>1, <3>2
  <2> QED BY <2>1, <2>2, <2>3, <2>4, <2>5 DEF TypeOK
<1>5. TrapCount /\ Restoring /\ KeptPolicy
  BY <1>1, <1>2, <1>3 DEF Init, TrapCount, Restoring, KeptPolicy
<1> QED BY <1>1, <1>4, <1>5 DEF Init, Inv, StateSound, PolicyIsKept, Untouched

\* The clients' own steps and the refusals change neither handlers nor state.
LEMMA ClientsInv ==
  ASSUME Inv, NEW c \in Clients,
         \/ \E action \in {"on", "off"} : Ask(c, action)
         \/ GiveUp(c)
         \/ Refuse(c) \/ AlreadyOn(c) \/ AlreadyOff(c)
  PROVE  Inv'
<1>1. UNCHANGED <<handler, state, others>>
  BY DEF Ask, GiveUp, Refuse, AlreadyOn, AlreadyOff
<1>2. TypeOK'
  BY <1>1 DEF Inv, TypeOK, Ask, GiveUp, Refuse, AlreadyOn, AlreadyOff, Tell, state, others
<1> QED BY <1>1, <1>2 DEF Inv, StateSound, PolicyIsKept, KeptPolicy, Untouched, TrapCount,
           Restoring, OutOfHand, Restored, Ours, state, others

LEMMA TurnOnInv ==
  ASSUME Inv, NEW c \in Clients, TurnOn(c)
  PROVE  Inv'
<1> USE DEF Inv
<1>1. \A s \in Slots :
        /\ present'[s] = (handler[s] # Absent)
        /\ saved'[s] = Save(s) /\ wrapped'[s] = Trapped(Save(s)) /\ handler'[s] = wrapped'[s]
  BY DEF TurnOn
<1>2. owner = "nobody" /\ owner' = "q-cli" /\ touched' = FALSE /\ handler' = wrapped'
      /\ UNCHANGED <<installed, kept, resets>>
  BY DEF TurnOn
<1>3. \A s \in Slots :
        /\ Save(s) \in Handlers \ {Absent}
        /\ Save(s).traps = handler[s].traps
        /\ Policy(Save(s)) = Policy(handler[s])
        /\ handler[s] = Absent => Save(s) = Default
        /\ handler[s] # Absent => Save(s) = handler[s]
  <2>1. Default.traps = Absent.traps
    BY DEF Default, Absent, Plain
  <2> QED BY <2>1, Defaults DEF Save, TypeOK
<1>4. TypeOK'
  <2>1. /\ present' \in [Slots -> BOOLEAN]
        /\ saved' \in [Slots -> Handlers \ {Absent}]
        /\ wrapped' \in [Slots -> Handlers]
    BY <1>3, Trapping DEF TurnOn
  <2>2. req' \in [Clients -> {"none", "on", "off"}]
        /\ answer' \in [Clients -> {"none", "awaited", "trace: on", "trace: off",
                                    "name in use", "handlers changed"}]
    BY DEF TypeOK, TurnOn, Tell
  <2> QED BY <1>2, <2>1, <2>2 DEF TypeOK
<1>5. StateSound' /\ Untouched'
  BY <1>1, <1>2, <1>3 DEF StateSound, Untouched, Ours
<1>6. PolicyIsKept'
  BY <1>1, <1>2, <1>3, Trapping DEF PolicyIsKept
<1>7. KeptPolicy'
  BY <1>2 DEF KeptPolicy
<1>8. TrapCount'
  <2> SUFFICES ASSUME NEW s \in Slots
               PROVE  /\ handler'[s].traps <= resets + 1
                      /\ kept[s].held => kept[s].handler.traps <= resets
    <3>1. \A s \in Slots : kept[s].handler.traps \in Nat /\ resets \in Nat
      BY SlotTypes
    <3> QED BY <1>2, <3>1 DEF TrapCount, OutOfHand
  <2>1. handler'[s].traps = handler[s].traps + 1
    BY <1>1, <1>3, Trapping
  <2>2. /\ handler[s].traps <= resets
        /\ kept[s].held => kept[s].handler.traps <= resets
    BY <1>2 DEF TrapCount, OutOfHand
  <2> QED BY <2>1, <2>2, SlotTypes
<1>9. Restoring'
  <2> SUFFICES ASSUME resets = 0, NEW s \in Slots
               PROVE  /\ Restored(s)' = installed[s]
                      /\ kept[s].held => /\ kept[s].handler = kept[s].installed
                                         /\ kept[s].handler # wrapped'[s]
    BY <1>2 DEF Restoring, OutOfHand
  <2>1. Restored(s)' = handler[s]
    BY <1>1, <1>3 DEF Restored
  <2>2. handler[s] = installed[s]
    BY <1>2 DEF Restoring
  <2>3. ASSUME kept[s].held
        PROVE  kept[s].handler = kept[s].installed /\ kept[s].installed \in Installable
    BY <1>2, <2>3 DEF Restoring, OutOfHand, TypeOK
  <2>4. wrapped'[s] \notin Installable
    BY <1>1, <1>3, Trapping
  <2> QED BY <2>1, <2>2, <2>3, <2>4
<1> QED BY <1>4, <1>5, <1>6, <1>7, <1>8, <1>9

\* TurnOff puts back what was saved, and finds it as it was then.
LEMMA TurnOffInv ==
  ASSUME Inv, NEW c \in Clients, TurnOff(c)
  PROVE  Inv'
<1> USE DEF Inv
<1>1. /\ owner = "q-cli" /\ owner' = "nobody"
      /\ \A s \in Slots : handler[s] = wrapped[s] /\ handler'[s] = Restored(s)
      /\ UNCHANGED <<present, saved, wrapped, installed, kept, touched, resets>>
  BY DEF TurnOff, Ours, others
<1>2. \A s \in Slots :
        /\ Restored(s) \in Handlers
        /\ Policy(Restored(s)) = Policy(handler[s])
        /\ Restored(s).traps + 1 = handler[s].traps
  <2> SUFFICES ASSUME NEW s \in Slots
               PROVE  /\ Restored(s) \in Handlers
                      /\ Policy(Restored(s)) = Policy(handler[s])
                      /\ Restored(s).traps + 1 = handler[s].traps
    OBVIOUS
  <2>1. saved[s] \in Handlers \ {Absent} /\ present[s] \in BOOLEAN
    BY SlotTypes
  <2>2. /\ handler[s] = Trapped(saved[s])
        /\ ~present[s] => saved[s] = Default
    BY <1>1 DEF StateSound
  <2>3. /\ Policy(handler[s]) = Policy(saved[s])
        /\ handler[s].traps = saved[s].traps + 1
    BY <2>1, <2>2, Trapping
  <2>4. Restored(s) = saved[s] \/ (Restored(s) = Absent /\ saved[s] = Default)
    BY <2>1, <2>2 DEF Restored
  <2>5. Absent.traps = Default.traps /\ Absent \in Handlers
    BY Defaults, Installing DEF Absent, Default, Plain
  <2> QED BY <2>1, <2>3, <2>4, <2>5, Defaults
<1>3. TypeOK'
  <2>1. handler' \in [Slots -> Handlers]
    BY <1>2 DEF TurnOff
  <2>2. req' \in [Clients -> {"none", "on", "off"}]
        /\ answer' \in [Clients -> {"none", "awaited", "trace: on", "trace: off",
                                    "name in use", "handlers changed"}]
    BY DEF TypeOK, TurnOff, Tell
  <2> QED BY <1>1, <2>1, <2>2 DEF TypeOK
<1>4. StateSound' /\ Untouched' /\ KeptPolicy'
  BY <1>1 DEF StateSound, Untouched, KeptPolicy
<1>5. PolicyIsKept'
  BY <1>1, <1>2 DEF PolicyIsKept
<1>6. TrapCount'
  <2> SUFFICES ASSUME NEW s \in Slots
               PROVE  /\ handler'[s].traps <= resets
                      /\ kept[s].held => kept[s].handler.traps <= resets
    <3>1. \A s \in Slots : /\ kept[s].handler.traps \in Nat /\ resets \in Nat
                            /\ handler'[s].traps + 1 = handler[s].traps
                            /\ handler'[s].traps \in Nat
      BY <1>1, <1>2, SlotTypes DEF Handlers
    <3> QED BY <1>1, <3>1 DEF TrapCount, OutOfHand
  <2>1. Restored(s).traps \in Nat
    BY <1>2 DEF Handlers
  <2>2. /\ handler[s].traps <= resets + 1
        /\ kept[s].held => kept[s].handler.traps <= resets
    BY <1>1 DEF TrapCount, OutOfHand
  <2> QED BY <1>1, <1>2, <2>1, <2>2, SlotTypes
<1>7. Restoring'
  BY <1>1 DEF Restoring, OutOfHand
<1> QED BY <1>3, <1>4, <1>5, <1>6, <1>7

\* What others do to one slot: an untrapped handler, or the displaced one.
LEMMA OthersInv ==
  ASSUME Inv, NEW s \in Slots, Install(s) \/ Displace(s) \/ PutBack(s)
  PROVE  Inv'
<1> USE DEF Inv
<1>d. /\ DOMAIN handler = Slots /\ DOMAIN installed = Slots /\ DOMAIN kept = Slots
      /\ kept = [t \in Slots |-> kept[t]]
  BY DEF TypeOK
<1>1. /\ touched' = TRUE
      /\ UNCHANGED <<owner, present, saved, wrapped, req, answer, resets>>
      /\ \A t \in Slots \ {s} : /\ handler'[t] = handler[t] /\ installed'[t] = installed[t]
                               /\ kept'[t] = kept[t]
  <2> USE <1>d
  <2> HIDE DEF Inv
  <2>1. CASE Install(s)
    BY <2>1 DEF Install, state, clients
  <2>2. CASE Displace(s)
    BY <2>2 DEF Displace, state, clients
  <2>3. CASE PutBack(s)
    BY <2>3 DEF PutBack, state, clients
  <2> QED BY <2>1, <2>2, <2>3
<1>2. \/ /\ handler'[s] = installed'[s] /\ installed'[s] \in Installable
         /\ \/ kept'[s] = kept[s]
            \/ kept'[s] = [handler |-> handler[s], installed |-> installed[s], held |-> TRUE]
      \/ /\ kept[s].held
         /\ handler'[s] = kept[s].handler /\ installed'[s] = kept[s].installed
         /\ kept'[s] = Nothing
  <2> USE <1>d
  <2> HIDE DEF Inv
  <2>1. CASE Install(s)
    BY <2>1 DEF Install
  <2>2. CASE Displace(s)
    BY <2>2 DEF Displace
  <2>3. CASE PutBack(s)
    BY <2>3 DEF PutBack
  <2> QED BY <2>1, <2>2, <2>3
<1>3. /\ handler'[s] \in Handlers /\ installed'[s] \in Installable
      /\ kept'[s] \in [handler : Handlers, installed : Installable, held : BOOLEAN]
  <2>1. /\ handler[s] \in Handlers /\ installed[s] \in Installable
        /\ kept[s] \in [handler : Handlers, installed : Installable, held : BOOLEAN]
        /\ kept[s].handler \in Handlers /\ kept[s].installed \in Installable
    BY SlotTypes
  <2>2. Nothing \in [handler : Handlers, installed : Installable, held : BOOLEAN]
    BY Defaults, Installing DEF Nothing
  <2>3. [handler |-> handler[s], installed |-> installed[s], held |-> TRUE]
          \in [handler : Handlers, installed : Installable, held : BOOLEAN]
    BY <2>1
  <2>4. installed'[s] \in Installable => installed'[s] \in Handlers
    BY Installing
  <2> QED BY <1>2, <2>1, <2>2, <2>3, <2>4
<1>4. TypeOK'
  <2>1. /\ DOMAIN handler' = Slots /\ handler' = [t \in Slots |-> handler'[t]]
        /\ installed' = [t \in Slots |-> installed'[t]]
        /\ kept' = [t \in Slots |-> kept'[t]]
    <3> USE <1>d
    <3> HIDE DEF Inv
    <3>1. CASE Install(s)
      BY <3>1 DEF Install
    <3>2. CASE Displace(s)
      BY <3>2 DEF Displace
    <3>3. CASE PutBack(s)
      BY <3>3 DEF PutBack
    <3> QED BY <3>1, <3>2, <3>3
  <2>2. \A t \in Slots :
          /\ handler'[t] \in Handlers /\ installed'[t] \in Installable
          /\ kept'[t] \in [handler : Handlers, installed : Installable, held : BOOLEAN]
    BY <1>1, <1>3, SlotTypes
  <2>3. /\ handler' \in [Slots -> Handlers] /\ installed' \in [Slots -> Installable]
        /\ kept' \in [Slots -> [handler : Handlers, installed : Installable, held : BOOLEAN]]
    BY <2>1, <2>2
  <2> QED BY <1>1, <2>3 DEF TypeOK
<1>5. StateSound' /\ Untouched'
  BY <1>1 DEF StateSound, Untouched
<1>6. PolicyIsKept' /\ KeptPolicy'
  BY <1>1, <1>2 DEF PolicyIsKept, KeptPolicy, Nothing
\* A handler without a trap is not the trapped one.
<1>7. owner = "q-cli" => wrapped[s] \notin Installable /\ wrapped[s].traps # 0
  <2>1. saved[s] \in Handlers \ {Absent} /\ saved[s].traps \in Nat
    BY SlotTypes
  <2>2. owner = "q-cli" => wrapped[s] = Trapped(saved[s])
    BY DEF StateSound
  <2> QED BY <2>1, <2>2, Trapping
<1>8. TrapCount'
  <2> SUFFICES ASSUME NEW t \in Slots
               PROVE  /\ handler'[t].traps <= resets + 1
                      /\ owner # "q-cli" => handler'[t].traps <= resets
                      /\ kept'[t].held =>
                           /\ kept'[t].handler.traps <= resets + 1
                           /\ owner # "q-cli" \/ handler'[t] = wrapped[t] =>
                                kept'[t].handler.traps <= resets
    BY <1>1 DEF TrapCount, OutOfHand
  <2>1. CASE t # s
    BY <1>1, <2>1 DEF TrapCount, OutOfHand
  <2>2. CASE t = s
    <3>1. /\ handler[s].traps \in Nat /\ kept[s].handler.traps \in Nat /\ resets \in Nat
          /\ \A h \in Installable : h.traps = 0
      BY SlotTypes, Installing
    <3> QED BY <1>2, <1>7, <2>2, <3>1 DEF TrapCount, OutOfHand, Nothing
  <2> QED BY <2>1, <2>2
<1>9. Restoring'
  <2> SUFFICES ASSUME resets = 0, NEW t \in Slots
               PROVE  /\ owner # "q-cli" => handler'[t] = installed'[t]
                      /\ owner = "q-cli" /\ handler'[t] = wrapped[t] =>
                           Restored(t) = installed'[t]
                      /\ kept'[t].held =>
                           /\ owner # "q-cli" \/ handler'[t] = wrapped[t] =>
                                kept'[t].handler = kept'[t].installed
                           /\ owner = "q-cli" /\ kept'[t].handler = wrapped[t] =>
                                Restored(t) = kept'[t].installed
    BY <1>1 DEF Restoring, OutOfHand, Restored
  <2>1. CASE t # s
    BY <1>1, <2>1 DEF Restoring, OutOfHand
  <2>2. CASE t = s
    BY <1>2, <1>7, <2>2 DEF Restoring, OutOfHand, Nothing
  <2> QED BY <2>1, <2>2
<1> QED BY <1>4, <1>5, <1>6, <1>8, <1>9

LEMMA ClaimInv ==
  ASSUME Inv, Claim
  PROVE  Inv'
<1>1. /\ owner = "nobody" /\ owner' = "other"
      /\ UNCHANGED <<handler, present, saved, wrapped, req, answer,
                     installed, kept, touched, resets>>
  BY DEF Claim, clients, others
<1>2. TypeOK'
  BY <1>1 DEF Inv, TypeOK
<1> QED BY <1>1, <1>2 DEF Inv, StateSound, PolicyIsKept, KeptPolicy, Untouched, TrapCount,
           Restoring, OutOfHand

LEMMA ManualResetInv ==
  ASSUME Inv, ManualReset
  PROVE  Inv'
<1> USE DEF Inv
<1>1. /\ owner' = "nobody" /\ resets < MaxResets /\ resets' = resets + 1
      /\ UNCHANGED <<handler, present, saved, wrapped, req, answer, installed, kept, touched>>
  BY DEF ManualReset, clients
<1>2. resets \in Nat /\ resets' \in 0 .. MaxResets
  <2>1. resets \in 0 .. MaxResets
    BY DEF TypeOK
  <2> QED BY <1>1, <2>1, ResetsAssumption
<1>3. TypeOK'
  BY <1>1, <1>2 DEF TypeOK
<1>4. TrapCount'
  <2>1. \A s \in Slots : handler[s].traps \in Nat /\ kept[s].handler.traps \in Nat
    BY SlotTypes
  <2> QED BY <1>1, <1>2, <2>1 DEF TrapCount, OutOfHand
<1>5. Restoring'
  BY <1>1, <1>2 DEF Restoring
<1> QED BY <1>1, <1>3, <1>4, <1>5 DEF StateSound, PolicyIsKept, KeptPolicy, Untouched

LEMMA RestartInv ==
  ASSUME Inv, Restart
  PROVE  Inv'
<1>1. /\ handler' \in [Slots -> Installable] /\ installed' = handler' /\ owner' = "nobody"
      /\ kept' = [s \in Slots |-> Nothing] /\ touched' = FALSE /\ resets' = 0
      /\ req' = [c \in Clients |-> "none"]
      /\ UNCHANGED <<present, saved, wrapped, answer>>
  BY DEF Restart, Started
<1>2. \A s \in Slots : handler'[s] \in Handlers /\ handler'[s].traps = 0
  BY <1>1, Installing
<1>3. Nothing \in [handler : Handlers, installed : Installable, held : BOOLEAN] /\ ~Nothing.held
  BY Defaults, Installing DEF Nothing
<1>4. TypeOK'
  <2>1. handler' \in [Slots -> Handlers] /\ installed' \in [Slots -> Installable]
    BY <1>1, Installing
  <2>2. kept' \in [Slots -> [handler : Handlers, installed : Installable, held : BOOLEAN]]
    BY <1>1, <1>3
  <2>3. req' \in [Clients -> {"none", "on", "off"}]
    BY <1>1
  <2>4. resets' \in 0 .. MaxResets
    BY <1>1, ResetsAssumption
  <2> QED BY <1>1, <2>1, <2>2, <2>3, <2>4 DEF Inv, TypeOK
<1>5. TrapCount' /\ Restoring' /\ KeptPolicy'
  BY <1>1, <1>2, <1>3 DEF TrapCount, Restoring, KeptPolicy
<1> QED BY <1>1, <1>4, <1>5 DEF Inv, StateSound, PolicyIsKept, Untouched

LEMMA StutterInv ==
  ASSUME Inv, UNCHANGED vars
  PROVE  Inv'
<1>1. TypeOK'
  BY DEF Inv, TypeOK, vars, state, clients, others
<1> QED BY <1>1 DEF Inv, StateSound, PolicyIsKept, KeptPolicy, Untouched, TrapCount,
           Restoring, OutOfHand, Restored, Ours, vars, state, clients, others
LEMMA NextInv ==
  ASSUME Inv, [Next]_vars
  PROVE  Inv'
<1>1. ASSUME NEW c \in Clients,
             \/ \E action \in {"on", "off"} : Ask(c, action)
             \/ GiveUp(c) \/ ServeOn(c) \/ ServeOff(c)
      PROVE  Inv'
  BY <1>1, ClientsInv, TurnOnInv, TurnOffInv DEF ServeOn, ServeOff
<1>2. ASSUME NEW s \in Slots, Install(s) \/ Displace(s) \/ PutBack(s)
      PROVE  Inv'
  BY <1>2, OthersInv
<1>3. CASE Claim
  BY <1>3, ClaimInv
<1>4. CASE ManualReset
  BY <1>4, ManualResetInv
<1>5. CASE Restart
  BY <1>5, RestartInv
<1>6. CASE UNCHANGED vars
  BY <1>6, StutterInv
<1> QED BY <1>1, <1>2, <1>3, <1>4, <1>5, <1>6 DEF Next

\* What handlers and state say when q-cli owns the state, and when not.
LEMMA InHand ==
  ASSUME Inv
  PROVE  /\ owner = "q-cli" /\ Ours => \A s \in Slots : handler[s].traps > 0
         /\ owner # "q-cli" /\ resets = 0 => \A s \in Slots : handler[s].traps = 0
<1>1. ASSUME owner = "q-cli", Ours, NEW s \in Slots
      PROVE  handler[s].traps > 0
  <2>1. saved[s] \in Handlers \ {Absent} /\ saved[s].traps \in Nat
    BY SlotTypes DEF Inv
  <2>2. handler[s] = Trapped(saved[s])
    BY <1>1 DEF Inv, StateSound, Ours
  <2> QED BY <2>1, <2>2, Trapping
<1>2. ASSUME owner # "q-cli", resets = 0, NEW s \in Slots
      PROVE  handler[s].traps = 0
  BY <1>2, SlotTypes, Installing DEF Inv, Restoring
<1> QED BY <1>1, <1>2

LEMMA StepIsHonest ==
  ASSUME Inv, [Next]_vars, NEW c \in Clients, answer[c] = "awaited"
  PROVE  /\ answer'[c] = "trace: on" => \A s \in Slots : handler'[s].traps > 0
         /\ answer'[c] = "trace: off" =>
              /\ owner' # "q-cli"
              /\ resets' = 0 => \A s \in Slots : handler'[s].traps = 0
         /\ answer'[c] = "handlers changed" => touched /\ owner = "q-cli"
<1>1. Inv'
  BY NextInv
<1>2. /\ owner' = "q-cli" /\ handler' = wrapped' => \A s \in Slots : handler'[s].traps > 0
      /\ owner' # "q-cli" /\ resets' = 0 => \A s \in Slots : handler'[s].traps = 0
  <2>1. (owner = "q-cli" /\ Ours => \A s \in Slots : handler[s].traps > 0)'
        /\ (owner # "q-cli" /\ resets = 0 => \A s \in Slots : handler[s].traps = 0)'
    BY <1>1, InHand, PTL
  <2> QED BY <2>1 DEF Ours
<1>3. \A d \in Clients : \A text :
        Tell(d, text) => answer'[c] = answer[c] \/ answer'[c] = text
  BY DEF Tell, Inv, TypeOK
<1>4. ASSUME NEW d \in Clients, Refuse(d), answer'[c] = "handlers changed"
      PROVE  touched /\ owner = "q-cli"
  BY <1>3, <1>4 DEF Refuse, Inv, Untouched
<1>5. ASSUME NEW d \in Clients, Refuse(d)
      PROVE  answer'[c] \notin {"trace: on", "trace: off"}
  BY <1>3, <1>5 DEF Refuse
<1>6. ASSUME NEW d \in Clients, AlreadyOn(d) \/ TurnOn(d)
      PROVE  /\ answer'[c] \in {"awaited", "trace: on"}
             /\ owner' = "q-cli" /\ handler' = wrapped'
  BY <1>3, <1>6 DEF AlreadyOn, TurnOn, Ours, state
<1>7. ASSUME NEW d \in Clients, AlreadyOff(d) \/ TurnOff(d)
      PROVE  answer'[c] \in {"awaited", "trace: off"} /\ owner' # "q-cli"
  BY <1>3, <1>7 DEF AlreadyOff, TurnOff, state
<1>8. ASSUME NEW d \in Clients, ServeOn(d) \/ ServeOff(d)
      PROVE  \/ Refuse(d) \/ AlreadyOn(d) \/ TurnOn(d)
             \/ AlreadyOff(d) \/ TurnOff(d)
  BY <1>8 DEF ServeOn, ServeOff
<1>9. \/ answer'[c] \in {"none", "awaited"}
      \/ \E d \in Clients : ServeOn(d) \/ ServeOff(d)
  <2>1. ASSUME NEW d \in Clients, NEW action \in {"on", "off"}, Ask(d, action)
        PROVE  answer'[c] = "awaited"
    BY <2>1 DEF Ask, Inv, TypeOK
  <2>2. ASSUME NEW d \in Clients, GiveUp(d)
        PROVE  answer'[c] \in {"none", "awaited"}
    BY <2>2 DEF GiveUp, Inv, TypeOK
  <2>3. ASSUME NEW s \in Slots, Install(s) \/ Displace(s) \/ PutBack(s)
        PROVE  answer'[c] = "awaited"
    BY <2>3 DEF Install, Displace, PutBack, clients
  <2>4. ASSUME Claim \/ ManualReset \/ Restart
        PROVE  answer'[c] = "awaited"
    BY <2>4 DEF Claim, ManualReset, Restart, clients
  <2>5. ASSUME UNCHANGED vars
        PROVE  answer'[c] = "awaited"
    BY <2>5 DEF vars, clients
  <2> QED BY <2>1, <2>2, <2>3, <2>4, <2>5 DEF Next
<1>10. CASE answer'[c] \in {"none", "awaited"}
  BY <1>10
<1>11. ASSUME NEW d \in Clients, ServeOn(d) \/ ServeOff(d)
       PROVE  /\ answer'[c] = "trace: on" => owner' = "q-cli" /\ handler' = wrapped'
              /\ answer'[c] = "trace: off" => owner' # "q-cli"
              /\ answer'[c] = "handlers changed" => touched /\ owner = "q-cli"
  BY <1>4, <1>5, <1>6, <1>7, <1>8, <1>11
<1> QED BY <1>2, <1>9, <1>10, <1>11
------------------------------------------------------------------------------
\* Inv is inductive: what the four properties rest on.
THEOREM TraceInvariant == Spec => []Inv
<1>1. Init => Inv
  BY InitInv
<1>2. Inv /\ [Next]_vars => Inv'
  BY NextInv
<1> QED BY <1>1, <1>2, PTL DEF Spec

\* Every variable keeps its type.
THEOREM TraceTypeCorrect == Spec => []TypeOK
<1>1. Inv => TypeOK
  BY DEF Inv
<1> QED BY <1>1, TraceInvariant, PTL

\* Tracing never changes what evaluates the server's requests, whatever the
\* order of on, off, retries, other tools, manual resets and restarts.
THEOREM TraceKeepsPolicy == Spec => []PolicyIsKept
<1>1. Inv => PolicyIsKept
  BY DEF Inv
<1> QED BY <1>1, TraceInvariant, PTL

\* Off undoes on exactly, as long as the state was not deleted by hand.
THEOREM OffUndoesOn == Spec => []OffRestores
<1>1. Inv => OffRestores
  <2> SUFFICES ASSUME Inv, owner # "q-cli", resets = 0
               PROVE  handler = installed
    BY DEF OffRestores
  <2>1. \A s \in Slots : handler[s] = installed[s]
    BY DEF Inv, Restoring
  <2>2. handler \in [Slots -> Handlers] /\ installed \in [Slots -> Installable]
    BY DEF Inv, TypeOK
  <2> QED BY <2>1, <2>2
<1> QED BY <1>1, TraceInvariant, PTL

\* A repeated on does not trap twice.
THEOREM RetriesTrapOnce == Spec => []TrapsOnce
<1>1. Inv => TrapsOnce
  BY DEF Inv, TrapCount, TrapsOnce
<1> QED BY <1>1, TraceInvariant, PTL

\* A client is never told something that is not so.
THEOREM TraceIsHonest == Spec => AnswersAreTrue
<1>1. Inv /\ [Next]_vars => 
        [\A c \in Clients : answer[c] = "awaited" =>
           /\ answer'[c] = "trace: on" => \A s \in Slots : handler'[s].traps > 0
           /\ answer'[c] = "trace: off" =>
                /\ owner' # "q-cli"
                /\ resets' = 0 => \A s \in Slots : handler'[s].traps = 0
           /\ answer'[c] = "handlers changed" => touched /\ owner = "q-cli"]_vars
  BY StepIsHonest
<1> QED BY <1>1, TraceInvariant, PTL DEF Spec, AnswersAreTrue
==============================================================================
