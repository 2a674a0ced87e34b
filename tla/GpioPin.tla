------------------------------ MODULE GpioPin -------------------------------
(***************************************************************************)
(* dtgpiopin_zephyr: the pins of one port share one gpio_callback and a     *)
(* table of owners, which the interrupt handler reads between any two       *)
(* steps of the application's calls.  One thread makes the calls.  Pins of  *)
(* different ports share nothing, so one port stands for all; pin 0 is the  *)
(* number of an object that was not configured.                             *)
(***************************************************************************)
EXTENDS Naturals

CONSTANTS
    Objects,
    NoOne,      \* NULL
    Pins,       \* the local pins
    Modes,      \* the modes the application configures
    Careless    \* the application may let objects share a pin, configure one that
                \* is attached, and use or dispose one that is not configured

ASSUME GpioAssumption ==
    /\ NoOne \notin Objects
    /\ Pins \subseteq Nat /\ 0 \in Pins
    /\ Modes \subseteq {"INPUT", "OUTPUT", "INOUT"}
    /\ Careless \in BOOLEAN

VARIABLES
    \* port_state
    bound,          \* dev is not NULL
    callback_added,
    pin_mask,       \* cbk.pin_mask
    owner,
    \* the hardware
    armed,          \* the pins whose edge interrupt is on
    level,
    pending,        \* the pins with an edge that the handler has not seen
    \* dtgpiopin_zephyr_t
    life,           \* how far the object has come
    pin_number,
    mode,
    cb,             \* it is not NULL
    irq_enabled,
    \* the application's thread
    pc,
    self,
    on,             \* the argument of enable()
    known           \* what read() or the callback last said, since enable(true)

portVars == <<bound, callback_added, pin_mask, owner>>
hwVars == <<armed, level, pending>>
objectVars == <<life, pin_number, mode, cb, irq_enabled>>
vars == <<portVars, hwVars, objectVars, pc, self, on, known>>

Lives == {"none", "new", "configured", "attached"}
Places == {"out", "masking", "flagging", "disowning", "freeing"}
Unknown == 2

TypeOK ==
    /\ bound \in BOOLEAN /\ callback_added \in BOOLEAN
    /\ pin_mask \subseteq Pins /\ (pin_mask # {} => callback_added)
    /\ owner \in [Pins -> Objects \cup {NoOne}]
    /\ armed \subseteq Pins /\ pending \subseteq Pins
    /\ level \in [Pins -> {0, 1}]
    /\ life \in [Objects -> Lives]
    /\ pin_number \in [Objects -> Pins]
    /\ mode \in [Objects -> Modes \cup {"INPUT"}]
    /\ cb \in [Objects -> BOOLEAN] /\ irq_enabled \in [Objects -> BOOLEAN]
    /\ pc \in Places /\ on \in BOOLEAN
    /\ IF pc = "out" THEN self = NoOne ELSE self \in Objects /\ life[self] # "none"
    /\ known \in [Objects -> {0, 1, Unknown}]

Init ==
    /\ bound = FALSE /\ callback_added = FALSE
    /\ pin_mask = {} /\ owner = [p \in Pins |-> NoOne]
    /\ armed = {} /\ pending = {}
    /\ level \in [Pins -> {0, 1}]
    /\ life = [o \in Objects |-> "none"]
    /\ pin_number = [o \in Objects |-> 0] /\ mode = [o \in Objects |-> "INPUT"]
    /\ cb = [o \in Objects |-> FALSE] /\ irq_enabled = [o \in Objects |-> FALSE]
    /\ pc = "out" /\ self = NoOne /\ on = FALSE
    /\ known = [o \in Objects |-> Unknown]

Claimed(p) ==
    \E o \in Objects : life[o] \in {"configured", "attached"} /\ pin_number[o] = p

Idle(o, lives) ==
    /\ pc = "out"
    /\ life[o] \in lives \/ (Careless /\ life[o] # "none")

-----------------------------------------------------------------------------
(* The calls that are one step for the interrupt handler.                  *)

Create(o) ==
    /\ pc = "out" /\ life[o] = "none"
    /\ life' = [life EXCEPT ![o] = "new"]
    /\ pin_number' = [pin_number EXCEPT ![o] = 0]
    /\ mode' = [mode EXCEPT ![o] = "INPUT"]
    /\ UNCHANGED <<portVars, hwVars, cb, irq_enabled, pc, self, on, known>>

Configure(o, p, m) ==
    /\ Idle(o, {"new"})
    /\ Careless \/ ~Claimed(p)
    /\ life' = [life EXCEPT ![o] = IF @ = "new" THEN "configured" ELSE @]
    /\ pin_number' = [pin_number EXCEPT ![o] = p]
    /\ mode' = [mode EXCEPT ![o] = m]
    /\ UNCHANGED <<portVars, hwVars, cb, irq_enabled, pc, self, on, known>>

Attach(o, listens) ==
    /\ Idle(o, {"configured"})
    /\ bound' = TRUE
    /\ owner' = [owner EXCEPT ![pin_number[o]] = o]
    /\ cb' = [cb EXCEPT ![o] = listens]
    /\ life' = [life EXCEPT ![o] = "attached"]
    /\ UNCHANGED <<callback_added, pin_mask, hwVars, pin_number, mode, irq_enabled, pc,
                   self, on, known>>

\* The device is not ready or refuses the flags: the port stays bound to it.
AttachFails(o) ==
    /\ Idle(o, {"configured"})
    /\ bound' = TRUE
    /\ UNCHANGED <<callback_added, pin_mask, owner, hwVars, objectVars, pc, self, on, known>>

Read(o) ==
    /\ Idle(o, {"attached"})
    /\ known' = [known EXCEPT ![o] = level[pin_number[o]]]
    /\ UNCHANGED <<portVars, hwVars, objectVars, pc, self, on>>

Drive(p, l) ==
    /\ level' = [level EXCEPT ![p] = l]
    /\ pending' = IF p \in armed /\ l # level[p] THEN pending \cup {p} ELSE pending
    /\ armed' = armed

Write(o, l) ==
    /\ Idle(o, {"attached"})
    /\ mode[o] \in {"OUTPUT", "INOUT"}
    /\ Drive(pin_number[o], l)
    /\ UNCHANGED <<portVars, objectVars, pc, self, on, known>>

-----------------------------------------------------------------------------
(* enable()                                                                *)

\* A trigger that is turned off may leave its last edge behind.
Disarm(p) ==
    /\ armed' = armed \ {p}
    /\ pending' \in {pending, pending \ {p}}
    /\ level' = level

\* gpio_pin_interrupt_configure; when it fails enable() returns with nothing changed.
EnableHw(o, enable) ==
    /\ Idle(o, {"attached"}) /\ bound
    /\ IF enable
         THEN armed' = armed \cup {pin_number[o]} /\ UNCHANGED <<level, pending>>
         ELSE Disarm(pin_number[o])
    /\ known' = [known EXCEPT ![o] = Unknown]
    /\ pc' = "masking" /\ self' = o /\ on' = enable
    /\ UNCHANGED <<portVars, objectVars>>

Mask(mask) ==
    /\ pc = "masking" /\ pc' = "flagging"
    /\ pin_mask' = mask
    /\ callback_added' = (callback_added \/ on)
    /\ UNCHANGED <<bound, owner, hwVars, objectVars, self, on, known>>

\* Mutant of EnableMask: each enable(true) starts the mask anew.
EnableMaskAnew ==
    Mask(IF on THEN {pin_number[self]} ELSE pin_mask \ {pin_number[self]})

\* Mutant of EnableMask: the pin's bit is flipped, not set or cleared.
EnableMaskFlips ==
    Mask({p \in Pins : (p \in pin_mask) # (p = pin_number[self])})

\* The first enable(true) of the port gives it its callback, with this pin alone.
EnableMask ==
    Mask(IF ~on THEN pin_mask \ {pin_number[self]}
         ELSE IF callback_added THEN pin_mask \cup {pin_number[self]}
         ELSE {pin_number[self]})

Leave == pc' = "out" /\ self' = NoOne /\ on' = FALSE

EnableFlag ==
    /\ pc = "flagging" /\ Leave
    /\ irq_enabled' = [irq_enabled EXCEPT ![self] = on]
    /\ UNCHANGED <<portVars, hwVars, life, pin_number, mode, cb, known>>

-----------------------------------------------------------------------------
(* dispose()                                                               *)

\* Whoever owns the pin, its interrupt is turned off.
DisposeHw(o) ==
    /\ Idle(o, {"configured", "attached"})
    /\ IF bound THEN Disarm(pin_number[o]) ELSE UNCHANGED hwVars
    /\ pc' = "disowning" /\ self' = o
    /\ UNCHANGED <<portVars, objectVars, on, known>>

Disown(mine) ==
    /\ pc = "disowning" /\ pc' = "freeing"
    /\ owner' = [owner EXCEPT ![pin_number[self]] = IF mine THEN NoOne ELSE @]
    /\ pin_mask' = IF mine THEN pin_mask \ {pin_number[self]} ELSE pin_mask
    /\ UNCHANGED <<bound, callback_added, hwVars, objectVars, self, on, known>>

\* Mutant of DisposeOwner: only an object with its interrupt on gives up its pin.
DisposeOwnerIfEnabled ==
    Disown(bound /\ owner[pin_number[self]] = self /\ irq_enabled[self])

DisposeOwner == Disown(bound /\ owner[pin_number[self]] = self)

DisposeFree ==
    /\ pc = "freeing" /\ Leave
    /\ life' = [life EXCEPT ![self] = "none"]
    /\ pin_number' = [pin_number EXCEPT ![self] = 0]
    /\ mode' = [mode EXCEPT ![self] = "INPUT"]
    /\ cb' = [cb EXCEPT ![self] = FALSE]
    /\ irq_enabled' = [irq_enabled EXCEPT ![self] = FALSE]
    /\ known' = [known EXCEPT ![self] = Unknown]
    /\ UNCHANGED <<portVars, hwVars>>

-----------------------------------------------------------------------------
(* The line and the interrupt.                                             *)

Edge(p) ==
    /\ Drive(p, 1 - level[p])
    /\ UNCHANGED <<portVars, objectVars, pc, self, on, known>>

Heard(o) == o # NoOne /\ irq_enabled[o] /\ cb[o]

Isr(p, said) ==
    /\ p \in pending
    /\ pending' = pending \ {p}
    /\ known' = IF callback_added /\ p \in pin_mask /\ Heard(owner[p])
                  THEN [known EXCEPT ![owner[p]] = said[@]]
                  ELSE known
    /\ UNCHANGED <<portVars, armed, level, objectVars, pc, self, on>>

\* Mutant of ZephyrPortIsr: each interrupt is taken for one edge.
ZephyrPortIsrToggles(p) ==
    Isr(p, [k \in {0, 1, Unknown} |-> IF k = Unknown THEN level[p] ELSE 1 - k])

\* The callback is told RISING or FALLING from the level that the handler reads.
ZephyrPortIsr(p) == Isr(p, [k \in {0, 1, Unknown} |-> level[p]])

-----------------------------------------------------------------------------

Next ==
    \/ \E o \in Objects :
         \/ Create(o) \/ \E p \in Pins, m \in Modes : Configure(o, p, m)
         \/ AttachFails(o) \/ \E listens \in BOOLEAN : Attach(o, listens)
         \/ Read(o) \/ \E l \in {0, 1} : Write(o, l)
         \/ \E enable \in BOOLEAN : EnableHw(o, enable)
         \/ DisposeHw(o)
    \/ EnableMask \/ EnableFlag \/ DisposeOwner \/ DisposeFree
    \/ \E p \in Pins : Edge(p) \/ ZephyrPortIsr(p)

Spec == Init /\ [][Next]_vars

-----------------------------------------------------------------------------
(* Properties, of an application that is not careless.                     *)

\* The handler never follows the table to an object that is gone, or to one that
\* has another pin: in every step of every call an owner is attached to that pin.
OwnerTrue ==
    \A p \in Pins : owner[p] # NoOne =>
        life[owner[p]] = "attached" /\ pin_number[owner[p]] = p

\* An object that is enabled, and not in a call of its own, is heard: whatever was
\* done to other pins of the port since, its interrupt is on, the shared callback
\* is installed and covers its pin, and the pin is its own.
EnabledHeard ==
    \A o \in Objects : irq_enabled[o] /\ self # o =>
        /\ pin_number[o] \in armed
        /\ callback_added /\ pin_number[o] \in pin_mask
        /\ owner[pin_number[o]] = o

\* An application that reads the pin after enable(true) and then follows its
\* callback knows the level whenever no interrupt is outstanding, although edges
\* that come before the handler runs are one interrupt.
LevelKnown ==
    \A o \in Objects :
        /\ irq_enabled[o] /\ cb[o] /\ self # o /\ known[o] # Unknown
        /\ pin_number[o] \notin pending
        => known[o] = level[pin_number[o]]

=============================================================================
