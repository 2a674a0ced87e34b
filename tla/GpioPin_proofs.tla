--------------------------- MODULE GpioPin_proofs ---------------------------
(***************************************************************************)
(* For an application that is not careless, and any number of objects and   *)
(* pins: the handler's table is true, enabled pins are heard, and their     *)
(* callbacks tell the level.                                               *)
(***************************************************************************)
EXTENDS GpioPin, TLAPS

Holding == {"configured", "attached"}

\* One pin, one object.
Exclusive ==
    \A o1, o2 \in Objects :
        /\ life[o1] \in Holding /\ life[o2] \in Holding
        /\ pin_number[o1] = pin_number[o2]
        => o1 = o2

\* The object of a call is far enough for it.
CallInv ==
    /\ pc \in {"masking", "flagging"} => life[self] = "attached"
    /\ pc \in {"disowning", "freeing"} => life[self] \in Holding
    /\ pc = "freeing" => \A p \in Pins : owner[p] # self

\* An object owns its pin from attach() until dispose() gives it up.
OwnsInv ==
    \A o \in Objects :
        /\ irq_enabled[o] => life[o] = "attached"
        /\ life[o] = "attached" => bound
        /\ life[o] = "attached" /\ ~(pc = "freeing" /\ self = o)
           => owner[pin_number[o]] = o

\* What enable(true) has done so far.
OnInv ==
    on => /\ pc \in {"masking", "flagging"}
          /\ pin_number[self] \in armed
          /\ pc = "flagging" => callback_added /\ pin_number[self] \in pin_mask

\* An object can only have been told a level in the middle of enable(true) if it was
\* enabled before, and then it still is.
ToldInv ==
    on /\ cb[self] /\ known[self] # Unknown =>
        /\ irq_enabled[self] /\ callback_added /\ pin_number[self] \in pin_mask
        /\ pin_number[self] \notin pending => known[self] = level[pin_number[self]]

\* While enable(true) is at work, an object that was enabled before is still heard.
StillInv ==
    on /\ irq_enabled[self] => callback_added /\ pin_number[self] \in pin_mask

Table == Exclusive /\ CallInv /\ OwnsInv /\ OwnerTrue

IInv == TypeOK /\ Table /\ OnInv /\ StillInv /\ EnabledHeard /\ ToldInv /\ LevelKnown

-----------------------------------------------------------------------------

\* The first state of a boot satisfies the invariant.
LEMMA InitInv == Init => IInv
<1> SUFFICES ASSUME Init PROVE IInv
    OBVIOUS
<1>1. TypeOK
    BY GpioAssumption, Zenon DEF Init, TypeOK, Lives, Places, Unknown
<1>2. Table
    BY GpioAssumption DEF Init, Table, Exclusive, CallInv, OwnsInv, OwnerTrue, Holding
<1>3. OnInv /\ StillInv /\ EnabledHeard /\ ToldInv /\ LevelKnown
    BY DEF Init, OnInv, StillInv, EnabledHeard, ToldInv, LevelKnown
<1> QED BY <1>1, <1>2, <1>3 DEF IInv

\* Each step keeps the types.
LEMMA TypeStep ==
    ASSUME ~Careless, IInv, [Next]_vars PROVE TypeOK'
<1> USE GpioAssumption DEF IInv, TypeOK, Table, CallInv, Idle, Lives, Places, Unknown,
        Holding, portVars, hwVars, objectVars
<1>1. ASSUME NEW o \in Objects, Create(o) PROVE TypeOK'
    BY <1>1 DEF Create
<1>2. ASSUME NEW o \in Objects, NEW p \in Pins, NEW m \in Modes, Configure(o, p, m)
    PROVE TypeOK'
    BY <1>2 DEF Configure, Claimed
<1>3. ASSUME NEW o \in Objects, NEW listens \in BOOLEAN, Attach(o, listens) PROVE TypeOK'
    BY <1>3 DEF Attach
<1>4. ASSUME NEW o \in Objects, AttachFails(o) PROVE TypeOK'
    BY <1>4 DEF AttachFails
<1>5. ASSUME NEW o \in Objects, Read(o) PROVE TypeOK'
    <2>1. level[pin_number[o]] \in {0, 1}
        OBVIOUS
    <2>2. known' \in [Objects -> {0, 1, Unknown}]
        BY <1>5, <2>1 DEF Read
    <2> QED BY <1>5, <2>2, Zenon DEF Read
<1>6. ASSUME NEW o \in Objects, NEW l \in {0, 1}, Write(o, l) PROVE TypeOK'
    BY <1>6 DEF Write, Drive
<1>7. ASSUME NEW o \in Objects, NEW enable \in BOOLEAN, EnableHw(o, enable) PROVE TypeOK'
    <2>1. armed' \subseteq Pins /\ pending' \subseteq Pins /\ level' = level
        <3>1. CASE enable
            <4>1. armed' = armed \cup {pin_number[o]} /\ level' = level /\ pending' = pending
                BY <1>7, <3>1, Zenon DEF EnableHw
            <4>2. pin_number[o] \in Pins
                OBVIOUS
            <4> QED BY <4>1, <4>2
        <3>2. CASE ~enable
            <4>1. pending' \in {pending, pending \ {pin_number[o]}}
                BY <1>7, <3>2, Zenon DEF EnableHw, Disarm
            <4>2. pending' \subseteq Pins
                BY <4>1
            <4> QED BY <1>7, <3>2, <4>2 DEF EnableHw, Disarm
        <3> QED BY <3>1, <3>2
    <2>2. life[o] # "none" /\ o # NoOne
        BY <1>7 DEF EnableHw
    <2> QED BY <1>7, <2>1, <2>2 DEF EnableHw
<1>8. CASE EnableMask
    <2>1. pin_number[self] \in Pins /\ self \in Objects /\ life[self] # "none"
        BY <1>8 DEF EnableMask, Mask
    <2>2. pin_mask' \in {pin_mask \ {pin_number[self]}, pin_mask \cup {pin_number[self]},
                        {pin_number[self]}}
        BY <1>8, Zenon DEF EnableMask, Mask
    <2>3. pin_mask' \subseteq Pins
        BY <2>1, <2>2
    <2>4. callback_added' \in BOOLEAN /\ (pin_mask' # {} => callback_added')
        <3>1. callback_added' = (callback_added \/ on)
            BY <1>8, Zenon DEF EnableMask, Mask
        <3>2. ~on => pin_mask' = pin_mask \ {pin_number[self]}
            BY <1>8, Zenon DEF EnableMask, Mask
        <3>3. ~on /\ pin_mask' # {} => pin_mask # {}
            BY <3>2
        <3> QED BY <3>1, <3>3
    <2> QED BY <1>8, <2>1, <2>3, <2>4, Zenon DEF EnableMask, Mask
<1>9. CASE EnableFlag BY <1>9 DEF EnableFlag, Leave
<1>10. ASSUME NEW o \in Objects, DisposeHw(o) PROVE TypeOK'
    BY <1>10 DEF DisposeHw, Disarm
<1>11. CASE DisposeOwner BY <1>11 DEF DisposeOwner, Disown
<1>12. CASE DisposeFree BY <1>12 DEF DisposeFree, Leave
<1>13. ASSUME NEW p \in Pins, Edge(p) PROVE TypeOK'
    BY <1>13 DEF Edge, Drive
<1>14. ASSUME NEW p \in Pins, ZephyrPortIsr(p) PROVE TypeOK'
    BY <1>14 DEF ZephyrPortIsr, Isr, Heard
<1>15. CASE UNCHANGED vars BY <1>15 DEF vars
<1> HIDE DEF TypeOK
<1> QED BY <1>1, <1>2, <1>3, <1>4, <1>5, <1>6, <1>7, <1>8, <1>9, <1>10, <1>11, <1>12, <1>13, <1>14, <1>15 DEF Next

\* Each step keeps the table true.
LEMMA TableStep ==
    ASSUME ~Careless, IInv, [Next]_vars PROVE Table'
<1> USE GpioAssumption DEF IInv, TypeOK, Table, Exclusive, CallInv, OwnsInv,
        OwnerTrue, OnInv, Idle, Lives, Places, Unknown, Holding, portVars, hwVars,
        objectVars
<1>1. ASSUME NEW o \in Objects, Create(o) PROVE Table'
    BY <1>1 DEF Create
<1>2. ASSUME NEW o \in Objects, NEW p \in Pins, NEW m \in Modes, Configure(o, p, m)
    PROVE Table'
    BY <1>2 DEF Configure, Claimed
<1>3. ASSUME NEW o \in Objects, NEW listens \in BOOLEAN, Attach(o, listens) PROVE Table'
    BY <1>3 DEF Attach
<1>4. ASSUME NEW o \in Objects, AttachFails(o) PROVE Table'
    BY <1>4 DEF AttachFails
<1>5. ASSUME NEW o \in Objects, Read(o) PROVE Table'
    BY <1>5 DEF Read
<1>6. ASSUME NEW o \in Objects, NEW l \in {0, 1}, Write(o, l) PROVE Table'
    BY <1>6 DEF Write, Drive
<1>7. ASSUME NEW o \in Objects, NEW enable \in BOOLEAN, EnableHw(o, enable) PROVE Table'
    BY <1>7 DEF EnableHw, Disarm
<1>8. CASE EnableMask BY <1>8 DEF EnableMask, Mask
<1>9. CASE EnableFlag BY <1>9 DEF EnableFlag, Leave
<1>10. ASSUME NEW o \in Objects, DisposeHw(o) PROVE Table'
    BY <1>10 DEF DisposeHw, Disarm
<1>11. CASE DisposeOwner BY <1>11 DEF DisposeOwner, Disown
<1>12. CASE DisposeFree BY <1>12 DEF DisposeFree, Leave
<1>13. ASSUME NEW p \in Pins, Edge(p) PROVE Table'
    BY <1>13 DEF Edge, Drive
<1>14. ASSUME NEW p \in Pins, ZephyrPortIsr(p) PROVE Table'
    BY <1>14 DEF ZephyrPortIsr, Isr, Heard
<1>15. CASE UNCHANGED vars BY <1>15 DEF vars
<1> HIDE DEF Table
<1> QED BY <1>1, <1>2, <1>3, <1>4, <1>5, <1>6, <1>7, <1>8, <1>9, <1>10, <1>11, <1>12, <1>13, <1>14, <1>15 DEF Next

\* Each step leaves the enabled pins heard.
LEMMA HeardStep ==
    ASSUME ~Careless, IInv, [Next]_vars PROVE (OnInv /\ StillInv /\ EnabledHeard)'
<1> USE GpioAssumption DEF IInv, TypeOK, Table, Exclusive, CallInv, OwnsInv,
        OwnerTrue, OnInv, StillInv, EnabledHeard, Idle, Lives, Places, Unknown,
        Holding, portVars, hwVars, objectVars
<1>1. ASSUME NEW o \in Objects, Create(o) PROVE (OnInv /\ StillInv /\ EnabledHeard)'
    BY <1>1 DEF Create
<1>2. ASSUME NEW o \in Objects, NEW p \in Pins, NEW m \in Modes, Configure(o, p, m)
    PROVE (OnInv /\ StillInv /\ EnabledHeard)'
    BY <1>2 DEF Configure, Claimed
<1>3. ASSUME NEW o \in Objects, NEW listens \in BOOLEAN, Attach(o, listens)
    PROVE (OnInv /\ StillInv /\ EnabledHeard)'
    BY <1>3 DEF Attach
<1>4. ASSUME NEW o \in Objects, AttachFails(o) PROVE (OnInv /\ StillInv /\ EnabledHeard)'
    BY <1>4 DEF AttachFails
<1>5. ASSUME NEW o \in Objects, Read(o) PROVE (OnInv /\ StillInv /\ EnabledHeard)'
    BY <1>5 DEF Read
<1>6. ASSUME NEW o \in Objects, NEW l \in {0, 1}, Write(o, l)
    PROVE (OnInv /\ StillInv /\ EnabledHeard)'
    BY <1>6 DEF Write, Drive
<1>7. ASSUME NEW o \in Objects, NEW enable \in BOOLEAN, EnableHw(o, enable)
    PROVE (OnInv /\ StillInv /\ EnabledHeard)'
    BY <1>7 DEF EnableHw, Disarm
<1>8. CASE EnableMask BY <1>8 DEF EnableMask, Mask
<1>9. CASE EnableFlag BY <1>9 DEF EnableFlag, Leave
<1>10. ASSUME NEW o \in Objects, DisposeHw(o) PROVE (OnInv /\ StillInv /\ EnabledHeard)'
    BY <1>10 DEF DisposeHw, Disarm
<1>11. CASE DisposeOwner BY <1>11 DEF DisposeOwner, Disown
<1>12. CASE DisposeFree BY <1>12 DEF DisposeFree, Leave
<1>13. ASSUME NEW p \in Pins, Edge(p) PROVE (OnInv /\ StillInv /\ EnabledHeard)'
    BY <1>13 DEF Edge, Drive
<1>14. ASSUME NEW p \in Pins, ZephyrPortIsr(p) PROVE (OnInv /\ StillInv /\ EnabledHeard)'
    BY <1>14 DEF ZephyrPortIsr, Isr, Heard
<1>15. CASE UNCHANGED vars BY <1>15 DEF vars
<1> HIDE DEF OnInv, StillInv, EnabledHeard
<1> QED BY <1>1, <1>2, <1>3, <1>4, <1>5, <1>6, <1>7, <1>8, <1>9, <1>10, <1>11, <1>12, <1>13, <1>14, <1>15 DEF Next

\* Each step leaves the application with the level, or an interrupt to come.
LEMMA LevelStep ==
    ASSUME ~Careless, IInv, [Next]_vars PROVE (ToldInv /\ LevelKnown)'
<1> USE GpioAssumption DEF IInv, TypeOK, Table, Exclusive, CallInv, OwnsInv,
        OwnerTrue, OnInv, StillInv, EnabledHeard, ToldInv, LevelKnown, Idle, Lives,
        Places, Unknown, Holding, portVars, hwVars, objectVars
<1>1. ASSUME NEW o \in Objects, Create(o) PROVE (ToldInv /\ LevelKnown)'
    BY <1>1 DEF Create
<1>2. ASSUME NEW o \in Objects, NEW p \in Pins, NEW m \in Modes, Configure(o, p, m)
    PROVE (ToldInv /\ LevelKnown)'
    BY <1>2 DEF Configure, Claimed
<1>3. ASSUME NEW o \in Objects, NEW listens \in BOOLEAN, Attach(o, listens)
    PROVE (ToldInv /\ LevelKnown)'
    BY <1>3 DEF Attach
<1>4. ASSUME NEW o \in Objects, AttachFails(o) PROVE (ToldInv /\ LevelKnown)'
    BY <1>4 DEF AttachFails
<1>5. ASSUME NEW o \in Objects, Read(o) PROVE (ToldInv /\ LevelKnown)'
    BY <1>5 DEF Read
<1>6. ASSUME NEW o \in Objects, NEW l \in {0, 1}, Write(o, l) PROVE (ToldInv /\ LevelKnown)'
    BY <1>6 DEF Write, Drive
<1>7. ASSUME NEW o \in Objects, NEW enable \in BOOLEAN, EnableHw(o, enable)
    PROVE (ToldInv /\ LevelKnown)'
    BY <1>7 DEF EnableHw, Disarm
<1>8. CASE EnableMask BY <1>8 DEF EnableMask, Mask
<1>9. CASE EnableFlag BY <1>9 DEF EnableFlag, Leave
<1>10. ASSUME NEW o \in Objects, DisposeHw(o) PROVE (ToldInv /\ LevelKnown)'
    BY <1>10 DEF DisposeHw, Disarm
<1>11. CASE DisposeOwner BY <1>11 DEF DisposeOwner, Disown
<1>12. CASE DisposeFree BY <1>12 DEF DisposeFree, Leave
<1>13. ASSUME NEW p \in Pins, Edge(p) PROVE (ToldInv /\ LevelKnown)'
    BY <1>13 DEF Edge, Drive
<1>14. ASSUME NEW p \in Pins, ZephyrPortIsr(p) PROVE (ToldInv /\ LevelKnown)'
    BY <1>14 DEF ZephyrPortIsr, Isr, Heard
<1>15. CASE UNCHANGED vars BY <1>15 DEF vars
<1> HIDE DEF ToldInv, LevelKnown
<1> QED BY <1>1, <1>2, <1>3, <1>4, <1>5, <1>6, <1>7, <1>8, <1>9, <1>10, <1>11, <1>12, <1>13, <1>14, <1>15 DEF Next

-----------------------------------------------------------------------------

\* The inductive invariant: types, a true table, what enable(true) has done so far,
\* enabled pins heard and levels known.
THEOREM IInvHolds == ~Careless => (Spec => []IInv)
<1> SUFFICES ASSUME ~Careless PROVE Spec => []IInv
    OBVIOUS
<1>1. IInv /\ [Next]_vars => IInv'
    BY TypeStep, TableStep, HeardStep, LevelStep DEF IInv
<1> QED BY InitInv, <1>1, PTL DEF Spec

\* Every state of the port and of its objects is well typed.
THEOREM TypeCorrect == ~Careless => (Spec => []TypeOK)
<1>1. IInv => TypeOK
    BY DEF IInv
<1> QED BY IInvHolds, <1>1, PTL

\* _zephyr_port_isr follows no pointer to an object that dispose() has freed or that
\* has another pin.
THEOREM OwnerAlwaysTrue == ~Careless => (Spec => []OwnerTrue)
<1>1. IInv => OwnerTrue
    BY DEF IInv, Table
<1> QED BY IInvHolds, <1>1, PTL

\* Calls on other pins of the port leave an enabled pin heard.
THEOREM EnabledAlwaysHeard == ~Careless => (Spec => []EnabledHeard)
<1>1. IInv => EnabledHeard
    BY DEF IInv
<1> QED BY IInvHolds, <1>1, PTL

\* The application knows the level of an enabled pin when no interrupt is outstanding.
THEOREM LevelAlwaysKnown == ~Careless => (Spec => []LevelKnown)
<1>1. IInv => LevelKnown
    BY DEF IInv
<1> QED BY IInvHolds, <1>1, PTL

=============================================================================
