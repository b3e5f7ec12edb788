--------------------------- MODULE SlicePublisher ---------------------------
(***************************************************************************)
(* The ResourceSlice of the node in the API server, and the requests that  *)
(* PublishSlices and DeleteSlice make.  Between two of them anybody may    *)
(* change or delete the slice: what a request answers depends on the       *)
(* object as it then is, and an Update is refused unless the               *)
(* resourceVersion it carries is the object's own.                         *)
(***************************************************************************)

CONSTANT NoSlice

VARIABLES
    slice,      \* the object in the API server, or NoSlice
    ownerRef,   \* whether the slice being published has an owner reference
    seen        \* whether the resourceVersion read is that of the object

publisher == <<slice, ownerRef, seen>>

Modes == {"basic", "structured"}

Slice == [devices : Modes, owned : BOOLEAN]

Built(mode) == [devices |-> mode, owned |-> ownerRef]

SlicePublisherType ==
    /\ slice \in Slice \cup {NoSlice}
    /\ ownerRef \in BOOLEAN
    /\ seen \in BOOLEAN

\* Create.
CanCreate == slice = NoSlice

CreateSlice(mode) ==
    /\ CanCreate
    /\ slice' = Built(mode)
    /\ seen' = FALSE
    /\ UNCHANGED ownerRef

\* Get, and what is taken from the object it returns.
CanGet == slice # NoSlice

\* Variant: the owner of the object is not looked at.
GetSliceOnly ==
    /\ CanGet
    /\ seen' = TRUE
    /\ UNCHANGED <<slice, ownerRef>>

GetSlice ==
    /\ CanGet
    /\ seen' = TRUE
    /\ ownerRef' = (ownerRef \/ slice.owned)
    /\ UNCHANGED slice

\* Variant: the slice sent has no resourceVersion.
CanUpdateAny == slice # NoSlice

\* Update.
CanUpdate == slice # NoSlice /\ seen

UpdateSlice(mode) ==
    /\ CanUpdate
    /\ slice' = Built(mode)
    /\ seen' = FALSE
    /\ UNCHANGED ownerRef

DeleteSlice ==
    /\ slice' = NoSlice
    /\ seen' = FALSE
    /\ UNCHANGED ownerRef

-----------------------------------------------------------------------------
\* Others: an administrator, the garbage collector.

EraseSlice ==
    /\ slice # NoSlice
    /\ slice' = NoSlice
    /\ seen' = FALSE
    /\ UNCHANGED ownerRef

AdoptSlice ==
    /\ slice # NoSlice
    /\ slice' = [slice EXCEPT !.owned = TRUE]
    /\ seen' = FALSE
    /\ UNCHANGED ownerRef
=============================================================================
