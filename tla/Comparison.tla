---------------------------- MODULE Comparison -----------------------------
(***************************************************************************)
(* How the v2 client library compares and hashes accounts and items:       *)
(* AccountDetails.cpp, AccountImpl.cpp and ItemImpl.cpp.  Clients keep     *)
(* both in sorted and in hashed containers, which lose or duplicate        *)
(* entries unless < is a strict order that agrees with == and equal        *)
(* objects have equal hashes.  A QString stands for its place in the order *)
(* of QStrings, an integer; the fields no comparison looks at (bus name,   *)
(* object path, provider and icon, metadata) are left out.                 *)
(***************************************************************************)
EXTENDS Integers

CONSTANTS
    QHash(_),          \* external: qHash() of a string
    HashCombine(_, _)  \* external: boost::hash_combine()

AccountDetails == [id : Nat, serviceId : Int, displayName : Int]

\* The members of AccountImpl and ItemImpl.  A default-constructed object is not
\* valid; what the other members hold then is not looked at.
Account == [valid : BOOLEAN, details : AccountDetails]
Item == [valid : BOOLEAN, account : Account, item_id : Int]

-----------------------------------------------------------------------------
DetailsEqual(a, b) ==
    a.id = b.id /\ a.serviceId = b.serviceId /\ a.displayName = b.displayName

DetailsLess(a, b) ==
    IF a.id < b.id THEN TRUE
    ELSE IF a.id > b.id THEN FALSE
    ELSE IF a.serviceId < b.serviceId THEN TRUE
    ELSE IF a.serviceId > b.serviceId THEN FALSE
    ELSE a.displayName < b.displayName

DetailsLessEqual(a, b) == DetailsLess(a, b) \/ DetailsEqual(a, b)
DetailsGreater(a, b) == ~DetailsLessEqual(a, b)
DetailsGreaterEqual(a, b) == ~DetailsLess(a, b)

AccountEqual(a, b) ==
    IF a.valid THEN b.valid /\ DetailsEqual(a.details, b.details) ELSE ~b.valid

AccountLess(a, b) ==
    IF ~a.valid THEN b.valid
    ELSE IF ~b.valid THEN FALSE
    ELSE DetailsLess(a.details, b.details)

AccountLessEqual(a, b) == AccountLess(a, b) \/ AccountEqual(a, b)
AccountGreater(a, b) == ~AccountLessEqual(a, b)
AccountGreaterEqual(a, b) == ~AccountLess(a, b)

AccountHash(a) ==
    IF ~a.valid THEN 0
    ELSE HashCombine(HashCombine(a.details.id, QHash(a.details.serviceId)),
                     QHash(a.details.displayName))

ItemEqual(a, b) ==
    IF a.valid
    THEN b.valid /\ AccountEqual(a.account, b.account) /\ a.item_id = b.item_id
    ELSE ~b.valid

ItemLess(a, b) ==
    IF ~a.valid THEN b.valid
    ELSE IF ~b.valid THEN FALSE
    ELSE IF AccountLess(a.account, b.account) THEN TRUE
    ELSE IF AccountGreater(a.account, b.account) THEN FALSE
    ELSE a.item_id < b.item_id

ItemLessEqual(a, b) == ItemLess(a, b) \/ ItemEqual(a, b)
ItemGreater(a, b) == ~ItemLessEqual(a, b)
ItemGreaterEqual(a, b) == ~ItemLess(a, b)

ItemHash(a) ==
    IF ~a.valid THEN 0
    ELSE HashCombine(HashCombine(0, AccountHash(a.account)), QHash(a.item_id))

=============================================================================
