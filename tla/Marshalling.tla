---------------------------- MODULE Marshalling ----------------------------
(***************************************************************************)
(* What becomes of an exception and of an item's metadata on their way     *)
(* from a provider to client library v1 (Handler.cpp, utils.cpp and        *)
(* dbusmarshal.cpp of the provider, dbusmarshal.cpp and validate.cpp of    *)
(* remote_client).  Messages, keys and names are left out; which of them   *)
(* an error reply carries is kept.                                         *)
(***************************************************************************)
EXTENDS Naturals, Sequences

\* Exceptions of the provider library, each with the name of its type.
ProviderExceptions ==
    {"RemoteComms", "NotExists", "Exists", "Conflict", "Unauthorized", "Permission",
     "Quota", "Cancelled", "Logic", "InvalidArgument", "Resource", "Unknown"}

\* Other things a provider may throw: a std::exception, and anything else.
OtherExceptions == {"std_exception", "other"}

\* convert_exception_ptr(): a provider that reports an error in a boost future has it
\* copied with its type, if it is one of the library's.
ConvertExceptionPtr(e) == IF e \in ProviderExceptions THEN e ELSE "other"

\* What an exception carries besides its message.
ExceptionArgs(e) ==
    CASE e = "NotExists" -> <<"key">>
      [] e = "Exists"    -> <<"identity", "name">>
      [] e = "Resource"  -> <<"error_code">>
      [] OTHER           -> << >>

\* marshal_exception(): the name of the D-Bus error and its arguments after the message.
MarshalException(e) ==
    [name |-> IF e \in ProviderExceptions THEN e ELSE "Unknown", args |-> ExceptionArgs(e)]

\* Errors that do not come from a provider: of the bus itself, and of another program.
BusErrors == {"NoReply", "ServiceUnknown", "alien"}
BusError(e) == [name |-> e, args |-> << >>]

\* exception_factories: what the client makes of a name, and the arguments it reads.
Factories ==
    [e \in ProviderExceptions \ {"Unauthorized"} |-> IF e = "Unknown" THEN "LocalComms" ELSE e]

\* Mutant: a type is missing in the table.
UnmarshalException_NoConflict(error) ==
    IF error.name \in DOMAIN Factories \ {"Conflict"} THEN Factories[error.name] ELSE "LocalComms"

UnmarshalException(error) ==
    IF error.name \in DOMAIN Factories THEN Factories[error.name] ELSE "LocalComms"

\* Exceptions of client library v1.
ClientExceptions ==
    {"LocalComms", "RemoteComms", "Deleted", "RuntimeDestroyed", "NotExists", "Exists", "Conflict",
     "Permission", "Quota", "Cancelled", "Logic", "InvalidArgument", "Resource"}

\* A future keeps a clone() and throws it with raise(): the class that has no such pair of
\* its own would arrive as its base.
Cloned(e) == IF e \in ClientExceptions THEN e ELSE "StorageException"

-----------------------------------------------------------------------------
\* An item's metadata: whether the mandatory fields are filled, and how the map of
\* attributes looks: all there, a mandatory one missing, one of the wrong type.
Metadata ==
    [id : BOOLEAN, parents : {"none", "blank", "some"}, name : BOOLEAN, etag : BOOLEAN,
     type : {"file", "folder", "root", "impossible"}, attributes : {"complete", "missing", "ill-typed"}]

\* operator>>: with an impossible type it returns at once, and type and attributes keep
\* what was there: the type of a new ItemMetadata is not initialised.
Garbage == {"file", "folder", "root", "impossible"}

Unmarshal(md, garbage) ==
    IF md.type # "impossible" THEN md ELSE [md EXCEPT !.type = garbage, !.attributes = "missing"]

ValidateTypeAndValue(md) == md.attributes # "ill-typed"

Validate(md) ==
    /\ md.id /\ md.name
    /\ md.parents = (IF md.type = "root" THEN "none" ELSE "some")
    /\ md.type = "file" => md.etag /\ md.attributes = "complete"
    /\ ValidateTypeAndValue(md)

=============================================================================
