----------------------- MODULE DynamicModuleHandling -----------------------
(***************************************************************************)
(* The helpers that create a module while the simulation runs.  The        *)
(* submodules of a compound module are a set; an element of a module       *)
(* vector has an index, any other submodule has the index NoVector.        *)
(***************************************************************************)
EXTENDS Integers, FiniteSets

CONSTANT ModuleTypes   (* The NED types the kernel can find.               *)

NoVector == -1

Module(name, index) == [name |-> name, index |-> index]

(* The loop that counts the elements of a vector: the first free index. *)
VectorSize(submodules, name) ==
  CHOOSE size \in 0 .. Cardinality(submodules) :
    /\ Module(name, size) \notin submodules
    /\ \A index \in 0 .. size - 1 : Module(name, index) \in submodules

(***************************************************************************)
(* What createErrorMessage reports: no such type, a name that is taken by  *)
(* a submodule that is no vector, or a vector where none is wanted.        *)
(***************************************************************************)
CreationFails(nedModulePath, name, submodules, isVector) ==
  \/ nedModulePath \notin ModuleTypes
  \/ Module(name, NoVector) \in submodules
  \/ ~isVector /\ VectorSize(submodules, name) > 0

CreateDynamicModule(name, submodules, isVector) ==
  Module(name, IF isVector THEN VectorSize(submodules, name) ELSE NoVector)
=============================================================================
