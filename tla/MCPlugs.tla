------------------------------ MODULE MCPlugs ------------------------------
EXTENDS Plugs, TLC

\* Every graph of requirements over two capabilities.  One plug may
\* conflict, and one claim an exclusive slot.
MCManifests ==
  {m \in [Plug -> [provides : SUBSET Capabilities, requires : SUBSET Capabilities,
                   conflicts : SUBSET Capabilities, exclusive : BOOLEAN]] :
     \A p \in Plug :
       /\ m[p].exclusive => p = 1
       /\ m[p].conflicts \subseteq IF p = NumPlugs THEN Capabilities ELSE {}}

\* Several providers of a capability, and no conflicts.
MCShared ==
  {m \in [Plug -> [provides : {{}} \cup {{c} : c \in Capabilities}, requires : SUBSET Capabilities,
                   conflicts : {{}}, exclusive : {FALSE}]] :
     \A p \in Plug : m[p].provides \cap m[p].requires = {}}

Symmetry == Permutations(Readers) \cup Permutations(Capabilities)

=============================================================================
