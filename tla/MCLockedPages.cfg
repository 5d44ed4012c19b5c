\* Three blocks of up to three bytes over a page of four bytes and the start of the next;
\* one failure of each kind.
SPECIFICATION Spec
CONSTANTS
  Objects = {o1, o2, o3}
  Bytes = 5
  PageSize = 4
  MaxSize = 3
  MaxFails = 1
SYMMETRY Symmetry
INVARIANTS
  TypeOK
  TableMatchesOs
  NeverUndercounted
  NeverOvercounted
  SecretsStayLocked
