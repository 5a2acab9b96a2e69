SPECIFICATION Spec
CONSTANT Requests <- MCRequests
INVARIANT TimeoutKept
