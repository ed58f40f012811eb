\* Two concurrent requests over two manifests, across an expiry.
SPECIFICATION Spec
CONSTANTS
  Requests = {r1, r2}
  Validity = 2
  MaxManifests = 2
  MaxAuthorizations = 2
  MaxTime = 3
INVARIANTS
  ExpiredNotAdmitted
