\* One version: a fragment is answered with a page.
CONSTANTS
    Home = "/"
    Pages = {"/recipe/1"}
    Assets = {"/static/css/app.css"}
    MaxVersion = 1
    MaxPuts = 1
SPECIFICATION Spec
INVARIANTS RepresentationsNeverCollide
CHECK_DEADLOCK FALSE
