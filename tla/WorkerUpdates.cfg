\* Three versions, updates that overlap with requests.
CONSTANTS
    Home = "/"
    Pages = {"/recipe/1"}
    Assets = {"/static/css/app.css"}
    MaxVersion = 3
    MaxPuts = 1
SPECIFICATION Spec
INVARIANTS NavigationAnswered NoOldAssets
PROPERTIES PagesStayPages
CHECK_DEADLOCK FALSE
