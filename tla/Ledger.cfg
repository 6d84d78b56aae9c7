SPECIFICATION Spec
CONSTANTS
    MaxRune = 3
    Components <- MCComponents
    MaxAttributes = 2
    SimpleKeys <- MCSimpleKeys
    Collections <- MCCollections
    PageSizes = {1, 2}
    MaxEntries = 2
INVARIANT RoundTrip
INVARIANT PartialQueryExact
INVARIANT PagesExact
PROPERTY Isolation
